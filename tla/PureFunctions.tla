--------------------------- MODULE PureFunctions ---------------------------
(***************************************************************************)
(* The pure functions, each against what it is for: a behaviour takes a    *)
(* problem, of which the meaning is known because it was written down from *)
(* it, and answers with what the code computes.  To the problems of        *)
(* ProgramInputs come those on the events of the log.                      *)
(***************************************************************************)
EXTENDS Integers, FiniteSets, ProgramInputs

\* The injective sequences over S of length 1 to n.
Selections(S, n) ==
    {s \in UNION {[1 .. k -> S] : k \in 1 .. n} :
        \A i, j \in DOMAIN s : s[i] = s[j] => i = j}

-----------------------------------------------------------------------------
(* SQL texts.  A query is a head and one or two conditions; what an        *)
(* execution of it looks like depends on how its parameters are called, on *)
(* the numbers of temporary tables, of their columns and indices, on how   *)
(* many values a list has, on the layout, and on how the query is sent.    *)

Conditions == {"equal", "list", "join", "column", "dropped"}
Queries == {"select", "index"} \X Selections(Conditions, 2)
Wrappings == {"none", "parameters", "call", "quotes", "double quotes", "values", "tag"}

Opening(h, odd) ==
    CASE h = "select" -> <<"SELECT">>
      [] h = "index" -> <<"CREATE CLUSTERED INDEX idx", IF odd THEN "27" ELSE "1", " ", "ON">>

\* The condition c; odd is whether it has the other numbers, p and q are
\* two parameters.
Condition(c, odd, p, q) ==
    LET number == IF odd THEN <<"2", "7">> ELSE <<"1">>
    IN <<" ", "AND", " ">> \o
       CASE c = "equal" -> <<"a", " ", "=", " ">> \o (IF odd THEN p ELSE q)
         [] c = "list" -> <<"b", " ", "I", "N", " ", "(">> \o
                          (IF odd THEN p \o <<",", " ">> \o q ELSE p) \o <<")">>
         [] c = "join" -> <<"JOIN", " ", "#", "t", "t">> \o number \o <<" ", "T1">>
         [] c = "column" -> <<"T1", ".", "_Q_", "0", "0", number[1], "_F_", "RRef">>
         [] c = "dropped" -> <<"'", "tempdb", ".", ".", "#", "t", "t">> \o number \o <<"'">>

Wrapped(s, w, p, q) ==
    CASE w = "none" -> s
      [] w = "parameters" ->
             <<"(">> \o p \o <<" ", "nvarchar", "(", "4", ")", ",">> \o q \o <<" ", "int", ")">> \o s
      [] w = "call" ->
             <<"{call sp_executesql(N'">> \o s \o <<"'", ",", "N'">> \o p \o <<" ", "int", "'", ")", "}">>
      [] w = "quotes" -> <<"'">> \o s \o <<"'">>
      [] w = "double quotes" -> <<"dq">> \o s \o <<"dq">>
      [] w = "values" -> s \o <<"nl", "p_0:", " ", "7">>
      [] w = "tag" -> <<"<?query --">> \o s \o <<"--?>">>

\* The text of query q when the conditions in odd have the other numbers;
\* named is whether its parameters have names, laid whether it has line
\* breaks and tabs.
Text(q, odd, named, laid, w) ==
    LET p1 == IF named THEN <<"@", "first">> ELSE <<"@P", "1">>
        p2 == IF named THEN <<"@", "second">> ELSE <<"@P", "2", "3">>
        body == FlattenSeq([i \in DOMAIN q[2] |-> Condition(q[2][i], i \in odd, p1, p2) \o
                                            (IF laid THEN <<"cr", "nl">> ELSE <<>>)])
        text == Opening(q[1], 1 \in odd) \o body
    IN Wrapped([i \in DOMAIN text |-> IF laid /\ text[i] = " " THEN "tab" ELSE text[i]],
               w, p1, p2)

\* The form of every query in its simplest text.
Forms == {<<q, Sql!SqlHashDbMsSql(Text(q, {}, FALSE, FALSE, "none"))>> : q \in Queries}

SqlProblems ==
    UNION {{[kind |-> "sql", query |-> q, text |-> Text(q, odd, named, laid, w)] :
               odd \in SUBSET DOMAIN q[2], named \in BOOLEAN, laid \in BOOLEAN,
               w \in Wrappings} :
           q \in Queries}

-----------------------------------------------------------------------------
(* Events: what is meant, and how the log says it. *)

Numeral(n) == IF n < 10 THEN <<ToString(n)>> ELSE <<ToString(n \div 10), ToString(n % 10)>>

\* A row of a plan: its eight numbers, and the method.
PlanText(plan) ==
    <<"'", "nl">> \o
    FlattenSeq([i \in DOMAIN plan |->
        FlattenSeq([j \in 1 .. 8 |-> Numeral(plan[i].numbers[j]) \o <<",", " ">>])
        \o <<" ", "|--", plan[i].method, "(", "x", ")", "nl">>])
    \o <<"'">>

Context(lines) ==
    IF Len(lines) < 2 THEN lines
    ELSE <<"'">> \o FlattenSeq([i \in 1 .. Len(lines) - 1 |-> <<lines[i], "nl", "tab">>])
                \o <<Last(lines), "'">>

\* Minutes on either side of a new hour of the year 21, the seconds
\* and microseconds of what varies.
Time(m) ==
    [year |-> 21, mon |-> 1, day |-> 3, hour |-> 1 + m.minute \div 2,
     min |-> IF m.minute = 1 THEN 3 ELSE 0, sec |-> IF m.odd THEN 0 ELSE 2,
     mseconds |-> m.duration % Micro]

Event(m) ==
    [name |-> m.name, time |-> Time(m), database |-> "base", duration |-> m.duration,
     row |-> IF m.rows = 0 THEN <<>> ELSE Numeral(m.rows),
     rowsAffected |-> IF m.rows = 0 THEN <<"-", "1">> ELSE Numeral(m.rows + 1),
     dbpid |-> IF m.pid = 0 THEN <<"none">> ELSE Numeral(m.pid),
     planSQLText |-> PlanText(m.plan),
     context |-> Context(m.lines),
     sql |-> IF m.query = <<>> THEN <<>> ELSE Text(m.query, IF m.odd THEN {1} ELSE {}, FALSE, FALSE, "call"),
     func |-> <<"func">>,
     waitConnections |-> m.waits,
     intersections |-> <<"'", " ">> \o m.waits \o <<" ", "x", "'">>]

Plans == {<<>>, <<[numbers |-> <<3, 1, 20, 0, 0, 11, 5, 2>>, method |-> "Scan"]>>,
          <<[numbers |-> <<3, 1, 20, 0, 0, 11, 5, 2>>, method |-> "Join"],
            [numbers |-> <<40, 2, 5, 1, 1, 9, 4, 2>>, method |-> "Seek"]>>}
Contexts == {<<>>, <<"A">>, <<"A", "B">>, <<"B", "A", "B">>}
AQuery == <<"select", <<"equal">>>>
OtherQuery == <<"index", <<"list">>>>

RequestProblems ==
    [kind : {"request"},
     event : [name : {"DBMSSQL", "TTIMEOUT", "TDEADLOCK"}, minute : {1, 2}, duration : {7},
              rows : {0, 5, 12}, pid : {0, 57}, plan : Plans, lines : Contexts,
              query : {<<>>, AQuery}, odd : BOOLEAN, waits : {<<"8">>}]]

\* What varies where events are counted: minute, context, query, and numbers.
Meant(name, minute, lines, query, odd) ==
    [name |-> name, minute |-> minute, duration |-> IF odd THEN 7 ELSE 9,
     rows |-> IF odd THEN 0 ELSE 12, pid |-> 0,
     plan |-> CHOOSE plan \in Plans : Len(plan) = (IF odd THEN 1 ELSE 2),
     lines |-> lines, query |-> query, odd |-> odd, waits |-> <<"8">>]

AnalysedLogs ==
    LET some == {Meant("DBMSSQL", minute, what[1], what[2], odd) :
                     minute \in 1 .. 2, odd \in BOOLEAN,
                     what \in {<<<<"A">>, AQuery>>, <<<<"B", "A">>, AQuery>>,
                               <<<<"A">>, OtherQuery>>}}
                \cup {Meant(name, minute, <<"A">>, AQuery, FALSE) :
                          name \in {"TTIMEOUT", "TDEADLOCK"}, minute \in 1 .. 2}
    IN {[i \in DOMAIN log |-> Event(log[i])] : log \in UNION {[1 .. k -> some] : k \in 0 .. 3}}

-----------------------------------------------------------------------------
EventsInit ==
    problem \in SqlProblems \cup RequestProblems /\ answer = <<>>

HashSqlText ==
    /\ problem.kind = "sql"
    /\ answer' = <<Sql!SqlHashDbMsSql(problem.text)>>

FillRows ==
    /\ problem.kind = "request"
    /\ LET event == Event(problem.event)
       IN answer' = <<CreateFromEvent(event), ManagedLockEvent(event),
                      SqlKeys(event), SqlValues(event), LockKeys(event)>>

EventsNext ==
    /\ answer = <<>>
    /\ UNCHANGED problem
    /\ HashSqlText \/ FillRows

Init == InputsInit \/ EventsInit
Next == InputsNext \/ EventsNext
Spec == Init /\ [][Next]_inputs

(* Two executions of one query have the same normal form, however they are *)
(* sent and whatever the numbers in them, and different queries have       *)
(* different ones: the receiver neither splits a query nor mixes two up.   *)
SameFormSameQuery ==
    Answered("sql") =>
        {f \in Forms : f[2] = answer[1]} = {<<problem.query, answer[1]>>}

Form(query) == (CHOOSE f \in Forms : f[1] = query)[2]
LastLine(m) == IF m.lines = <<>> THEN <<>> ELSE <<Last(m.lines)>>
Sum(s, Of(_)) == FoldLeft(LAMBDA n, e : n + Of(e), 0, s)

\* The count, duration and rows of an event, and what its plan adds up to.
Values(m) ==
    <<1, m.duration, m.rows, IF m.rows = 0 THEN 0 ELSE m.rows + 1,
      Sum(m.plan, LAMBDA r : r.numbers[1]), Sum(m.plan, LAMBDA r : r.numbers[3]),
      Sum(m.plan, LAMBDA r : r.numbers[1] * r.numbers[6]),
      Sum(m.plan, LAMBDA r : r.numbers[3] * r.numbers[6])>>

(* The rows of a long request and of a lock, and the keys and values by    *)
(* which the analysis counts them, say what was meant by the event,        *)
(* wherever the log leaves a number or a plan out, writes -1, quotes a     *)
(* context or spreads it over lines, and whichever process waits.          *)
RowsTellTheEvent ==
    Answered("request") =>
        LET m == problem.event
            row == answer[1]
            keys == answer[3]
            t == Time(m)
            minute == <<t.year % Base, t.mon, t.day, t.hour, t.min>>
            date == minute \o <<t.sec, t.mseconds>>
            form == IF m.query = <<>> THEN <<"func">> ELSE Form(m.query)
        IN /\ row.date = date /\ row.microseconds = t.mseconds
           /\ answer[4] = Values(m)
           /\ answer[4] = <<1, row.duration, row.rows, row.rows_affected, row.rows_processed,
                            row.estimate_rows_processed, row.data_size, row.estimate_data_size>>
           /\ row.dbpid = m.pid
           /\ row.sql_text_hash = form
           /\ [i \in DOMAIN row.sql_plan_tokens |-> row.sql_plan_tokens[i].method]
                  = [i \in DOMAIN m.plan |-> <<m.plan[i].method>>]
           /\ row.last_string_context = LastLine(m)
           /\ answer[2] = [date |-> date, microseconds |-> t.mseconds, type |-> m.name, wait_connections |-> m.waits,
                           last_string_context |-> LastLine(m)]
           /\ ToDateFormatString(keys[1]) = minute \o <<0, 0>>
           /\ Tail(keys) = <<"base", LastLine(m), Context(m.lines), form>>
           /\ answer[5] = Front(keys)
=============================================================================
