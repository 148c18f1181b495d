---------------------------- MODULE EventFields ----------------------------
(***************************************************************************)
(* What a report says of one event (functions.cpp, objects_event.cpp): a   *)
(* text of the log is a sequence of characters and words ("nl" and "tab"   *)
(* for a line break and a tab), of which numbers, lines and names are read. *)
(* Real numbers are whole here, and an empty text of digits, for which     *)
(* stoull throws and the process ends, is no input.                        *)
(***************************************************************************)
EXTENDS Integers, Texts, TLC, Dates

Sql == INSTANCE SqlTextHash

\* stoull and stod of digits that spaces may precede.
Digit(c) == CHOOSE n \in 0 .. 9 : ToString(n) = c
Number(s) ==
    FoldLeft(LAMBDA n, c : IF c = " " THEN n ELSE 10 * n + Digit(c), 0, s)

-----------------------------------------------------------------------------
(* Single values. *)

RowsToUint64(str) == IF str \in {<<>>, <<"-", "1">>} THEN 0 ELSE Number(str)

GetDbPid(str) == IF str # <<>> /\ str[1] \in Sql!Digits THEN Number(str) ELSE 0

\* The second of at least two words and a space: the connection waited for.
WaitConnectionFromDeadlockConnectionIntersections(str) ==
    LET rest == After(str, " ")
    IN IF \E i, j \in DOMAIN str : i < j /\ str[i] = " " /\ str[j] = " "
       THEN Upto(rest, " ") ELSE <<>>

\* (Seeded fault: the quote that ends the context stays.)
LastStringContextQuote(str) ==
    LET line == SubSeq(str, SelectLastInSeq(str, LAMBDA c : c = "nl") + 1, Len(str))
        text == SelectInSeq(line, LAMBDA c : c # "tab")
    IN IF text = 0 THEN line ELSE SubSeq(line, text, Len(line))

\* The last line of a context, without its tabs and the closing quote; back()
\* of an empty last line is undefined.
LastStringContext(str) ==
    LET line == SubSeq(str, SelectLastInSeq(str, LAMBDA c : c = "nl") + 1, Len(str))
        text == SelectInSeq(line, LAMBDA c : c # "tab")
        bare == IF text = 0 THEN line ELSE SubSeq(line, text, Len(line))
    IN IF str = <<>> THEN str
       ELSE IF Last(bare) = "'" THEN Front(bare) ELSE bare

-----------------------------------------------------------------------------
(* Plans. *)

PlanTxtRow(field, stmt_text) ==
    [rows |-> field[1], executes |-> field[2], estimate_rows |-> field[3],
     estimate_io |-> field[4], estimate_cpu |-> field[5], avg_row_size |-> field[6],
     total_subtree_cost |-> field[7], estimate_executions |-> field[8],
     method |-> Upto(stmt_text, "(")]

\* Eight numbers, a comma after each, and what "|--" precedes.
PlanTxtRowParse(line) ==
    LET Field(st, i) == [field |-> Append(st.field, Number(Upto(st.str, ","))),
                         str |-> After(st.str, ",")]
        st == FoldLeft(Field, [field |-> <<>>, str |-> line], [i \in 1 .. 8 |-> i])
    IN PlanTxtRow(st.field, After(st.str, "|--"))

\* The lines of a text that a line break ends.
Lines(str) ==
    LET Char(st, c) == IF c = "nl" THEN [lines |-> Append(st.lines, st.line), line |-> <<>>]
                       ELSE [st EXCEPT !.line = Append(@, c)]
    IN FoldLeft(Char, [lines |-> <<>>, line |-> <<>>], str).lines

PlanTxt == [rows |-> 0, estimate_rows |-> 0, data_size |-> 0, estimate_data_size |-> 0,
            rows_all |-> <<>>]

\* Lines of up to five characters are no rows of a plan.
PlanTxtParse(str) ==
    LET Row(plan_txt, row) ==
            [rows |-> plan_txt.rows + row.rows,
             estimate_rows |-> plan_txt.estimate_rows + row.estimate_rows,
             data_size |-> plan_txt.data_size + row.avg_row_size * row.rows,
             estimate_data_size |->
                 plan_txt.estimate_data_size + row.avg_row_size * row.estimate_rows,
             rows_all |-> Append(plan_txt.rows_all, row)]
        Line(plan_txt, line) ==
            IF Len(line) > 5 THEN Row(plan_txt, PlanTxtRowParse(line)) ELSE plan_txt
    IN FoldLeft(Line, PlanTxt, Lines(str))

-----------------------------------------------------------------------------
(* Rows of a report. *)

\* The time of an event, and the start of its minute.
Moment(event) ==
    LET t == event.time
    IN ToUint64(t.year, t.mon, t.day, t.hour, t.min, t.sec, t.mseconds)
Minute(event) ==
    LET t == event.time IN ToUint64(t.year, t.mon, t.day, t.hour, t.min, 0, 0)

\* The row of a lock, as WorkerThread and RunAnalysis fill it.
ManagedLockEvent(event) ==
    [date |-> ToDateFormatString(Moment(event)),
     microseconds |-> Microseconds(Moment(event)),
     type |-> event.name,
     wait_connections |->
         IF event.name = "TDEADLOCK"
         THEN WaitConnectionFromDeadlockConnectionIntersections(event.intersections)
         ELSE event.waitConnections,
     last_string_context |-> LastStringContext(event.context)]

\* CreateFromEvent; the values that are copied as they are are left out.
CreateFromEvent(event) ==
    LET plan_txt == PlanTxtParse(event.planSQLText)
    IN [date |-> ToDateFormatString(Moment(event)),
        microseconds |-> Microseconds(Moment(event)),
        duration |-> event.duration,
        dbpid |-> GetDbPid(event.dbpid),
        rows |-> RowsToUint64(event.row),
        rows_affected |-> RowsToUint64(event.rowsAffected),
        rows_processed |-> plan_txt.rows,
        estimate_rows_processed |-> plan_txt.estimate_rows,
        data_size |-> plan_txt.data_size,
        estimate_data_size |-> plan_txt.estimate_data_size,
        last_string_context |-> LastStringContext(event.context),
        sql_text_hash |-> IF event.sql # <<>> THEN Sql!SqlHashDbMsSql(event.sql) ELSE event.func,
        sql_plan_tokens |-> plan_txt.rows_all]
=============================================================================
