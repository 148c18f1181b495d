----------------------------- MODULE SqlTextHash ----------------------------
(***************************************************************************)
(* The normal form of an SQL text (SqlTextHash.cpp), by which the receiver *)
(* of the reports groups long requests: what two executions of one query   *)
(* differ in is taken out, the rest is hashed.                             *)
(*                                                                         *)
(* A text is a sequence of tokens: the characters the code looks at, one   *)
(* by one ("nl", "tab" and "dq" for a line break, a tab and a double       *)
(* quote), the prefixes it compares as a whole, and words, which stand for *)
(* runs of any other characters.                                           *)
(***************************************************************************)
EXTENDS Integers, Sequences, SequencesExt, FiniteSetsExt

Digits == {"0", "1", "2", "3", "4", "5", "6", "7", "8", "9"}

From(s, i) == SubSeq(s, i, Len(s))
Before(s, i) == SubSeq(s, 1, i - 1)

\* The places where part occurs in s.
Places(s, part) ==
    {i \in 1 .. Len(s) - Len(part) + 1 :
        SubSeq(s, i, i + Len(part) - 1) = part}

-----------------------------------------------------------------------------
(* What is around the query. *)

\* DeleteSingleQuotesLeftRight and DeleteDoubleQuotesLeftRight; front() and
\* back() of an empty text are undefined, and so is taking two from one.
DeleteQuotes(s, quote) ==
    IF s[1] = quote /\ Last(s) = quote THEN SubSeq(s, 2, Len(s) - 1) ELSE s

\* (Seeded fault: the first bracket that closes ends the parameters.)
DeleteLeftParametersToBracket(s) ==
    IF s[1] = "(" /\ s[2] \in {"@", "@P"} /\ Places(s, <<")">>) # {}
    THEN From(s, Min(Places(s, <<")">>)) + 1) ELSE s

\* "(@P1 int, @P2 nvarchar(100))" before the query.
DeleteLeftParameters(s) ==
    LET Count(c, i) == Cardinality({j \in 1 .. i : s[j] = c})
        closed == {i \in 1 .. Len(s) : Count("(", i) = Count(")", i)}
    IN IF s[1] = "(" /\ s[2] \in {"@", "@P"} /\ closed # {}
       THEN From(s, Min(closed) + 1) ELSE s

\* The values of the parameters, after the query.
DeleteParam(s) ==
    LET found == Places(s, <<"nl", "p_0:">>)
    IN IF found = {} THEN s ELSE Before(s, Max(found))

DeleteSpExecuteSql(s) ==
    IF s[1] # "{call sp_executesql(N'" THEN s
    ELSE LET found == Places(Tail(s), <<"'", ",">>)
         IN IF found = {} THEN Tail(s) ELSE Before(Tail(s), Min(found))

DeleteXmlTag(s) ==
    IF s[1] = "<?query --" /\ Last(s) = "--?>"
    THEN SubSeq(s, 2, Len(s) - 1) ELSE s

ReplacingTab(s) == [i \in DOMAIN s |-> IF s[i] = "tab" THEN " " ELSE s[i]]

-----------------------------------------------------------------------------
(* Parameters. *)

\* What follows a parameter sign is skipped while it belongs to its name.
ReplaceSign(s, sign, InName(_)) ==
    LET Next(st, c) ==
            IF st.skip /\ InName(c) THEN st
            ELSE IF c = sign THEN [out |-> Append(st.out, "?"), skip |-> TRUE]
            ELSE [out |-> Append(st.out, c), skip |-> FALSE]
    IN FoldLeft(Next, [out |-> <<>>, skip |-> FALSE], s).out

Numbered(c) == c \in Digits
Named(c) == c \notin {" ", "=", ",", ")", "cr", "nl", "tab"}

\* "@P1" becomes "?"; only a text without such has "@name" replaced.
ReplacingParameters(s) ==
    IF "@P" \in ToSet(s) THEN ReplaceSign(s, "@P", Numbered)
                         ELSE ReplaceSign(s, "@", Named)

-----------------------------------------------------------------------------
(* The query itself. *)

\* The name of the index of a temporary table, up to the next space.
ChangeCreateClusteredIndex(s) ==
    LET spaces == Places(s, <<" ">>)
    IN IF s # <<>> /\ s[1] = "CREATE CLUSTERED INDEX idx" /\ spaces # {}
       THEN [out |-> <<"CREATECLUSTEREDINDEXidx">>, rest |-> From(s, Min(spaces) + 1)]
       ELSE [out |-> <<>>, rest |-> s]

\* What `stack` may have come to.
Temp == <<" ", "#", "t", "t">>
TempDb == <<".", ".", "#", "t", "t">>
List == <<" ", "I", "N", " ", "(", "?">>
Inside == {Temp, TempDb, List}

\* The first n tokens of Temp, TempDb or List.
Start(s, n) == SubSeq(s, 1, n)

\* The loop of SqlHashDbMsSql: one character, with the text so far and the
\* stack, which only a space, a dot or the next character of what it is a
\* beginning of makes longer and only an unexpected character empties.
Character(st, c) ==
    LET out == [st EXCEPT !.out = Append(@, c)]
        push == [st EXCEPT !.stack = Append(@, c)]
        both == [out EXCEPT !.stack = Append(@, c)]
        emit(x) == [out |-> st.out \o x, stack |-> <<>>]
    IN CASE c = " " ->
              IF st.stack = Temp THEN emit(<<"#", "t", "t">>)
              ELSE IF st.stack = List THEN st ELSE push
         [] c = "'" ->
              IF st.stack = TempDb THEN emit(<<"#", "t", "t", "'">>) ELSE out
         [] c = "." -> both
         [] c \in {"cr", "nl", "dq"} -> st
         [] c = "#" ->
              IF st.stack \in {Start(Temp, 1), Start(TempDb, 2)} THEN push ELSE st
         [] c = "t" ->
              IF st.stack \in {Start(Temp, 2), Start(Temp, 3),
                               Start(TempDb, 3), Start(TempDb, 4)}
              THEN push ELSE out
         [] c = "?" ->
              IF st.stack = List THEN st
              ELSE [out |-> Append(st.out, "P"),
                    stack |-> IF st.stack = Start(List, 5) THEN List ELSE st.stack]
         [] c = "I" -> IF st.stack = Start(List, 1) THEN both ELSE out
         [] c = "N" -> IF st.stack = Start(List, 2) THEN both ELSE out
         [] c = "(" -> IF st.stack = Start(List, 4) THEN both ELSE out
         [] c = ")" -> IF st.stack = List THEN emit(<<",...,P)">>) ELSE out
         [] OTHER ->
              IF st.stack \in Inside THEN st ELSE [out EXCEPT !.stack = <<>>]

\* _Q_ddd_F_: the number of a column of a temporary table becomes 000, unless
\* its last digit is 0.
ReplaceColumnName(s) ==
    LET Close(st) ==
            LET nr == From(st.out, st.open)
            IN IF Len(nr) = 3 /\ ToSet(nr) \subseteq Digits /\ nr[3] # "0"
               THEN Before(st.out, st.open) \o <<"0", "0", "0">> ELSE st.out
        Next(st, c) ==
            IF c = "_Q_" /\ st.open = 0
            THEN [out |-> Append(st.out, c), open |-> Len(st.out) + 2]
            ELSE IF c = "_F_" /\ st.open # 0
            THEN [out |-> Append(Close(st), c), open |-> 0]
            ELSE [st EXCEPT !.out = Append(@, c)]
    IN FoldLeft(Next, [out |-> <<>>, open |-> 0], s).out

SqlHashDbMsSql(text) ==
    LET bare == DeleteXmlTag(DeleteSpExecuteSql(DeleteParam(DeleteLeftParameters(
                    DeleteQuotes(DeleteQuotes(text, "'"), "dq")))))
        index == ChangeCreateClusteredIndex(ReplacingParameters(ReplacingTab(bare)))
    IN ReplaceColumnName(
           FoldLeft(Character, [out |-> index.out, stack |-> <<>>], index.rest).out)
=============================================================================
