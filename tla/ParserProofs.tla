---------------------------- MODULE ParserProofs ----------------------------
(***************************************************************************)
(* Proofs of the safety properties of Parser.  The first part holds what   *)
(* is true whatever the file contains and however it is cut into chunks;   *)
(* its invariant is TypeInv.                                               *)
(*                                                                         *)
(* The second part, from "Induction" on, is about the files ParsedLog      *)
(* describes, any number of records in the format of the server, and       *)
(* proves ExactlyTheCompleteRecords and NeverDies.  Its invariant LogInv   *)
(* describes what is left to be read: the events so far stand for the      *)
(* first records of the log (Stand), and the rest of the text is that of   *)
(* the later records (Between) or ends the record in hand (Within), of     *)
(* which InRecord says, for each of the handlers that can have run last,   *)
(* what it has already collected and what of its text is still to come.    *)
(* A character at a time, the table then does what the format asks for     *)
(* next (Runs, Goes); where the chunks end is of no account, because       *)
(* LogInv speaks of the rest of the file and not of the chunk.             *)
(***************************************************************************)
EXTENDS ParsedLog, SequenceTheorems, WellFoundedInduction, TLAPS

Collectors == {"Minute", "Second", "Msecond", "Duration", "Event", "Level",
               "Key", "Value"}
TextFields == Fields \cup {"key", "value"}

-----------------------------------------------------------------------------
(* The table. *)

(* GetTypeChar answers for every character.                                *)
LEMMA TypeCharType == \A c, s : TypeChar(c, s) \in TypeChars
    BY SMT DEF TypeChar, TypeChars

(* The table answers with a handler or with Error for every character.     *)
LEMMA LookupType ==
    ASSUME NEW f \in Handlers, NEW t \in TypeChars
    PROVE  Lookup(f, t) \in Handlers \cup {"Error"}
<1>1. CASE f \in {"Start", "Minute", "Second"}
    BY <1>1 DEF Lookup, Row, Handlers, TypeChars
<1>2. CASE f \in {"Msecond", "Duration", "Event"}
    BY <1>2 DEF Lookup, Row, Handlers, TypeChars
<1>3. CASE f \in {"Level", "EndValue", "EndEvent"}
    BY <1>3 DEF Lookup, Row, Handlers, TypeChars
<1>4. CASE f = "Key"
    BY <1>4 DEF Lookup, Row, Handlers, TypeChars
<1>5. CASE f = "Value"
    BY <1>5 DEF Lookup, Row, Handlers, TypeChars
<1>6. CASE f = "Mvalue"
    BY <1>6 DEF Lookup, Row, Handlers, TypeChars
<1>7. QED
    BY <1>1, <1>2, <1>3, <1>4, <1>5, <1>6 DEF Handlers

(* Within quotes the automaton stays in Mvalue: commas and new lines have  *)
(* types of their own there.                                               *)
LEMMA QuotesStay ==
    ASSUME NEW c, NEW q, q # <<>>
    PROVE  Lookup("Mvalue", TypeChar(c, q)) = "Mvalue"
<1>1. TypeChar(c, q) \in TypeChars \ {"Comma", "NewLine"}
    BY DEF TypeChar, TypeChars
<1>2. QED
    BY <1>1 DEF Lookup, Row

(* Start follows EndEvent only, on the new line that ends the event.       *)
LEMMA StartFollows ==
    ASSUME NEW f \in Handlers, NEW c, NEW q, Lookup(f, TypeChar(c, q)) = "Start"
    PROVE  f = "EndEvent" /\ c = "nl"
<1> DEFINE t == TypeChar(c, q)
<1>0. t \in TypeChars
    BY TypeCharType
<1>1. f \notin {"Start", "Minute", "Second", "Msecond", "Duration", "Event"}
    BY <1>0 DEF Lookup, Row, TypeChars
<1>2. f \notin {"Level", "Key", "EndValue"}
    BY <1>0 DEF Lookup, Row, TypeChars
<1>3. f \notin {"Value", "Mvalue"}
    BY <1>0 DEF Lookup, Row, TypeChars
<1>4. f = "EndEvent"
    BY <1>1, <1>2, <1>3 DEF Handlers
<1>5. t = "NewLine"
    BY <1>0, <1>4 DEF Lookup, Row, TypeChars
<1>6. c = "nl"
    BY <1>5 DEF TypeChar
<1>7. QED
    BY <1>4, <1>6

(* What follows Start is Minute, what follows EndEvent is Start; or Error. *)
LEMMA RowOfStart ==
    ASSUME NEW t \in TypeChars
    PROVE  /\ Lookup("Start", t) \in {"Minute", "Error"}
           /\ Lookup("EndEvent", t) \in {"Start", "Error"}
    BY DEF Lookup, Row, TypeChars

-----------------------------------------------------------------------------
(* Types and bounds. *)

Collecting == \E f \in Collectors, field \in TextFields : \E s :
                  Collect(f, field, s)

(* The handlers of fields are instances of one operator.                   *)
LEMMA CollectCases ==
    ASSUME Minute \/ Second \/ Msecond \/ Duration \/ Event \/ Level \/ Key
           \/ Value
    PROVE  Collecting
    BY DEF Collecting, Minute, Second, Msecond, Duration, Event, Level, Key,
           Value, Collectors, TextFields, Fields

TypeInv == TypeOK /\ InBounds

(* A character of the chunk is a character of the input.                   *)
LEMMA CurrentChar ==
    ASSUME TypeInv, pc = "parse"
    PROVE  ch \in 1 .. Len(input) /\ ch \in Nat /\ input[ch] \in Char
<1>1. input \in Seq(Char)
    BY InputAssumption DEF TypeInv, TypeOK
<1>2. ch \in 1 .. Len(input)
    BY <1>1 DEF TypeInv, TypeOK, InBounds
<1>3. QED
    BY <1>1, <1>2

(* After a handler that consumed one character or none, the position is    *)
(* still in the chunk, and Parse returns at its end only.                  *)
LEMMA NextHandlerBounds ==
    ASSUME TypeInv, pc = "parse", fn \in Handlers, NextHandler(end),
           input' = input, end' = end, ch' = ch \/ ch' = ch + 1
    PROVE  /\ ch' \in 1 .. Len(input') + 1 /\ end' \in 1 .. Len(input') + 1
           /\ fn' \in Handlers \cup {"Error"}
           /\ pc' \in {"idle", "parse"}
           /\ InBounds'
<1>1. input \in Seq(Char) /\ Len(input) \in Nat
    BY InputAssumption DEF TypeInv, TypeOK
<1>2. ch \in Nat /\ end \in Nat /\ ch < end /\ 1 <= ch /\ end <= Len(input) + 1
    BY <1>1 DEF TypeInv, TypeOK, InBounds
<1>3. ch' <= end' /\ ch' \in 1 .. Len(input') + 1 /\ end' \in 1 .. Len(input') + 1
    BY <1>1, <1>2
<1>4. CASE ch' = end
    BY <1>3, <1>4 DEF NextHandler, InBounds, Handlers
<1>5. CASE ch' # end
    <2> DEFINE t == TypeChar(input[ch'], quotes')
    <2>1. t \in TypeChars
        BY TypeCharType
    <2>2. fn' = Lookup(fn, t) /\ pc' = "parse"
        BY <1>5 DEF NextHandler
    <2>3. fn' \in Handlers \cup {"Error"}
        BY <2>1, <2>2, LookupType
    <2>4. ch' < end'
        BY <1>2, <1>3, <1>5
    <2>5. QED
        BY <1>3, <2>2, <2>3, <2>4 DEF InBounds
<1>6. QED
    BY <1>4, <1>5

(* A new event is well typed.                                              *)
LEMMA NoTextType == NoText \in Text /\ NoIndex \in [Known -> Nat] /\ <<>> \in Values
    BY DEF NoText, NoIndex, Text, Values, Fields

(* Appending to one text of an event leaves it a text.                     *)
LEMMA TextAppend ==
    ASSUME NEW t \in Text, NEW f \in TextFields, NEW c \in Char
    PROVE  [t EXCEPT ![f] = Append(@, c)] \in Text
    BY DEF Text, TextFields

(* What EndValue makes of a value is still a text.                         *)
LEMMA TrimmedType ==
    ASSUME NEW k, NEW v \in Seq(Char)
    PROVE  Trimmed(Unfolded(k, v)) \in Seq(Char)
<1>1. Unfolded(k, v) \in Seq(Char)
    <2>1. CASE k = Context /\ Len(v) >= 3 /\ SubSeq(v, 1, 3) = <<"'", "cr", "nl">>
        <3>1. v[1] \in Char
            BY <2>1
        <3>2. SubSeq(v, 4, Len(v)) \in Seq(Char)
            OBVIOUS
        <3>3. <<v[1]>> \o SubSeq(v, 4, Len(v)) \in Seq(Char)
            BY <3>1, <3>2
        <3>4. QED
            BY <2>1, <3>3 DEF Unfolded
    <2>2. QED
        BY <2>1 DEF Unfolded
<1>2. \A w \in Seq(Char) : Trimmed(w) \in Seq(Char)
    BY DEF Trimmed
<1>3. QED
    BY <1>1, <1>2

(* The initial state is well typed, and within bounds.                     *)
LEMMA InitTypeInv == Init => TypeInv
<1> SUFFICES ASSUME Init PROVE TypeInv
    OBVIOUS
<1>1. input \in Seq(Char)
    BY InputAssumption DEF Init
<1>2. QED
    BY <1>1, NoTextType DEF Init, TypeInv, TypeOK, InBounds, Handlers, BOM

\* The parts of the type invariant that NextHandlerBounds does not give.
RestType ==
    /\ input' \in Inputs
    /\ quotes' \in Seq({"'", "dq"})
    /\ text' \in Text /\ values' \in Values /\ index' \in [Known -> Nat]
    /\ start' \in Nat /\ offset' \in Nat
    /\ events' \in Seq(Parsed) /\ taken' \in Seq(Parsed)

(* A handler that keeps the types and moves by a character at most is      *)
(* followed by a lookup that keeps types and bounds.                       *)
LEMMA HandlerTypes ==
    ASSUME TypeInv, pc = "parse", fn \in Handlers, NextHandler(end),
           input' = input, end' = end, ch' = ch \/ ch' = ch + 1, RestType
    PROVE  TypeInv'
    BY NextHandlerBounds DEF TypeInv, TypeOK, RestType

(* The first lookup of Parse keeps types and bounds.                       *)
LEMMA BeginParseType ==
    ASSUME TypeInv, NEW n \in 1 .. Len(input) - ch + 1, BeginParse(n)
    PROVE  TypeInv'
<1>1. input \in Seq(Char) /\ Len(input) \in Nat
    BY InputAssumption DEF TypeInv, TypeOK
<1>2. /\ ch \in 1 .. Len(input) + 1 /\ fn \in Handlers
      /\ n \in Nat /\ end' = ch + n /\ end' \in 1 .. Len(input) + 1 /\ ch < end'
    BY <1>1 DEF TypeInv, TypeOK, InBounds, BeginParse
<1>3. /\ ch' \in 1 .. Len(input) + 1 /\ ch' <= end'
      /\ offset' \in Nat /\ start' \in Nat
      /\ text' \in Text /\ values' \in Values /\ index' \in [Known -> Nat]
    <2>1. CASE fn = "Start"
        BY <1>1, <1>2, <2>1, NoTextType
        DEF TypeInv, TypeOK, BeginParse, Restarted, Advance
    <2>2. CASE fn # "Start"
        BY <1>1, <1>2, <2>2 DEF TypeInv, TypeOK, BeginParse, eventData
    <2>3. QED
        BY <2>1, <2>2
<1>4. fn' \in Handlers \cup {"Error"} /\ pc' \in {"parse", "overrun"}
      /\ (pc' = "parse" => ch' # end')
    <2>1. TypeChar(input[ch'], quotes) \in TypeChars
        BY TypeCharType
    <2>2. Lookup(fn, TypeChar(input[ch'], quotes)) \in Handlers \cup {"Error"}
        BY <1>2, <2>1, LookupType
    <2>3. QED
        BY <1>2, <2>2 DEF BeginParse
<1>5. ch' # end' => ch' < end'
    BY <1>2, <1>3
<1>6. QED
    BY <1>1, <1>2, <1>3, <1>4, <1>5 DEF TypeInv, TypeOK, InBounds, BeginParse

(* The handler Start keeps types and bounds.                               *)
LEMMA StartType ==
    ASSUME TypeInv, Start
    PROVE  TypeInv'
<1>1. ch \in Nat /\ offset \in Nat
    BY CurrentChar DEF Start, Handler, TypeInv, TypeOK
<1>2. RestType /\ (ch' = ch \/ ch' = ch + 1)
    BY <1>1, NoTextType
    DEF Start, Restarted, Advance, RestType, TypeInv, TypeOK
<1>3. QED
    BY <1>2, HandlerTypes DEF Start, Handler, Handlers

(* The handlers that collect a field keep types and bounds.                *)
LEMMA CollectType ==
    ASSUME TypeInv, Collecting
    PROVE  TypeInv'
<1>1. PICK f \in Collectors, field \in TextFields : \E s : Collect(f, field, s)
    BY DEF Collecting
<1>2. pc = "parse" /\ fn = f /\ fn \in Handlers
    BY <1>1 DEF Collect, Handler, Collectors, Handlers
<1>0. offset \in Nat
    BY DEF TypeInv, TypeOK
<1>3. ch \in Nat /\ input[ch] \in Char
    BY <1>2, CurrentChar
<1>4. text' \in Text
    BY <1>1, <1>3, TextAppend, ZenonT(40) DEF Collect, TypeInv, TypeOK
<1>5. /\ ch' = ch + 1
      /\ UNCHANGED <<input, quotes, values, index, start, events, taken>>
    BY <1>1 DEF Collect, Advance
<1>6. RestType
    <2>1. offset' \in Nat
        BY <1>0, <1>1 DEF Collect, Advance
    <2>2. QED
        BY <1>4, <1>5, <2>1, Zenon DEF RestType, TypeInv, TypeOK
<1>7. QED
    BY <1>1, <1>2, <1>5, <1>6, HandlerTypes DEF Collect

(* EndValue keeps types and bounds, although it consumes nothing.          *)
LEMMA EndValueType ==
    ASSUME TypeInv, EndValue
    PROVE  TypeInv'
<1> DEFINE k == text["key"]
           v == Trimmed(Unfolded(k, text["value"]))
<1>1. k \in Seq(Char) /\ text["value"] \in Seq(Char)
    BY DEF TypeInv, TypeOK, Text
<1>2. v \in Seq(Char)
    BY <1>1, TrimmedType
<1>3. values' \in Values
    <2>1. <<k, v>> \in Seq(Char) \X Seq(Char)
        BY <1>1, <1>2
    <2>2. values' = Append(values, <<k, v>>)
        BY DEF EndValue
    <2> HIDE DEF k, v
    <2>3. QED
        BY <2>1, <2>2 DEF TypeInv, TypeOK, Values
<1>4. index' \in [Known -> Nat]
    <2>1. Len(values) + 1 \in Nat
        BY DEF TypeInv, TypeOK, Values
    <2>2. index' = [n \in Known |-> IF n = k THEN Len(values) + 1 ELSE index[n]]
        BY DEF EndValue
    <2> HIDE DEF k
    <2>3. QED
        BY <2>1, <2>2 DEF TypeInv, TypeOK
<1>5. text' \in Text
    <2>1. <<>> \in Seq(Char)
        OBVIOUS
    <2>2. \A t \in Text : [t EXCEPT !["key"] = <<>>, !["value"] = <<>>] \in Text
        BY <2>1 DEF Text
    <2>3. QED
        BY <2>2 DEF EndValue, TypeInv, TypeOK
<1>6. RestType
    BY <1>3, <1>4, <1>5 DEF EndValue, RestType, TypeInv, TypeOK
<1>7. QED
    BY <1>6, HandlerTypes DEF EndValue, Handler, Handlers

(* EndEvent keeps types and bounds, although it consumes nothing.          *)
LEMMA EndEventType ==
    ASSUME TypeInv, EndEvent
    PROVE  TypeInv'
<1> DEFINE e == [text |-> text, values |-> values, index |-> index,
                 start |-> start, stop |-> offset]
<1>1. e \in Parsed
    BY DEF TypeInv, TypeOK, Parsed
<1>2. events' = Append(events, e)
    BY DEF EndEvent
<1> HIDE DEF e
<1>3. events' \in Seq(Parsed)
    BY <1>1, <1>2 DEF TypeInv, TypeOK
<1>4. RestType
    BY <1>3 DEF EndEvent, RestType, TypeInv, TypeOK, eventData
<1>5. QED
    BY <1>4, HandlerTypes DEF EndEvent, Handler, Handlers

(* Mvalue keeps types and bounds; the stack holds quotes only.             *)
LEMMA MvalueType ==
    ASSUME TypeInv, Mvalue
    PROVE  TypeInv'
<1>1. ch \in Nat /\ offset \in Nat /\ input[ch] \in Char
    BY CurrentChar DEF Mvalue, Handler, TypeInv, TypeOK
<1>2. text' \in Text
    BY <1>1, TextAppend DEF Mvalue, TypeInv, TypeOK, TextFields
<1>3. quotes' \in Seq({"'", "dq"})
    <2> DEFINE c == input[ch]
    <2>1. quotes \in Seq({"'", "dq"})
        BY DEF TypeInv, TypeOK
    <2>2. SubSeq(quotes, 1, Len(quotes) - 1) \in Seq({"'", "dq"})
        BY <2>1
    <2>3. c \in {"'", "dq"} => <<c>> \in Seq({"'", "dq"})
        OBVIOUS
    <2>4. QED
        BY <2>1, <2>2, <2>3 DEF Mvalue
<1>4. RestType /\ ch' = ch + 1
    BY <1>1, <1>2, <1>3 DEF Mvalue, Advance, RestType, TypeInv, TypeOK
<1>5. QED
    BY <1>4, HandlerTypes DEF Mvalue, Handler, Handlers

(* Every step keeps types and bounds.                                      *)
LEMMA NextTypeInv == TypeInv /\ [Next]_vars => TypeInv'
<1> SUFFICES ASSUME TypeInv, [Next]_vars PROVE TypeInv'
    OBVIOUS
<1>1. ASSUME Error PROVE TypeInv'
    BY <1>1 DEF Error, TypeInv, TypeOK, InBounds, eventData
<1>2. ASSUME MoveEvents PROVE TypeInv'
    BY <1>2 DEF MoveEvents, TypeInv, TypeOK, InBounds, eventData
<1>3. ASSUME UNCHANGED vars PROVE TypeInv'
    BY <1>3 DEF vars, TypeInv, TypeOK, InBounds, eventData
<1>4. QED
    BY <1>1, <1>2, <1>3, BeginParseType, StartType, CollectCases, CollectType,
       EndValueType, EndEventType, MvalueType DEF Next, Handle

(* The parser is well typed, whatever the file contains.                   *)
THEOREM TypeCorrect == Spec => []TypeOK
<1>1. TypeInv => TypeOK
    BY DEF TypeInv
<1>2. QED
    BY <1>1, InitTypeInv, NextTypeInv, PTL DEF Spec

(* Parse stays within its chunk and within its table, whatever the file    *)
(* contains.                                                               *)
THEOREM InBoundsHolds == Spec => []InBounds
<1>1. TypeInv => InBounds
    BY DEF TypeInv
<1>2. QED
    BY <1>1, InitTypeInv, NextTypeInv, PTL DEF Spec

-----------------------------------------------------------------------------
(* Quotes. *)

(* Every step keeps the quotes to one, within a quoted value.              *)
LEMMA QuoteStep == TypeInv /\ QuoteDiscipline /\ [Next]_vars => QuoteDiscipline'
<1> SUFFICES ASSUME TypeInv, QuoteDiscipline, [Next]_vars
             PROVE  QuoteDiscipline'
    OBVIOUS
<1>0. quotes \in Seq({"'", "dq"})
    BY DEF TypeInv, TypeOK
<1>1. ASSUME NEW n \in 1 .. Len(input) - ch + 1, BeginParse(n)
      PROVE  QuoteDiscipline'
    BY <1>1, QuotesStay DEF BeginParse, QuoteDiscipline
<1>2. ASSUME quotes' = quotes, NextHandler(end) PROVE QuoteDiscipline'
    BY <1>2, QuotesStay DEF NextHandler, QuoteDiscipline
<1>3. ASSUME Mvalue PROVE QuoteDiscipline'
    <2>1. Len(quotes') <= 1
        BY <1>0, <1>3 DEF Mvalue, QuoteDiscipline
    <2>2. quotes' # <<>> => fn' = "Mvalue"
        BY <1>3, QuotesStay DEF Mvalue, Handler, NextHandler
    <2>3. QED
        BY <2>1, <2>2 DEF QuoteDiscipline
<1>4. ASSUME Error \/ MoveEvents \/ UNCHANGED vars PROVE QuoteDiscipline'
    BY <1>4 DEF Error, MoveEvents, vars, QuoteDiscipline
<1>5. Collecting => quotes' = quotes /\ NextHandler(end)
    BY DEF Collecting, Collect
<1>6. Start \/ EndValue \/ EndEvent => quotes' = quotes /\ NextHandler(end)
    BY DEF Start, EndValue, EndEvent
<1>7. QED
    BY <1>1, <1>2, <1>3, <1>4, <1>5, <1>6, CollectCases DEF Next, Handle

(* The quotes stack never grows beyond one quote, and is empty outside of  *)
(* a quoted value, whatever the file contains.                             *)
THEOREM QuoteDisciplineHolds == Spec => []QuoteDiscipline
<1>1. Init => QuoteDiscipline
    BY DEF Init, QuoteDiscipline
<1>2. QED
    BY <1>1, InitTypeInv, NextTypeInv, QuoteStep, PTL DEF Spec

-----------------------------------------------------------------------------
(* Offsets. *)

Seen == taken \o events

Order(all, limit) ==
    \A i \in DOMAIN all : /\ all[i].start < all[i].stop
                          /\ all[i].stop <= limit
                          /\ i > 1 => all[i - 1].stop < all[i].start

Before(all, limit) == \A i \in DOMAIN all : all[i].stop < limit

Going == pc \in {"idle", "parse"} /\ fn # "Error"

\* What makes the order of the events inductive: the event under way begins
\* after the last one ended, except between EndEvent and Start, and has
\* length, except at its first digit.
OrderInv ==
    /\ offset = BOM + ch - 1
    /\ Order(Seen, offset)
    /\ start <= offset
    /\ Going /\ fn # "Start" /\ (fn = "Minute" => pc = "idle") => start < offset
    /\ pc = "parse" /\ fn = "Start" => input[ch] = "nl"
    /\ Going /\ (fn = "Start" => pc = "idle") => Before(Seen, start)

(* Events that end at or before an offset end at or before a later one.    *)
LEMMA OrderMonotone ==
    ASSUME NEW all \in Seq(Parsed), NEW l \in Nat, NEW m \in Nat, l <= m
    PROVE  /\ Order(all, l) => Order(all, m)
           /\ Before(all, l) => Before(all, m)
           /\ Order(all, l) /\ l < m => Before(all, m)
<1>1. \A i \in DOMAIN all : all[i].start \in Nat /\ all[i].stop \in Nat
    <2>1. \A e \in Parsed : e.start \in Nat /\ e.stop \in Nat
        BY DEF Parsed
    <2>2. \A i \in DOMAIN all : all[i] \in Parsed
        OBVIOUS
    <2>3. QED
        BY <2>1, <2>2
<1>2. QED
    BY <1>1 DEF Order, Before

(* An event that begins after those before it, and ends by now, keeps the  *)
(* order.                                                                  *)
LEMMA OrderAppend ==
    ASSUME NEW all \in Seq(Parsed), NEW e \in Parsed, NEW l \in Nat,
           Order(all, l), Before(all, e.start), e.start < e.stop, e.stop <= l
    PROVE  Order(Append(all, e), l)
<1> DEFINE b == Append(all, e)
<1>1. /\ DOMAIN all = 1 .. Len(all) /\ Len(all) \in Nat
      /\ DOMAIN b = 1 .. Len(all) + 1
      /\ \A i \in 1 .. Len(all) : b[i] = all[i]
      /\ b[Len(all) + 1] = e
    OBVIOUS
<1> HIDE DEF b
<1>2. SUFFICES ASSUME NEW i \in 1 .. Len(all) + 1
               PROVE  /\ b[i].start < b[i].stop
                      /\ b[i].stop <= l
                      /\ i > 1 => b[i - 1].stop < b[i].start
    BY <1>1 DEF Order, b
<1>3. CASE i \in 1 .. Len(all)
    BY <1>1, <1>3 DEF Order
<1>4. CASE i = Len(all) + 1
    BY <1>1, <1>4 DEF Before
<1>5. QED
    BY <1>1, <1>3, <1>4

(* Appending to the events held appends to the sequence of all events.     *)
LEMMA ConcatFacts ==
    ASSUME NEW s \in Seq(Parsed), NEW t \in Seq(Parsed), NEW e \in Parsed
    PROVE  /\ s \o t \in Seq(Parsed)
           /\ s \o Append(t, e) = Append(s \o t, e)
           /\ (s \o t) \o <<>> = s \o t
<1>1. s \o t \in Seq(Parsed) /\ (s \o t) \o <<>> = s \o t
    OBVIOUS
<1>2. s \o Append(t, e) = Append(s \o t, e)
    <2> DEFINE p == s \o Append(t, e)
               q == Append(s \o t, e)
    <2>1. p \in Seq(Parsed) /\ q \in Seq(Parsed) /\ Len(p) = Len(q)
        OBVIOUS
    <2>2. \A i \in 1 .. Len(p) : p[i] = q[i]
        OBVIOUS
    <2> HIDE DEF p, q
    <2>3. p = q
        BY <2>1, <2>2, SeqEqual
    <2>4. QED
        BY <2>3 DEF p, q
<1>3. QED
    BY <1>1, <1>2

(* Positions and offsets are numbers, and all events together a sequence.  *)
LEMMA OrderTypes ==
    ASSUME TypeInv, OrderInv
    PROVE  /\ ch \in Nat /\ offset \in Nat /\ start \in Nat
           /\ offset = BOM + ch - 1 /\ BOM = 3
           /\ Seen \in Seq(Parsed)
    BY CurrentChar DEF TypeInv, TypeOK, OrderInv, Seen, BOM

\* A handler within an event: it consumes a character or, as EndValue, none.
LEMMA WithinEvent ==
    ASSUME TypeInv, OrderInv, pc = "parse", NextHandler(end),
           fn \in Handlers \ {"Start", "EndEvent"},
           UNCHANGED <<input, end, start, events, taken>>,
           \/ ch' = ch + 1 /\ offset' = offset + 1
           \/ fn # "Minute" /\ ch' = ch /\ offset' = offset
    PROVE  OrderInv'
<1>1. /\ ch \in Nat /\ offset \in Nat /\ start \in Nat /\ Seen \in Seq(Parsed)
      /\ offset = BOM + ch - 1 /\ BOM = 3
    BY OrderTypes
<1>2. Seen' = Seen /\ start' = start
    BY DEF Seen
<1>3. offset' = BOM + ch' - 1 /\ offset' \in Nat /\ offset <= offset'
    BY <1>1
<1>4. start' < offset'
    BY <1>1, <1>2 DEF OrderInv, Going, Handlers
<1>5. Order(Seen', offset') /\ Before(Seen', start')
    BY <1>1, <1>2, <1>3, OrderMonotone DEF OrderInv, Going, Handlers
<1>6. ~(pc' = "parse" /\ fn' = "Start")
    BY StartFollows DEF NextHandler
<1>7. QED
    BY <1>1, <1>3, <1>4, <1>5, <1>6 DEF OrderInv

(* Start begins the next event after the last.                             *)
LEMMA StartOrder ==
    ASSUME TypeInv, OrderInv, Start
    PROVE  OrderInv'
<1>1. /\ ch \in Nat /\ offset \in Nat /\ start \in Nat /\ Seen \in Seq(Parsed)
      /\ offset = BOM + ch - 1 /\ BOM = 3
    BY OrderTypes
<1>2. input[ch] = "nl"
    BY DEF Start, Handler, OrderInv
<1>3. ch' = ch + 1 /\ offset' = offset + 1 /\ start' = offset' /\ Seen' = Seen
    BY <1>2 DEF Start, Restarted, Advance, Seen
<1>4. Order(Seen', offset') /\ Before(Seen', start')
    BY <1>1, <1>3, OrderMonotone DEF OrderInv
<1>5. \/ pc' = "idle" /\ fn' = "Start"
      \/ pc' = "parse" /\ fn' \in {"Minute", "Error"}
    <2> DEFINE t == TypeChar(input[ch'], quotes')
    <2>1. t \in TypeChars
        BY TypeCharType
    <2>2. \/ pc' = "idle" /\ fn' = "Start"
          \/ pc' = "parse" /\ fn' = Lookup("Start", t)
        <3>1. fn = "Start" /\ NextHandler(end)
            BY DEF Start, Handler
        <3>2. QED
            BY <3>1, Zenon DEF NextHandler
    <2>3. QED
        BY <2>1, <2>2, RowOfStart
<1>6. QED
    BY <1>1, <1>3, <1>4, <1>5 DEF OrderInv, Going

(* EndEvent adds an event that is not empty and begins after the last.     *)
LEMMA EndEventOrder ==
    ASSUME TypeInv, OrderInv, EndEvent
    PROVE  OrderInv'
<1> DEFINE e == [text |-> text, values |-> values, index |-> index,
                 start |-> start, stop |-> offset]
<1>1. /\ ch \in Nat /\ offset \in Nat /\ start \in Nat /\ Seen \in Seq(Parsed)
      /\ offset = BOM + ch - 1 /\ BOM = 3
    BY OrderTypes
<1>2. e \in Parsed /\ e.start = start /\ e.stop = offset
    BY DEF TypeInv, TypeOK, Parsed
<1>3. events' = Append(events, e) /\ taken' = taken /\ ch' = ch /\ start' = start
      /\ offset' = offset /\ pc = "parse" /\ fn = "EndEvent" /\ input' = input
    BY DEF EndEvent, Handler, eventData
<1> HIDE DEF e
<1>4. Seen' = Append(Seen, e)
    BY <1>2, <1>3, ConcatFacts DEF Seen, TypeInv, TypeOK
<1>5. start < offset /\ Before(Seen, start) /\ Order(Seen, offset)
    BY <1>3 DEF OrderInv, Going
<1>6. Order(Seen', offset')
    BY <1>1, <1>2, <1>3, <1>4, <1>5, OrderAppend
<1>7. ch' # end
    BY <1>1, <1>3 DEF TypeInv, TypeOK, InBounds
<1>8. pc' = "parse" /\ fn' = Lookup("EndEvent", TypeChar(input[ch'], quotes'))
    BY <1>3, <1>7 DEF EndEvent, NextHandler
<1>9. fn' \in {"Start", "Error"} /\ (fn' = "Start" => input'[ch'] = "nl")
    BY <1>3, <1>8, RowOfStart, TypeCharType, StartFollows DEF Handlers
<1>10. QED
    BY <1>1, <1>3, <1>5, <1>6, <1>8, <1>9 DEF OrderInv, Going

(* Parse, when it calls Start, begins the next event after the last.       *)
LEMMA BeginParseOrder ==
    ASSUME TypeInv, OrderInv, NEW n \in 1 .. Len(input) - ch + 1, BeginParse(n)
    PROVE  OrderInv'
<1>1. /\ ch \in Nat /\ offset \in Nat /\ start \in Nat /\ Seen \in Seq(Parsed)
      /\ offset = BOM + ch - 1 /\ BOM = 3
    BY OrderTypes
<1>2. Seen' = Seen /\ input' = input /\ pc = "idle" /\ fn \in Handlers
    BY DEF BeginParse, Seen, TypeInv, TypeOK, InBounds
<1>3. start <= offset /\ Before(Seen, start) /\ Order(Seen, offset)
    BY <1>2 DEF OrderInv, Going, Handlers
<1>4. \/ pc' = "overrun"
      \/ pc' = "parse" /\ fn' = Lookup(fn, TypeChar(input[ch'], quotes))
    <2>1. CASE ch' = end'
        BY <2>1 DEF BeginParse
    <2>2. CASE ch' # end'
        BY <2>2 DEF BeginParse
    <2>3. QED
        BY <2>1, <2>2
<1>5. CASE fn = "Start"
    <2>1. /\ start' = offset' /\ offset' = BOM + ch' - 1
          /\ offset' \in Nat /\ offset <= offset'
        BY <1>1, <1>5 DEF BeginParse, Restarted, Advance
    <2>2. Order(Seen', offset') /\ Before(Seen', start')
        BY <1>1, <1>2, <1>3, <2>1, OrderMonotone
    <2>3. \/ pc' = "overrun"
          \/ pc' = "parse" /\ fn' \in {"Minute", "Error"}
        BY <1>4, <1>5, RowOfStart, TypeCharType
    <2>4. QED
        BY <2>1, <2>2, <2>3 DEF OrderInv, Going
<1>6. CASE fn # "Start"
    <2>1. ch' = ch /\ offset' = offset /\ start' = start
        BY <1>6 DEF BeginParse, eventData
    <2>2. start < offset
        BY <1>2, <1>6 DEF OrderInv, Going, Handlers
    <2>3. pc' = "parse" /\ fn' = "Start" => input'[ch'] = "nl"
        BY <1>2, <1>4, StartFollows
    <2>4. QED
        BY <1>1, <1>2, <1>3, <2>1, <2>2, <2>3 DEF OrderInv
<1>7. QED
    BY <1>5, <1>6

(* Every step keeps the events in order, and the offset at its place.      *)
LEMMA OrderStep == TypeInv /\ OrderInv /\ [Next]_vars => OrderInv'
<1> SUFFICES ASSUME TypeInv, OrderInv, [Next]_vars PROVE OrderInv'
    OBVIOUS
<1>1. ASSUME Collecting PROVE OrderInv'
    BY <1>1, WithinEvent
    DEF Collecting, Collect, Collectors, Handlers, Handler, Advance
<1>2. ASSUME Mvalue PROVE OrderInv'
    BY <1>2, WithinEvent DEF Mvalue, Handlers, Handler, Advance
<1>3. ASSUME EndValue PROVE OrderInv'
    BY <1>3, WithinEvent DEF EndValue, Handlers, Handler
<1>4. ASSUME Error PROVE OrderInv'
    BY <1>4 DEF Error, Handler, OrderInv, Seen, Going, eventData
<1>5. ASSUME MoveEvents PROVE OrderInv'
    <2>1. Seen' = Seen
        BY <1>5, ConcatFacts DEF MoveEvents, Seen, TypeInv, TypeOK
    <2>2. QED
        BY <1>5, <2>1 DEF MoveEvents, OrderInv, Going, eventData
<1>6. ASSUME UNCHANGED vars PROVE OrderInv'
    BY <1>6 DEF vars, OrderInv, Seen, Going, eventData
<1>7. QED
    BY <1>1, <1>2, <1>3, <1>4, <1>5, <1>6, CollectCases, StartOrder,
       EndEventOrder, BeginParseOrder DEF Next, Handle

(* offset_ is the place in the file and the events cover ranges of it in   *)
(* order, whatever the file contains and however it is cut into chunks.    *)
THEOREM OffsetsInOrderHolds == Spec => []OffsetsInOrder
<1>1. Init => OrderInv
    BY DEF Init, OrderInv, Order, Before, Seen, Going, BOM
<1>2. OrderInv => OffsetsInOrder
    BY DEF OrderInv, Order, OffsetsInOrder, Seen
<1>3. QED
    BY <1>1, <1>2, InitTypeInv, NextTypeInv, OrderStep, PTL DEF Spec

-----------------------------------------------------------------------------
(* The index of keys. *)

\* The places of a key among the values of an event.
Places(vals, k) == {j \in DOMAIN vals : vals[j][1] = k}

\* The entry of every known key is its last place, or 0 if it has none.
Agree(vals, idx) ==
    \A k \in Known :
       /\ Places(vals, k) = {} => idx[k] = 0
       /\ Places(vals, k) # {} => /\ idx[k] \in Places(vals, k)
                                  /\ \A j \in Places(vals, k) : j <= idx[k]

AllAgree(all) == \A i \in DOMAIN all : Agree(all[i].values, all[i].index)

\* IndexSound says nothing of the event under way, from which the next comes.
IndexInv == Agree(values, index) /\ AllAgree(Seen)

(* An event without values agrees with the index Start gives it.           *)
LEMMA AgreeEmpty == Agree(<<>>, NoIndex)
<1>1. \A k : Places(<<>>, k) = {}
    BY DEF Places
<1>2. QED
    BY <1>1 DEF Agree, NoIndex

(* A value at the end of the list is the last of its key, and moves no     *)
(* other.                                                                  *)
LEMMA AgreeAppend ==
    ASSUME NEW vals \in Values, NEW idx \in [Known -> Nat], Agree(vals, idx),
           NEW key, NEW v, <<key, v>> \in Seq(Char) \X Seq(Char)
    PROVE  Agree(Append(vals, <<key, v>>),
                 [n \in Known |-> IF n = key THEN Len(vals) + 1 ELSE idx[n]])
<1> DEFINE b == Append(vals, <<key, v>>)
           new == [n \in Known |-> IF n = key THEN Len(vals) + 1 ELSE idx[n]]
<1>1. /\ DOMAIN vals = 1 .. Len(vals) /\ Len(vals) \in Nat
      /\ DOMAIN b = 1 .. Len(vals) + 1
      /\ \A j \in 1 .. Len(vals) : b[j] = vals[j]
      /\ b[Len(vals) + 1] = <<key, v>>
    BY DEF Values
<1>2. b[Len(vals) + 1][1] = key
    BY <1>1
<1> HIDE DEF b
<1>3. \A k : k # key => Places(b, k) = Places(vals, k)
    BY <1>1, <1>2 DEF Places
<1>4. Len(vals) + 1 \in Places(b, key) /\ \A j \in Places(b, key) : j <= Len(vals) + 1
    BY <1>1, <1>2 DEF Places
<1>5. ASSUME NEW k \in Known
      PROVE  /\ Places(b, k) = {} => new[k] = 0
             /\ Places(b, k) # {} => /\ new[k] \in Places(b, k)
                                     /\ \A j \in Places(b, k) : j <= new[k]
    <2>1. CASE k = key
        BY <1>4, <2>1
    <2>2. CASE k # key
        <3>1. new[k] = idx[k] /\ Places(b, k) = Places(vals, k)
            BY <1>3, <2>2
        <3>2. QED
            BY <3>1 DEF Agree
    <2>3. QED
        BY <2>1, <2>2
<1>6. Agree(b, new)
    BY <1>5 DEF Agree
<1>7. QED
    BY <1>6 DEF b

(* EndValue enters the value it appends.                                   *)
LEMMA EndValueIndex ==
    ASSUME TypeInv, IndexInv, EndValue
    PROVE  IndexInv'
<1> DEFINE k == text["key"]
           v == Trimmed(Unfolded(k, text["value"]))
<1>1. <<k, v>> \in Seq(Char) \X Seq(Char)
    BY TrimmedType DEF TypeInv, TypeOK, Text
<1>2. /\ values' = Append(values, <<k, v>>)
      /\ index' = [n \in Known |-> IF n = k THEN Len(values) + 1 ELSE index[n]]
    BY DEF EndValue
<1>3. values \in Values /\ index \in [Known -> Nat] /\ Agree(values, index)
    BY DEF TypeInv, TypeOK, IndexInv
<1>4. Seen' = Seen
    BY DEF EndValue, Seen
<1> HIDE DEF k, v
<1>5. Agree(values', index')
    BY <1>1, <1>2, <1>3, AgreeAppend
<1>6. QED
    BY <1>4, <1>5 DEF IndexInv

(* EndEvent hands over an event whose index agrees.                        *)
LEMMA EndEventIndex ==
    ASSUME TypeInv, IndexInv, EndEvent
    PROVE  IndexInv'
<1> DEFINE e == [text |-> text, values |-> values, index |-> index,
                 start |-> start, stop |-> offset]
<1>1. e \in Parsed /\ e.values = values /\ e.index = index
    BY DEF TypeInv, TypeOK, Parsed
<1>2. /\ events' = Append(events, e) /\ taken' = taken
      /\ values' = values /\ index' = index
    BY DEF EndEvent, eventData
<1> HIDE DEF e
<1>3. Seen' = Append(Seen, e) /\ Seen \in Seq(Parsed)
    BY <1>1, <1>2, ConcatFacts DEF Seen, TypeInv, TypeOK
<1>4. ASSUME NEW i \in DOMAIN Append(Seen, e)
      PROVE  Append(Seen, e)[i] = e \/ (i \in DOMAIN Seen /\ Append(Seen, e)[i] = Seen[i])
    BY <1>3, <1>4
<1>5. AllAgree(Seen')
    BY <1>1, <1>3, <1>4, Zenon DEF AllAgree, IndexInv
<1>6. QED
    BY <1>2, <1>5 DEF IndexInv

(* Every step keeps the index in agreement with the values.                *)
LEMMA IndexStep == TypeInv /\ IndexInv /\ [Next]_vars => IndexInv'
<1> SUFFICES ASSUME TypeInv, IndexInv, [Next]_vars PROVE IndexInv'
    OBVIOUS
<1>1. ASSUME UNCHANGED <<values, index, events, taken>> PROVE IndexInv'
    BY <1>1 DEF IndexInv, Seen
<1>2. ASSUME values' = <<>>, index' = NoIndex, UNCHANGED <<events, taken>>
      PROVE  IndexInv'
    BY <1>2, AgreeEmpty DEF IndexInv, Seen
<1>3. ASSUME NEW n \in 1 .. Len(input) - ch + 1, BeginParse(n)
      PROVE  IndexInv'
    BY <1>1, <1>2, <1>3 DEF BeginParse, Restarted, eventData
<1>4. ASSUME Start PROVE IndexInv'
    BY <1>2, <1>4 DEF Start, Restarted
<1>5. ASSUME Collecting \/ Mvalue \/ Error \/ UNCHANGED vars PROVE IndexInv'
    BY <1>1, <1>5 DEF Collecting, Collect, Mvalue, Error, vars, eventData
<1>6. ASSUME MoveEvents PROVE IndexInv'
    <2>1. Seen' = Seen
        BY <1>6, ConcatFacts DEF MoveEvents, Seen, TypeInv, TypeOK
    <2>2. QED
        BY <1>6, <2>1 DEF MoveEvents, IndexInv, eventData
<1>7. QED
    BY <1>3, <1>4, <1>5, <1>6, CollectCases, EndValueIndex, EndEventIndex
    DEF Next, Handle

(* The index of every event finished agrees with its values, whatever keys *)
(* the file repeats: GetProperty answers with the last value of the key.   *)
THEOREM IndexSoundHolds == Spec => []IndexSound
<1>1. Init => IndexInv
    BY AgreeEmpty DEF Init, IndexInv, AllAgree, Seen
<1>2. IndexInv => IndexSound
    BY DEF IndexInv, AllAgree, Agree, Places, IndexSound, Seen
<1>3. QED
    BY <1>1, <1>2, InitTypeInv, NextTypeInv, IndexStep, PTL DEF Spec

-----------------------------------------------------------------------------
(* Induction over the numbers, and sequences of sequences.  The induction  *)
(* theorems of the library take an operator; stated for a set of numbers,  *)
(* induction is a consequence of the numbers being well-founded, and a     *)
(* proof makes its case a set: {n \in Nat : P(n)} contains every number.   *)

(* The order of the natural numbers has no infinite descent.               *)
LEMMA NatWF == IsWellFoundedOn({p \in Nat \X Nat : p[1] < p[2]}, Nat)
    BY NatLessThanWellFounded DEF OpToRel

(* Induction: a set with 0 that is closed under successors has all         *)
(* numbers.                                                                *)
LEMMA NatSetInduction ==
    ASSUME NEW S, 0 \in S, \A n \in Nat : n \in S => n + 1 \in S
    PROVE  Nat \subseteq S
<1> DEFINE R == {p \in Nat \X Nat : p[1] < p[2]}
           T == Nat \ S
<1>1. \A x, y \in Nat : <<x, y>> \in R <=> x < y
    OBVIOUS
<1>2. ASSUME T # {} PROVE FALSE
    <2>1. IsWellFoundedOn(R, Nat)
        BY NatWF
    <2>2. T \subseteq Nat
        OBVIOUS
    <2>h. HIDE DEF R, T
    <2>3. PICK x \in T : \A y \in T : ~ (<<y, x>> \in R)
        BY <1>2, <2>1, <2>2, WFMin, Zenon
    <2>4. x \in Nat /\ x \notin S /\ \A y \in Nat : y \notin S => ~(y < x)
        BY <1>1, <2>2, <2>3 DEF T
    <2>5. x - 1 \in Nat /\ x - 1 < x /\ x = (x - 1) + 1
        BY <2>4
    <2>. QED
        BY <2>4, <2>5
<1> QED
    BY <1>2

Joins(s, n, g) == \A i \in 1 .. n : g[i] = IF i = 1 THEN s[i] ELSE g[i - 1] \o s[i]

(* There is a sequence of the partial results of joining s[1], s[2], ...   *)
LEMMA JoinsExists ==
    ASSUME NEW s, NEW n \in Nat
    PROVE  \E g : Joins(s, n, g)
<1> DEFINE S == {m \in Nat : \E g : Joins(s, m, g)}
<1>1. 0 \in S
    BY DEF Joins
<1>2. ASSUME NEW m \in Nat, m \in S PROVE m + 1 \in S
    <2>1. PICK g : Joins(s, m, g)
        BY <1>2
    <2> DEFINE last == IF m = 0 THEN s[1] ELSE g[m] \o s[m + 1]
               h == [i \in 1 .. m + 1 |-> IF i <= m THEN g[i] ELSE last]
    <2>2. ASSUME NEW i \in 1 .. m + 1
          PROVE  h[i] = IF i = 1 THEN s[i] ELSE h[i - 1] \o s[i]
        <3>1. CASE i <= m
            BY <2>1, <3>1 DEF Joins
        <3>2. CASE i = m + 1
            BY <2>1, <3>2 DEF Joins
        <3> QED
            BY <3>1, <3>2
    <2>h. HIDE DEF h
    <2>3. Joins(s, m + 1, h)
        BY <2>2, Zenon DEF Joins
    <2> QED
        BY <2>3
<1> QED
    BY <1>1, <1>2, NatSetInduction

(* FlattenSeq answers with the last of the partial results.                *)
LEMMA FlattenUnfold ==
    ASSUME NEW s, Len(s) \in Nat
    PROVE  \E g : /\ Joins(s, Len(s), g)
                  /\ FlattenSeq(s) = IF Len(s) = 0 THEN s ELSE g[Len(s)]
<1> DEFINE n == Len(s)
           Is(f) == f = [i \in 1 .. n |-> IF i = 1 THEN s[i] ELSE f[i - 1] \o s[i]]
           h == CHOOSE f : Is(f)
<1>1. PICK g : Joins(s, n, g)
    BY JoinsExists
<1> DEFINE k == [i \in 1 .. n |-> g[i]]
           e == [i \in 1 .. n |-> IF i = 1 THEN s[i] ELSE k[i - 1] \o s[i]]
<1>2. ASSUME NEW i \in 1 .. n PROVE k[i] = e[i]
    BY <1>1 DEF Joins
<1>3. k = e
    BY <1>2
<1>4. Is(k)
    BY <1>3
<1>5. Is(h)
    BY <1>4, Zenon
<1>6. FlattenSeq(s) = IF n = 0 THEN s ELSE h[n]
    BY Zenon DEF FlattenSeq
<1>h. HIDE DEF h
<1>7. Joins(s, n, h)
    BY <1>5 DEF Joins
<1> QED
    BY <1>6, <1>7

(* Nothing to join gives nothing.                                          *)
LEMMA FlattenEmpty == FlattenSeq(<<>>) = <<>>
    BY FlattenUnfold

(* Sequences that are equal have equal partial results.                    *)
LEMMA JoinsUnique ==
    ASSUME NEW s, NEW t, NEW m \in Nat, \A i \in 1 .. m : s[i] = t[i],
           NEW g, NEW h, Joins(s, m, g), Joins(t, m, h)
    PROVE  \A i \in 1 .. m : g[i] = h[i]
<1> DEFINE S == {k \in Nat : k \in 1 .. m => g[k] = h[k]}
<1>1. /\ \A i \in 1 .. m : g[i] = IF i = 1 THEN s[i] ELSE g[i - 1] \o s[i]
      /\ \A i \in 1 .. m : h[i] = IF i = 1 THEN t[i] ELSE h[i - 1] \o t[i]
    BY DEF Joins
<1>2. 0 \in S
    OBVIOUS
<1>3. ASSUME NEW k \in Nat, k \in S PROVE k + 1 \in S
    <2> SUFFICES ASSUME k + 1 \in 1 .. m PROVE g[k + 1] = h[k + 1]
        OBVIOUS
    <2>1. CASE k = 0
        BY <1>1, <2>1
    <2>2. CASE k # 0
        BY <1>1, <1>3, <2>2
    <2> QED
        BY <2>1, <2>2
<1>4. Nat \subseteq S
    BY <1>2, <1>3, NatSetInduction
<1> QED
    BY <1>4

(* The last sequence is joined last.                                       *)
LEMMA FlattenLast ==
    ASSUME NEW s, NEW t, Len(s) \in Nat, Len(t) = Len(s) + 1,
           \A i \in 1 .. Len(s) : s[i] = t[i]
    PROVE  FlattenSeq(t) = IF Len(s) = 0 THEN t[1] ELSE FlattenSeq(s) \o t[Len(t)]
<1> DEFINE n == Len(s)
<1>0. n \in Nat /\ \A i \in 1 .. n : s[i] = t[i]
    OBVIOUS
<1>1. PICK g : Joins(s, n, g) /\ FlattenSeq(s) = IF n = 0 THEN s ELSE g[n]
    BY FlattenUnfold
<1>2. Len(t) \in Nat /\ Len(t) = n + 1 /\ Len(t) # 0
    OBVIOUS
<1>3. PICK h : Joins(t, n + 1, h) /\ FlattenSeq(t) = h[n + 1]
    BY <1>2, FlattenUnfold
<1>4. h[n + 1] = IF n = 0 THEN t[1] ELSE h[n] \o t[n + 1]
    BY <1>3 DEF Joins
<1>5. CASE n = 0
    BY <1>3, <1>4, <1>5
<1>6. CASE n # 0
    <2>1. Joins(t, n, h)
        BY <1>3 DEF Joins
    <2> HIDE DEF n
    <2>a. Joins(s, n, g)
        BY <1>1
    <2>2. \A i \in 1 .. n : g[i] = h[i]
        BY <1>0, <2>a, <2>1, JoinsUnique, SMTT(20)
    <2>3. g[n] = h[n]
        BY <1>0, <1>6, <2>2
    <2> USE DEF n
    <2> QED
        BY <1>1, <1>2, <1>3, <1>4, <1>6, <2>3, Zenon
<1> QED
    BY <1>5, <1>6

(* The same of a sequence of sequences that grew by one.                   *)
LEMMA FlattenAppend ==
    ASSUME NEW S, NEW s \in Seq(Seq(S)), NEW x \in Seq(S)
    PROVE  FlattenSeq(Append(s, x)) = FlattenSeq(s) \o x
<1>1. FlattenSeq(Append(s, x))
          = IF Len(s) = 0 THEN x ELSE FlattenSeq(s) \o x
    <2> DEFINE t == Append(s, x)
    <2>1. /\ Len(s) \in Nat /\ Len(t) = Len(s) + 1 /\ t[Len(s) + 1] = x
          /\ \A i \in 1 .. Len(s) : s[i] = t[i]
        OBVIOUS
    <2>h. HIDE DEF t
    <2>2. FlattenSeq(t) = IF Len(s) = 0 THEN t[1] ELSE FlattenSeq(s) \o t[Len(t)]
        BY <2>1, FlattenLast
    <2>3. FlattenSeq(t) = IF Len(s) = 0 THEN x ELSE FlattenSeq(s) \o x
        BY <2>1, <2>2
    <2> QED
        BY <2>3 DEF t
<1>2. Len(s) = 0 => s = <<>> /\ FlattenSeq(s) = <<>> /\ x = <<>> \o x
    BY FlattenEmpty
<1> QED
    BY <1>1, <1>2

(* Sequences over T are joined to a sequence over T.                       *)
LEMMA FlattenType ==
    ASSUME NEW S, NEW s \in Seq(Seq(S))
    PROVE  FlattenSeq(s) \in Seq(S)
<1> DEFINE N == {n \in Nat : \A t \in Seq(Seq(S)) : Len(t) = n => FlattenSeq(t) \in Seq(S)}
<1>1. 0 \in N
    BY FlattenEmpty
<1>2. ASSUME NEW n \in Nat, n \in N PROVE n + 1 \in N
    <2> SUFFICES ASSUME NEW t \in Seq(Seq(S)), Len(t) = n + 1
                 PROVE  FlattenSeq(t) \in Seq(S)
        OBVIOUS
    <2>0. t # <<>>
        OBVIOUS
    <2>1. PICK u \in Seq(Seq(S)), x \in Seq(S) : t = Append(u, x)
        BY <2>0, SequenceEmptyOrAppend, Zenon
    <2>2. Len(u) = n
        BY <2>1
    <2>3. FlattenSeq(u) \in Seq(S)
        BY <1>2, <2>2
    <2>4. FlattenSeq(t) = FlattenSeq(u) \o x
        BY <2>1, FlattenAppend
    <2> QED
        BY <2>3, <2>4
<1>3. Nat \subseteq N
    BY <1>1, <1>2, NatSetInduction
<1> QED
    BY <1>3

(* Joining two parts, one after the other, is joining all.                 *)
LEMMA FlattenConcat ==
    ASSUME NEW S, NEW s \in Seq(Seq(S)), NEW t \in Seq(Seq(S))
    PROVE  FlattenSeq(s \o t) = FlattenSeq(s) \o FlattenSeq(t)
<1> DEFINE N == {n \in Nat : \A u \in Seq(Seq(S)) :
                    Len(u) = n => FlattenSeq(s \o u) = FlattenSeq(s) \o FlattenSeq(u)}
<1>0. FlattenSeq(s) \in Seq(S)
    BY FlattenType
<1>1. 0 \in N
    <2> SUFFICES ASSUME NEW u \in Seq(Seq(S)), Len(u) = 0
                 PROVE  FlattenSeq(s \o u) = FlattenSeq(s) \o FlattenSeq(u)
        OBVIOUS
    <2>1. u = <<>> /\ s \o <<>> = s /\ FlattenSeq(s) \o <<>> = FlattenSeq(s)
        BY <1>0
    <2> QED
        BY <2>1, FlattenEmpty
<1>2. ASSUME NEW n \in Nat, n \in N PROVE n + 1 \in N
    <2> SUFFICES ASSUME NEW u \in Seq(Seq(S)), Len(u) = n + 1
                 PROVE  FlattenSeq(s \o u) = FlattenSeq(s) \o FlattenSeq(u)
        OBVIOUS
    <2> HIDE DEF N
    <2>0. u # <<>>
        OBVIOUS
    <2>1. PICK v \in Seq(Seq(S)), x \in Seq(S) : u = Append(v, x)
        BY <2>0, SequenceEmptyOrAppend, Zenon
    <2>2. Len(v) = n /\ s \o v \in Seq(Seq(S)) /\ s \o u = Append(s \o v, x)
        BY <2>1
    <2>3. FlattenSeq(s \o v) = FlattenSeq(s) \o FlattenSeq(v)
        BY <1>2, <2>2 DEF N
    <2>4. /\ FlattenSeq(u) = FlattenSeq(v) \o x
          /\ FlattenSeq(s \o u) = FlattenSeq(s \o v) \o x
        BY <2>1, <2>2, FlattenAppend
    <2>5. FlattenSeq(v) \in Seq(S)
        BY FlattenType
    <2>6. (FlattenSeq(s) \o FlattenSeq(v)) \o x = FlattenSeq(s) \o (FlattenSeq(v) \o x)
        BY <1>0, <2>5, SMTT(30)
    <2> QED
        BY <2>3, <2>4, <2>6, Zenon
<1>3. Nat \subseteq N
    BY <1>1, <1>2, NatSetInduction
<1> QED
    BY <1>3

(* One sequence alone is what it was.                                      *)
LEMMA FlattenOne ==
    ASSUME NEW S, NEW x \in Seq(S)
    PROVE  FlattenSeq(<<x>>) = x
<1>1. <<x>> = Append(<<>>, x) /\ <<>> \in Seq(Seq(S)) /\ <<>> \o x = x
    OBVIOUS
<1> QED
    BY <1>1, FlattenAppend, FlattenEmpty

-----------------------------------------------------------------------------
(* Texts of the members of a sequence, joined. *)

Map(f, s) == [i \in DOMAIN s |-> f[s[i]]]
Joined(f, s) == FlattenSeq(Map(f, s))

\* \o under a name that the proofs below leave unexpanded.
s ++ t == s \o t

(* Concatenation has a type, a length, a neutral element, and is           *)
(* associative.                                                            *)
LEMMA CatFacts ==
    ASSUME NEW S, NEW s \in Seq(S), NEW t \in Seq(S), NEW u \in Seq(S)
    PROVE  /\ s ++ t \in Seq(S) /\ Len(s ++ t) = Len(s) + Len(t)
           /\ (s ++ t) ++ u = s ++ (t ++ u)
           /\ <<>> ++ s = s /\ s ++ <<>> = s
<1>1. s \o t \in Seq(S) /\ Len(s \o t) = Len(s) + Len(t)
    BY ConcatProperties
<1>2. (s \o t) \o u = s \o (t \o u)
    BY ConcatAssociative
<1>3. <<>> \o s = s /\ s \o <<>> = s
    BY ConcatEmptySeq
<1>. QED
    BY <1>1, <1>2, <1>3 DEF ++

(* A function of 1 .. n is a sequence of n elements.                       *)
LEMMA FunctionIsSeq ==
    ASSUME NEW T, NEW n \in Nat, NEW m \in [1 .. n -> T]
    PROVE  m \in Seq(T) /\ Len(m) = n
<1>1. m \in Seq(T)
    BY SeqDef
<1>. QED
    BY <1>1

IsMap(m, f, s, T) == /\ m \in Seq(T) /\ Len(m) = Len(s)
                     /\ \A i \in 1 .. Len(s) : m[i] = f[s[i]]

(* The images of the elements of a sequence are a sequence as long.        *)
LEMMA MapType ==
    ASSUME NEW S, NEW T, NEW f, \A e \in S : f[e] \in T, NEW s \in Seq(S)
    PROVE  IsMap(Map(f, s), f, s, T)
<1>1. DOMAIN s = 1 .. Len(s) /\ Len(s) \in Nat
    OBVIOUS
<1>2. \A i \in 1 .. Len(s) : f[s[i]] \in T
    <2>1. \A i \in 1 .. Len(s) : s[i] \in S
        OBVIOUS
    <2>. QED
        BY <2>1, Zenon
<1>3. Map(f, s) = [i \in 1 .. Len(s) |-> f[s[i]]]
    BY <1>1 DEF Map
<1> DEFINE m == [i \in 1 .. Len(s) |-> f[s[i]]]
<1>4. m \in [1 .. Len(s) -> T] /\ \A i \in 1 .. Len(s) : m[i] = f[s[i]]
    BY <1>2, Zenon
<1>. HIDE DEF m
<1>5. m \in Seq(T) /\ Len(m) = Len(s)
    BY <1>1, <1>4, FunctionIsSeq
<1>. QED
    BY <1>3, <1>4, <1>5 DEF m, IsMap

(* The images of two sequences joined are the images of each, joined.      *)
LEMMA MapConcat ==
    ASSUME NEW S, NEW f, NEW s \in Seq(S), NEW t \in Seq(S)
    PROVE  Map(f, s ++ t) = Map(f, s) ++ Map(f, t)
<1>. DEFINE T == {f[e] : e \in S}
<1>t. \A e \in S : f[e] \in T
    OBVIOUS
<1>. HIDE DEF T
<1>1. s \o t \in Seq(S) /\ Len(s \o t) = Len(s) + Len(t)
    BY ConcatProperties
<1>0. Len(s) \in Nat /\ Len(t) \in Nat
    OBVIOUS
<1>. DEFINE a == Map(f, s)
            b == Map(f, t)
            c == Map(f, s \o t)
<1>a. IsMap(a, f, s, T) /\ IsMap(b, f, t, T)
    BY <1>t, MapType, Zenon
<1>c. IsMap(c, f, s \o t, T)
    BY <1>1, <1>t, MapType
<1>. HIDE DEF a, b, c
<1>2. /\ a \in Seq(T) /\ Len(a) = Len(s)
      /\ \A i \in 1 .. Len(s) : a[i] = f[s[i]]
    BY <1>a DEF IsMap
<1>3. /\ b \in Seq(T) /\ Len(b) = Len(t)
      /\ \A i \in 1 .. Len(t) : b[i] = f[t[i]]
    BY <1>a DEF IsMap
<1>4. /\ c \in Seq(T) /\ Len(c) = Len(s \o t)
      /\ \A i \in 1 .. Len(s \o t) : c[i] = f[(s \o t)[i]]
    BY <1>c DEF IsMap
<1>5. /\ a \o b \in Seq(T) /\ Len(a \o b) = Len(a) + Len(b)
      /\ \A i \in 1 .. Len(a) + Len(b) : (a \o b)[i] = IF i <= Len(a) THEN a[i] ELSE b[i - Len(a)]
    BY <1>2, <1>3, ConcatProperties, ZenonT(40)
<1>6. ASSUME NEW i \in 1 .. Len(s) + Len(t)
      PROVE  c[i] = (a \o b)[i]
    <2>1. c[i] = f[(s \o t)[i]]
        BY <1>1, <1>4
    <2>2. CASE i <= Len(s)
        <3>1. (s \o t)[i] = s[i] /\ i \in 1 .. Len(s)
            BY <2>2
        <3>2. (a \o b)[i] = a[i]
            BY <1>2, <1>3, <1>5, <2>2
        <3>3. a[i] = f[s[i]]
            BY <1>2, <3>1
        <3>. QED
            BY <2>1, <3>1, <3>2, <3>3, Zenon
    <2>3. CASE i > Len(s)
        <3>1. i - Len(s) \in 1 .. Len(t) /\ (s \o t)[i] = t[i - Len(s)]
            BY <2>3
        <3>2. (a \o b)[i] = b[i - Len(s)]
            BY <1>0, <1>2, <1>3, <1>5, <2>3
        <3>3. b[i - Len(s)] = f[t[i - Len(s)]]
            BY <1>3, <3>1
        <3>. QED
            BY <2>1, <3>1, <3>2, <3>3, Zenon
    <2>4. i <= Len(s) \/ i > Len(s)
        BY <1>0
    <2>. QED
        BY <2>2, <2>3, <2>4, Zenon
<1>7. c = a \o b
    BY <1>1, <1>2, <1>3, <1>4, <1>5, <1>6, SeqEqual
<1> QED
    BY <1>7 DEF a, b, c, ++

(* The texts of the elements join to a text.                               *)
LEMMA JoinedType ==
    ASSUME NEW S, NEW T, NEW f \in [S -> Seq(T)], NEW s \in Seq(S)
    PROVE  Joined(f, s) \in Seq(T)
<1>1. Map(f, s) \in Seq(Seq(T))
    BY MapType DEF IsMap
<1>. QED
    BY <1>1, FlattenType DEF Joined

(* No element has no text.                                                 *)
LEMMA JoinedEmpty == ASSUME NEW f PROVE Joined(f, <<>>) = <<>>
<1>1. Map(f, <<>>) = <<>>
    BY DEF Map
<1>. QED
    BY <1>1, FlattenEmpty DEF Joined

(* The text of two sequences is that of the one and then of the other.     *)
LEMMA JoinedConcat ==
    ASSUME NEW S, NEW T, NEW f \in [S -> Seq(T)], NEW s \in Seq(S), NEW t \in Seq(S)
    PROVE  Joined(f, s ++ t) = Joined(f, s) ++ Joined(f, t)
<1>1. Map(f, s) \in Seq(Seq(T)) /\ Map(f, t) \in Seq(Seq(T))
    BY MapType DEF IsMap
<1>2. FlattenSeq(Map(f, s) \o Map(f, t)) = FlattenSeq(Map(f, s)) \o FlattenSeq(Map(f, t))
    BY <1>1, FlattenConcat
<1>3. Map(f, s ++ t) = Map(f, s) ++ Map(f, t)
    BY MapConcat, SMT
<1>. QED
    BY <1>2, <1>3, Zenon DEF Joined, ++

(* The text of one element alone is its text.                              *)
LEMMA JoinedOne ==
    ASSUME NEW S, NEW T, NEW f \in [S -> Seq(T)], NEW e \in S
    PROVE  Joined(f, <<e>>) = f[e]
<1>1. f[e] \in Seq(T)
    OBVIOUS
<1>2. Map(f, <<e>>) = <<f[e]>>
    BY DEF Map
<1>3. FlattenSeq(<<f[e]>>) = f[e]
    BY <1>1, FlattenOne
<1>. QED
    BY <1>2, <1>3 DEF Joined

(* The text of a sequence begins with that of its first element.           *)
LEMMA JoinedFirst ==
    ASSUME NEW S, NEW T, NEW f \in [S -> Seq(T)], NEW e \in S, NEW s \in Seq(S)
    PROVE  Joined(f, <<e>> ++ s) = f[e] ++ Joined(f, s)
<1> DEFINE x == <<e>>
<1>1. x \in Seq(S)
    OBVIOUS
<1>2. Joined(f, x) = f[e]
    BY JoinedOne
<1>. HIDE DEF x
<1>3. Joined(f, x ++ s) = Joined(f, x) ++ Joined(f, s)
    BY <1>1, JoinedConcat
<1>. QED
    BY <1>2, <1>3, Zenon DEF x
-----------------------------------------------------------------------------
(* The texts of a log. *)

Symbol == Char \cup Digits \cup {":", ".", "-", ",", "=", "'", "dq", "cr", "nl"}
Texts == Seq(Symbol)

(* What the proofs below use of texts: their concatenation.                *)
LEMMA TextsFacts ==
    /\ <<>> \in Texts
    /\ \A c \in Symbol : <<c>> \in Texts
    /\ \A s, t \in Texts : s ++ t \in Texts /\ Len(s ++ t) = Len(s) + Len(t)
    /\ \A s \in Texts : <<>> ++ s = s /\ s ++ <<>> = s /\ Len(s) \in Nat
    /\ \A s, t, u \in Texts : (s ++ t) ++ u = s ++ (t ++ u)
<1>1. <<>> \in Texts /\ \A c \in Symbol : <<c>> \in Texts
    BY DEF Texts
<1>2. \A s, t \in Texts : s ++ t \in Texts /\ Len(s ++ t) = Len(s) + Len(t)
    BY CatFacts DEF Texts
<1>3. \A s \in Texts : <<>> ++ s = s /\ s ++ <<>> = s /\ Len(s) \in Nat
    BY CatFacts DEF Texts
<1>4. \A s, t, u \in Texts : (s ++ t) ++ u = s ++ (t ++ u)
    BY CatFacts DEF Texts
<1>. QED
    BY <1>1, <1>2, <1>3, <1>4

\* The signs of the format.
Signs == {":", ".", "-", ",", "=", "'", "dq", "cr", "nl"}

(* Each sign of the format is a symbol, and a text of its own.             *)
LEMMA SignTexts == \A c \in Signs : c \in Symbol /\ <<c>> \in Texts
    BY TextsFacts DEF Signs, Symbol

(* A sequence of some symbols only is a text.                              *)
LEMMA SubTexts ==
    ASSUME NEW S, S \subseteq Symbol, NEW s \in Seq(S)
    PROVE  s \in Texts
    BY SeqMonotonic DEF Texts

\* What one character becomes between quotes.
Twice(q) == [c \in Symbol |-> IF c = q THEN <<q, q>> ELSE <<c>>]

(* A quoted text has each of its quotes twice.                             *)
LEMMA DoubledFacts ==
    ASSUME NEW q \in {"'", "dq"}
    PROVE  /\ Doubled(<<>>, q) = <<>>
           /\ \A t \in Texts : Doubled(t, q) \in Texts
           /\ \A c \in Symbol, t \in Texts :
                  Doubled(<<c>> ++ t, q) = (IF c = q THEN <<q, q>> ELSE <<c>>) ++ Doubled(t, q)
<1> DEFINE f == Twice(q)
<1>1. f \in [Symbol -> Seq(Symbol)]
    <2>1. q \in Symbol
        BY DEF Symbol
    <2>2. \A c \in Symbol : (IF c = q THEN <<q, q>> ELSE <<c>>) \in Seq(Symbol)
        BY <2>1
    <2>. QED
        BY <2>2, Zenon DEF Twice
<1>2. ASSUME NEW t \in Texts PROVE Doubled(t, q) = Joined(f, t)
    <2>1. \A i \in DOMAIN t : f[t[i]] = IF t[i] = q THEN <<q, q>> ELSE <<t[i]>>
        BY DEF Twice, Texts
    <2>2. Map(f, t) = [i \in DOMAIN t |-> IF t[i] = q THEN <<q, q>> ELSE <<t[i]>>]
        BY <2>1 DEF Map
    <2>. QED
        BY <2>2, Zenon DEF Doubled, Joined
<1>3. ASSUME NEW c \in Symbol, NEW t \in Texts
      PROVE  Doubled(<<c>> ++ t, q) = (IF c = q THEN <<q, q>> ELSE <<c>>) ++ Doubled(t, q)
    <2>1. <<c>> ++ t \in Texts
        BY TextsFacts
    <2>2. f[c] = IF c = q THEN <<q, q>> ELSE <<c>>
        BY DEF Twice
    <2>. HIDE DEF f
    <2>3. Joined(f, <<c>> ++ t) = f[c] ++ Joined(f, t)
        <3>1. t \in Seq(Symbol)
            BY DEF Texts
        <3>. QED
            BY <1>1, <3>1, JoinedFirst, SMTT(20)
    <2>. QED
        BY <1>2, <2>1, <2>2, <2>3
<1>4. Doubled(<<>>, q) = <<>>
    BY <1>2, TextsFacts, JoinedEmpty
<1>5. \A t \in Texts : Doubled(t, q) \in Texts
    BY <1>1, <1>2, JoinedType DEF Texts
<1>. QED
    BY <1>3, <1>4, <1>5

Quoted(v) == v.quote \in {"'", "dq"} /\ v.chars \in Texts
Bare == Char \ {",", "=", "'", "dq", "cr", "nl"}

(* A value is written bare, or between quotes; as a text in both cases.    *)
LEMMA LogValueFacts ==
    ASSUME NEW v \in LogValue
    PROVE  /\ \/ v.quote = "none" /\ v.chars \in Seq(Bare) /\ ValueText(v) = v.chars
              \/ Quoted(v) /\ ValueText(v) = <<v.quote>> ++ (Doubled(v.chars, v.quote) ++ <<v.quote>>)
           /\ ValueText(v) \in Texts
<1>1. \/ v.quote = "none" /\ v.chars \in Seq(Bare)
      \/ v.quote \in {"'", "dq"} /\ v.chars \in Seq(Char)
    BY DEF LogValue, Bare
<1>2. Bare \subseteq Symbol /\ Char \subseteq Symbol
    BY DEF Symbol, Bare
<1>3. v.chars \in Texts
    BY <1>1, <1>2, SubTexts
<1>4. CASE v.quote = "none"
    BY <1>1, <1>3, <1>4 DEF ValueText
<1>5. CASE v.quote \in {"'", "dq"}
    <2>1. v.quote \in Symbol
        BY <1>5, SignTexts DEF Signs
    <2>2. Doubled(v.chars, v.quote) \in Texts
        BY <1>3, <1>5, DoubledFacts, Zenon
    <2>3. <<v.quote>> \in Texts
        BY <2>1, TextsFacts
    <2>4. ValueText(v) = (<<v.quote>> ++ Doubled(v.chars, v.quote)) ++ <<v.quote>>
        BY <1>5 DEF ValueText, ++
    <2>. DEFINE d == Doubled(v.chars, v.quote)  q == <<v.quote>>
    <2>. HIDE DEF d, q
    <2>5. (q ++ d) ++ q = q ++ (d ++ q) /\ q ++ (d ++ q) \in Texts
        BY <2>2, <2>3, TextsFacts DEF q, d
    <2>. QED
        BY <1>3, <1>5, <2>4, <2>5 DEF Quoted, q, d
<1>. QED
    BY <1>1, <1>4, <1>5

Property == LogKey \X LogValue

(* A property is written as a comma, its key, an equals sign and its       *)
(* value.                                                                  *)
LEMMA PropertyFacts ==
    ASSUME NEW p \in Property
    PROVE  /\ p[1] \in LogKey /\ p[1] \in Texts /\ p[2] \in LogValue
           /\ ValueText(p[2]) \in Texts
           /\ PropertyText(p) = <<",">> ++ (p[1] ++ (<<"=">> ++ ValueText(p[2])))
           /\ PropertyText(p) \in Texts
<1>1. p[1] \in LogKey /\ p[2] \in LogValue
    BY DEF Property
<1>2. p[1] \in Texts
    <2>1. Char \ {",", "=", "'", "dq", "nl"} \subseteq Symbol
        BY DEF Symbol
    <2>. QED
        BY <1>1, <2>1, SubTexts DEF LogKey
<1>3. ValueText(p[2]) \in Texts
    BY <1>1, LogValueFacts
<1>4. <<",">> \in Texts /\ <<"=">> \in Texts
    BY SignTexts DEF Signs
<1>5. PropertyText(p) = ((<<",">> ++ p[1]) ++ <<"=">>) ++ ValueText(p[2])
    BY DEF PropertyText, ++
<1>6. ((<<",">> ++ p[1]) ++ <<"=">>) ++ ValueText(p[2])
          = <<",">> ++ (p[1] ++ (<<"=">> ++ ValueText(p[2])))
    <2>. DEFINE k == p[1]  v == ValueText(p[2])  c == <<",">>  e == <<"=">>
    <2>1. k \in Texts /\ v \in Texts /\ c \in Texts /\ e \in Texts
        BY <1>2, <1>3, <1>4
    <2>. HIDE DEF k, v, c, e
    <2>2. ((c ++ k) ++ e) ++ v = (c ++ k) ++ (e ++ v)
        <3>1. c ++ k \in Texts
            BY <2>1, TextsFacts
        <3>. QED
            BY <2>1, <3>1, TextsFacts
    <2>3. (c ++ k) ++ (e ++ v) = c ++ (k ++ (e ++ v))
        <3>1. e ++ v \in Texts
            BY <2>1, TextsFacts
        <3>. QED
            BY <2>1, <3>1, TextsFacts
    <2>. QED
        BY <2>2, <2>3 DEF k, v, c, e
<1>7. PropertyText(p) \in Texts
    <2>1. <<"=">> ++ ValueText(p[2]) \in Texts
        BY <1>3, <1>4, TextsFacts
    <2>2. p[1] ++ (<<"=">> ++ ValueText(p[2])) \in Texts
        BY <1>2, <2>1, TextsFacts
    <2>3. <<",">> ++ (p[1] ++ (<<"=">> ++ ValueText(p[2]))) \in Texts
        BY <1>4, <2>2, TextsFacts
    <2>. QED
        BY <1>5, <1>6, <2>3
<1>. QED
    BY <1>1, <1>2, <1>3, <1>5, <1>6, <1>7

PropertiesText(ps) == FlattenSeq([i \in DOMAIN ps |-> PropertyText(ps[i])])

(* The properties are written one after the other.                         *)
LEMMA PropertiesFacts ==
    /\ PropertiesText(<<>>) = <<>>
    /\ \A ps \in Seq(Property) : PropertiesText(ps) \in Texts
    /\ \A p \in Property, ps \in Seq(Property) :
           PropertiesText(<<p>> ++ ps) = PropertyText(p) ++ PropertiesText(ps)
<1> DEFINE f == [p \in Property |-> PropertyText(p)]
<1>1. f \in [Property -> Seq(Symbol)]
    BY PropertyFacts DEF Texts
<1>2. ASSUME NEW ps \in Seq(Property) PROVE PropertiesText(ps) = Joined(f, ps)
    <2>1. \A i \in DOMAIN ps : f[ps[i]] = PropertyText(ps[i])
        OBVIOUS
    <2>2. Map(f, ps) = [i \in DOMAIN ps |-> PropertyText(ps[i])]
        BY <2>1 DEF Map
    <2>. QED
        BY <2>2, Zenon DEF PropertiesText, Joined
<1>3. \A p \in Property : f[p] = PropertyText(p)
    OBVIOUS
<1>4. <<>> \in Seq(Property) /\ \A p \in Property, ps \in Seq(Property) : <<p>> ++ ps \in Seq(Property)
    BY DEF ++
<1>. HIDE DEF f
<1>5. PropertiesText(<<>>) = <<>>
    BY <1>2, <1>4, JoinedEmpty
<1>6. \A ps \in Seq(Property) : PropertiesText(ps) \in Texts
    BY <1>1, <1>2, JoinedType DEF Texts
<1>7. ASSUME NEW p \in Property, NEW ps \in Seq(Property)
      PROVE  PropertiesText(<<p>> ++ ps) = PropertyText(p) ++ PropertiesText(ps)
    <2>1. Joined(f, <<p>> ++ ps) = f[p] ++ Joined(f, ps)
        BY <1>1, JoinedFirst, SMTT(20)
    <2>. QED
        BY <1>2, <1>3, <1>4, <2>1
<1>. QED
    BY <1>5, <1>6, <1>7

-----------------------------------------------------------------------------
EndText(later) == <<"cr">> ++ (<<"nl">> ++ LogText(later))
FromProperties(ps, later) == PropertiesText(ps) ++ EndText(later)

FieldOf == <<"minute", "second", "msecond", "duration", "name", "level">>
SepOf == <<":", ".", "-", ",", ",">>

\* What follows field n of record r.
After(n, r, later) ==
    LET a6 == FromProperties(r.properties, later)
        a5 == <<",">> ++ (r.level ++ a6)
        a4 == <<",">> ++ (r.name ++ a5)
        a3 == <<"-">> ++ (r.duration ++ a4)
        a2 == <<".">> ++ (r.msecond ++ a3)
        a1 == <<":">> ++ (r.second ++ a2)
    IN <<a1, a2, a3, a4, a5, a6>>[n]

(* The types of the parts of a record.                                     *)
LEMMA RecordTypes ==
    ASSUME NEW r \in LogRecord
    PROVE  /\ r.minute \in Seq(Digits) \ {<<>>} /\ r.name \in Seq(Letters)
           /\ \A f \in {"second", "msecond", "duration", "level"} : r[f] \in Seq(Digits)
           /\ \A f \in Fields : r[f] \in Texts
           /\ r.properties \in Seq(Property) \ {<<>>}
<1>1. /\ r.minute \in Seq(Digits) \ {<<>>} /\ r.name \in Seq(Letters)
      /\ r.second \in Seq(Digits) /\ r.msecond \in Seq(Digits) /\ r.duration \in Seq(Digits)
      /\ r.level \in Seq(Digits) /\ r.properties \in Seq(Property) \ {<<>>}
    BY DEF LogRecord, Property
<1>2. Digits \subseteq Symbol /\ Letters \subseteq Symbol
    BY DEF Symbol, Letters
<1>3. /\ r.minute \in Texts /\ r.second \in Texts /\ r.msecond \in Texts
      /\ r.duration \in Texts /\ r.name \in Texts /\ r.level \in Texts
    BY <1>1, <1>2, SubTexts
<1>. QED
    BY <1>1, <1>3 DEF Fields

(* Concatenation of three texts, from the left or from the right.          *)
LEMMA Shift ==
    ASSUME NEW s \in Texts, NEW t \in Texts, NEW u \in Texts
    PROVE  (s ++ t) ++ u = s ++ (t ++ u)
    BY TextsFacts

(* A record is a text, each field and sign of it in its place.             *)
LEMMA RecordFacts ==
    ASSUME NEW r \in LogRecord
    PROVE  /\ RecordText(r) \in Texts
           /\ \A z \in Texts : RecordText(r) ++ z =
                  r.minute ++ (<<":">> ++ (r.second ++ (<<".">> ++
                      (r.msecond ++ (<<"-">> ++ (r.duration ++ (<<",">> ++
                      (r.name ++ (<<",">> ++ (r.level ++
                      (PropertiesText(r.properties) ++ (<<"cr", "nl">> ++
                      z))))))))))))
<1> DEFINE x1 == r.minute
           x2 == <<":">>
           x3 == r.second
           x4 == <<".">>
           x5 == r.msecond
           x6 == <<"-">>
           x7 == r.duration
           x8 == <<",">>
           x9 == r.name
           x10 == <<",">>
           x11 == r.level
           x12 == PropertiesText(r.properties)
           x13 == <<"cr", "nl">>
<1>1. /\ x1 \in Texts
      /\ x2 \in Texts
      /\ x3 \in Texts
      /\ x4 \in Texts
      /\ x5 \in Texts
      /\ x6 \in Texts
      /\ x7 \in Texts
      /\ x8 \in Texts
      /\ x9 \in Texts
      /\ x10 \in Texts
      /\ x11 \in Texts
      /\ x12 \in Texts
      /\ x13 \in Texts
    <2>1. x12 \in Texts
        BY PropertiesFacts, RecordTypes
    <2>2. x2 \in Texts /\ x4 \in Texts /\ x6 \in Texts /\ x8 \in Texts /\ x10 \in Texts
        BY SignTexts DEF Signs
    <2>3. x13 \in Texts
        BY DEF Texts, Symbol
    <2>4. x1 \in Texts /\ x3 \in Texts /\ x5 \in Texts /\ x7 \in Texts /\ x9 \in Texts /\ x11 \in Texts
        BY RecordTypes DEF Fields
    <2>. QED
        BY <2>1, <2>2, <2>3, <2>4
<1> DEFINE l1 == x1
           l2 == l1 ++ x2
           l3 == l2 ++ x3
           l4 == l3 ++ x4
           l5 == l4 ++ x5
           l6 == l5 ++ x6
           l7 == l6 ++ x7
           l8 == l7 ++ x8
           l9 == l8 ++ x9
           l10 == l9 ++ x10
           l11 == l10 ++ x11
           l12 == l11 ++ x12
           l13 == l12 ++ x13
<1>2. RecordText(r) = l13
    BY DEF RecordText, PropertiesText, ++
<1>. HIDE DEF x1, x2, x3, x4, x5, x6, x7, x8, x9, x10, x11, x12, x13
<1>3. /\ l1 \in Texts
      /\ l2 \in Texts
      /\ l3 \in Texts
      /\ l4 \in Texts
      /\ l5 \in Texts
      /\ l6 \in Texts
      /\ l7 \in Texts
      /\ l8 \in Texts
      /\ l9 \in Texts
      /\ l10 \in Texts
      /\ l11 \in Texts
      /\ l12 \in Texts
      /\ l13 \in Texts
    <2>1. l1 \in Texts
        BY <1>1
    <2>. HIDE DEF l1
    <2>2. l2 \in Texts
        BY <1>1, <2>1, TextsFacts DEF l2
    <2>. HIDE DEF l2
    <2>3. l3 \in Texts
        BY <1>1, <2>2, TextsFacts DEF l3
    <2>. HIDE DEF l3
    <2>4. l4 \in Texts
        BY <1>1, <2>3, TextsFacts DEF l4
    <2>. HIDE DEF l4
    <2>5. l5 \in Texts
        BY <1>1, <2>4, TextsFacts DEF l5
    <2>. HIDE DEF l5
    <2>6. l6 \in Texts
        BY <1>1, <2>5, TextsFacts DEF l6
    <2>. HIDE DEF l6
    <2>7. l7 \in Texts
        BY <1>1, <2>6, TextsFacts DEF l7
    <2>. HIDE DEF l7
    <2>8. l8 \in Texts
        BY <1>1, <2>7, TextsFacts DEF l8
    <2>. HIDE DEF l8
    <2>9. l9 \in Texts
        BY <1>1, <2>8, TextsFacts DEF l9
    <2>. HIDE DEF l9
    <2>10. l10 \in Texts
        BY <1>1, <2>9, TextsFacts DEF l10
    <2>. HIDE DEF l10
    <2>11. l11 \in Texts
        BY <1>1, <2>10, TextsFacts DEF l11
    <2>. HIDE DEF l11
    <2>12. l12 \in Texts
        BY <1>1, <2>11, TextsFacts DEF l12
    <2>. HIDE DEF l12
    <2>13. l13 \in Texts
        BY <1>1, <2>12, TextsFacts DEF l13
    <2>. QED
        BY <2>1, <2>2, <2>3, <2>4, <2>5, <2>6, <2>7, <2>8, <2>9, <2>10, <2>11, <2>12, <2>13
<1>4. ASSUME NEW z \in Texts
      PROVE  l13 ++ z = x1 ++ (x2 ++ (x3 ++ (x4 ++ (x5 ++ (x6 ++ (x7 ++ (x8 ++
                 (x9 ++ (x10 ++ (x11 ++ (x12 ++ (x13 ++ z))))))))))))
    <2> DEFINE r13 == x13 ++ z
               r12 == x12 ++ r13
               r11 == x11 ++ r12
               r10 == x10 ++ r11
               r9 == x9 ++ r10
               r8 == x8 ++ r9
               r7 == x7 ++ r8
               r6 == x6 ++ r7
               r5 == x5 ++ r6
               r4 == x4 ++ r5
               r3 == x3 ++ r4
               r2 == x2 ++ r3
    <2>1. /\ r13 \in Texts /\ r12 \in Texts /\ r11 \in Texts /\ r10 \in Texts
          /\ r9 \in Texts /\ r8 \in Texts /\ r7 \in Texts /\ r6 \in Texts
          /\ r5 \in Texts /\ r4 \in Texts /\ r3 \in Texts /\ r2 \in Texts
        <3>1. r13 \in Texts
            BY <1>1, TextsFacts
        <3>. HIDE DEF r13
        <3>2. r12 \in Texts
            BY <1>1, <3>1, TextsFacts DEF r12
        <3>. HIDE DEF r12
        <3>3. r11 \in Texts
            BY <1>1, <3>2, TextsFacts DEF r11
        <3>. HIDE DEF r11
        <3>4. r10 \in Texts
            BY <1>1, <3>3, TextsFacts DEF r10
        <3>. HIDE DEF r10
        <3>5. r9 \in Texts
            BY <1>1, <3>4, TextsFacts DEF r9
        <3>. HIDE DEF r9
        <3>6. r8 \in Texts
            BY <1>1, <3>5, TextsFacts DEF r8
        <3>. HIDE DEF r8
        <3>7. r7 \in Texts
            BY <1>1, <3>6, TextsFacts DEF r7
        <3>. HIDE DEF r7
        <3>8. r6 \in Texts
            BY <1>1, <3>7, TextsFacts DEF r6
        <3>. HIDE DEF r6
        <3>9. r5 \in Texts
            BY <1>1, <3>8, TextsFacts DEF r5
        <3>. HIDE DEF r5
        <3>10. r4 \in Texts
            BY <1>1, <3>9, TextsFacts DEF r4
        <3>. HIDE DEF r4
        <3>11. r3 \in Texts
            BY <1>1, <3>10, TextsFacts DEF r3
        <3>. HIDE DEF r3
        <3>12. r2 \in Texts
            BY <1>1, <3>11, TextsFacts DEF r2
        <3>. QED
            BY <3>1, <3>2, <3>3, <3>4, <3>5, <3>6, <3>7, <3>8, <3>9, <3>10, <3>11, <3>12
    <2>. HIDE DEF l1, l2, l3, l4, l5, l6, l7, l8, l9, l10, l11, l12, l13, r2,
                  r3, r4, r5, r6, r7, r8, r9, r10, r11, r12, r13
    <2>13. l13 ++ z = l12 ++ r13
        BY <1>1, <1>3, Shift DEF l13, r13
    <2>12. l12 ++ r13 = l11 ++ r12
        BY <1>1, <1>3, <2>1, Shift DEF l12, r12
    <2>11. l11 ++ r12 = l10 ++ r11
        BY <1>1, <1>3, <2>1, Shift DEF l11, r11
    <2>10. l10 ++ r11 = l9 ++ r10
        BY <1>1, <1>3, <2>1, Shift DEF l10, r10
    <2>9. l9 ++ r10 = l8 ++ r9
        BY <1>1, <1>3, <2>1, Shift DEF l9, r9
    <2>8. l8 ++ r9 = l7 ++ r8
        BY <1>1, <1>3, <2>1, Shift DEF l8, r8
    <2>7. l7 ++ r8 = l6 ++ r7
        BY <1>1, <1>3, <2>1, Shift DEF l7, r7
    <2>6. l6 ++ r7 = l5 ++ r6
        BY <1>1, <1>3, <2>1, Shift DEF l6, r6
    <2>5. l5 ++ r6 = l4 ++ r5
        BY <1>1, <1>3, <2>1, Shift DEF l5, r5
    <2>4. l4 ++ r5 = l3 ++ r4
        BY <1>1, <1>3, <2>1, Shift DEF l4, r4
    <2>3. l3 ++ r4 = l2 ++ r3
        BY <1>1, <1>3, <2>1, Shift DEF l3, r3
    <2>2. l2 ++ r3 = l1 ++ r2
        BY <1>1, <1>3, <2>1, Shift DEF l2, r2
    <2>14. l13 ++ z = x1 ++ r2
        BY <2>13, <2>12, <2>11, <2>10, <2>9, <2>8, <2>7, <2>6, <2>5, <2>4, <2>3, <2>2 DEF l1
    <2>. QED
        BY <2>14 DEF r2, r3, r4, r5, r6, r7, r8, r9, r10, r11, r12, r13
<1>. HIDE DEF l13
<1>. QED
    BY <1>2, <1>3, <1>4 DEF x1, x2, x3, x4, x5, x6, x7, x8, x9, x10, x11, x12, x13

Records == Seq(LogRecord)

(* The text of a log is that of its records, one after the other.          *)
LEMMA LogFacts ==
    /\ LogText(<<>>) = <<>>
    /\ \A log \in Records : LogText(log) \in Texts
    /\ \A a, b \in Records : a ++ b \in Records /\ LogText(a ++ b) = LogText(a) ++ LogText(b)
    /\ \A r \in LogRecord, log \in Records :
           <<r>> ++ log \in Records /\ LogText(<<r>> ++ log) = RecordText(r) ++ LogText(log)
<1> DEFINE f == [r \in LogRecord |-> RecordText(r)]
<1>1. f \in [LogRecord -> Seq(Symbol)]
    BY RecordFacts DEF Texts
<1>2. ASSUME NEW log \in Records PROVE LogText(log) = Joined(f, log)
    <2>1. \A i \in DOMAIN log : f[log[i]] = RecordText(log[i])
        BY DEF Records
    <2>2. Map(f, log) = [i \in DOMAIN log |-> RecordText(log[i])]
        BY <2>1 DEF Map
    <2>. QED
        BY <2>2, Zenon DEF LogText, Joined
<1>3. \A r \in LogRecord : f[r] = RecordText(r)
    OBVIOUS
<1>4. /\ <<>> \in Records /\ \A r \in LogRecord, log \in Records : <<r>> ++ log \in Records
      /\ \A a, b \in Records : a ++ b \in Records
    BY DEF ++, Records
<1>. HIDE DEF f
<1>5. LogText(<<>>) = <<>>
    BY <1>2, <1>4, JoinedEmpty
<1>6. \A log \in Records : LogText(log) \in Texts
    BY <1>1, <1>2, JoinedType DEF Texts, Records
<1>7. ASSUME NEW r \in LogRecord, NEW log \in Records
      PROVE  LogText(<<r>> ++ log) = RecordText(r) ++ LogText(log)
    <2>1. Joined(f, <<r>> ++ log) = f[r] ++ Joined(f, log)
        <3>1. log \in Seq(LogRecord)
            BY DEF Records
        <3>. QED
            BY <1>1, <3>1, JoinedFirst, SMTT(20)
    <2>. QED
        BY <1>2, <1>3, <1>4, <2>1
<1>8. ASSUME NEW a \in Records, NEW b \in Records
      PROVE  LogText(a ++ b) = LogText(a) ++ LogText(b)
    <2>1. Joined(f, a ++ b) = Joined(f, a) ++ Joined(f, b)
        <3>1. a \in Seq(LogRecord) /\ b \in Seq(LogRecord)
            BY DEF Records
        <3>. QED
            BY <1>1, <3>1, JoinedConcat
    <2>. QED
        BY <1>2, <1>4, <2>1
<1>. QED
    BY <1>4, <1>5, <1>6, <1>7, <1>8

(* A record ends with a carriage return and a new line.                    *)
LEMMA EndTextFacts ==
    ASSUME NEW later \in Records
    PROVE  /\ LogText(later) \in Texts /\ <<"nl">> ++ LogText(later) \in Texts
           /\ EndText(later) \in Texts
           /\ <<"cr", "nl">> ++ LogText(later) = EndText(later)
<1>1. LogText(later) \in Texts
    BY LogFacts
<1>2. <<"cr">> \in Texts /\ <<"nl">> \in Texts
    BY SignTexts DEF Signs
<1>3. <<"cr", "nl">> = <<"cr">> ++ <<"nl">>
    BY DEF ++
<1>. DEFINE c == <<"cr">>  n == <<"nl">>
<1>. HIDE DEF c, n
<1>4. (c ++ n) ++ LogText(later) = c ++ (n ++ LogText(later))
    BY <1>1, <1>2, Shift DEF c, n
<1>5. n ++ LogText(later) \in Texts /\ c ++ (n ++ LogText(later)) \in Texts
    BY <1>1, <1>2, TextsFacts DEF c, n
<1>. QED
    BY <1>1, <1>3, <1>4, <1>5 DEF EndText, c, n

(* What is left from a property on, for none and for one more.             *)
LEMMA FromPropertiesFacts ==
    ASSUME NEW later \in Records
    PROVE  /\ FromProperties(<<>>, later) = EndText(later)
           /\ \A ps \in Seq(Property) : FromProperties(ps, later) \in Texts
           /\ \A p \in Property, ps \in Seq(Property) :
                 FromProperties(<<p>> ++ ps, later)
                     = <<",">> ++ (p[1] ++ (<<"=">> ++ (ValueText(p[2]) ++ FromProperties(ps, later))))
<1>1. EndText(later) \in Texts
    BY EndTextFacts
<1>2. FromProperties(<<>>, later) = EndText(later)
    BY <1>1, PropertiesFacts, TextsFacts DEF FromProperties
<1>3. \A ps \in Seq(Property) : PropertiesText(ps) \in Texts /\ FromProperties(ps, later) \in Texts
    BY <1>1, PropertiesFacts, TextsFacts DEF FromProperties
<1>4. ASSUME NEW p \in Property, NEW ps \in Seq(Property)
      PROVE  FromProperties(<<p>> ++ ps, later)
                 = <<",">> ++ (p[1] ++ (<<"=">> ++ (ValueText(p[2]) ++ FromProperties(ps, later))))
    <2> DEFINE c == <<",">>  k == p[1]  e == <<"=">>  v == ValueText(p[2])
               z == PropertiesText(ps)  w == EndText(later)
    <2>1. FromProperties(<<p>> ++ ps, later) = ((c ++ (k ++ (e ++ v))) ++ z) ++ w
        BY PropertiesFacts, PropertyFacts DEF FromProperties
    <2>2. FromProperties(ps, later) = z ++ w
        BY DEF FromProperties
    <2>3. c \in Texts /\ k \in Texts /\ e \in Texts /\ v \in Texts /\ z \in Texts /\ w \in Texts
        BY <1>1, <1>3, PropertyFacts, SignTexts DEF Signs
    <2>. HIDE DEF c, k, e, v, z, w
    <2> DEFINE ev == e ++ v  kev == k ++ ev  t == z ++ w
    <2>4. ev \in Texts
        BY <2>3, TextsFacts
    <2>. HIDE DEF ev
    <2>5. kev \in Texts /\ t \in Texts
        BY <2>3, <2>4, TextsFacts
    <2>. HIDE DEF kev, t
    <2>6. c ++ kev \in Texts
        BY <2>3, <2>5, TextsFacts
    <2>7. ((c ++ kev) ++ z) ++ w = (c ++ kev) ++ t
        BY <2>3, <2>6, Shift DEF t
    <2>8. (c ++ kev) ++ t = c ++ (kev ++ t)
        BY <2>3, <2>5, Shift
    <2>9. kev ++ t = k ++ (ev ++ t)
        BY <2>3, <2>4, <2>5, Shift DEF kev
    <2>10. ev ++ t = e ++ (v ++ t)
        BY <2>3, <2>5, Shift DEF ev
    <2>11. ((c ++ kev) ++ z) ++ w = c ++ (k ++ (e ++ (v ++ t)))
        BY <2>7, <2>8, <2>9, <2>10
    <2>. QED
        BY <2>1, <2>2, <2>11 DEF c, k, e, v, kev, ev, t
<1>. QED
    BY <1>2, <1>3, <1>4

(* After each field there is its sign, the next field, and what follows    *)
(* it.                                                                     *)
LEMMA AfterFacts ==
    ASSUME NEW r \in LogRecord, NEW later \in Records
    PROVE  /\ \A n \in 1 .. 6 : After(n, r, later) \in Texts
           /\ \A n \in 1 .. 5 : After(n, r, later)
                  = <<SepOf[n]>> ++ (r[FieldOf[n + 1]] ++ After(n + 1, r, later))
           /\ After(6, r, later) = FromProperties(r.properties, later)
<1> DEFINE A(n) == After(n, r, later)
           F(n) == r[FieldOf[n]]
<1>1. /\ A(6) = FromProperties(r.properties, later)
      /\ \A n \in 1 .. 5 : A(n) = <<SepOf[n]>> ++ (F(n + 1) ++ A(n + 1))
    <2>1. A(5) = <<SepOf[5]>> ++ (F(6) ++ A(6))
        BY DEF After, SepOf, FieldOf
    <2>2. A(4) = <<SepOf[4]>> ++ (F(5) ++ A(5))
        BY DEF After, SepOf, FieldOf
    <2>3. A(3) = <<SepOf[3]>> ++ (F(4) ++ A(4))
        BY DEF After, SepOf, FieldOf
    <2>4. A(2) = <<SepOf[2]>> ++ (F(3) ++ A(3))
        BY DEF After, SepOf, FieldOf
    <2>5. A(1) = <<SepOf[1]>> ++ (F(2) ++ A(2))
        BY DEF After, SepOf, FieldOf
    <2>6. A(6) = FromProperties(r.properties, later)
        BY DEF After
    <2>. HIDE DEF A, F
    <2>. QED
        BY <2>1, <2>2, <2>3, <2>4, <2>5, <2>6
<1>2. \A n \in 1 .. 6 : F(n) \in Texts
    BY RecordTypes DEF FieldOf, Fields
<1>3. \A n \in 1 .. 5 : <<SepOf[n]>> \in Texts
    <2>1. /\ SepOf[1] \in Signs /\ SepOf[2] \in Signs /\ SepOf[3] \in Signs
          /\ SepOf[4] \in Signs /\ SepOf[5] \in Signs
        BY DEF SepOf, Signs
    <2>. QED
        BY <2>1, SignTexts
<1>4. A(6) \in Texts
    BY <1>1, RecordTypes, FromPropertiesFacts
<1>. HIDE DEF A, F
<1>5. ASSUME NEW n \in 1 .. 5, A(n + 1) \in Texts PROVE A(n) \in Texts
    <2>1. F(n + 1) \in Texts
        BY <1>2
    <2>2. F(n + 1) ++ A(n + 1) \in Texts
        BY <1>5, <2>1, TextsFacts
    <2>3. <<SepOf[n]>> ++ (F(n + 1) ++ A(n + 1)) \in Texts
        BY <1>3, <2>2, TextsFacts
    <2>. QED
        BY <1>1, <2>3
<1>6. A(5) \in Texts
    BY <1>4, <1>5
<1>7. A(4) \in Texts
    BY <1>6, <1>5
<1>8. A(3) \in Texts
    BY <1>7, <1>5
<1>9. A(2) \in Texts
    BY <1>8, <1>5
<1>10. A(1) \in Texts
    BY <1>9, <1>5
<1>11. \A n \in 1 .. 6 : A(n) \in Texts
    BY <1>4, <1>6, <1>7, <1>8, <1>9, <1>10
<1>. QED
    BY <1>1, <1>11 DEF A, F

(* A log that has a record begins with the minute of the first.            *)
LEMMA LogFirst ==
    ASSUME NEW r \in LogRecord, NEW later \in Records
    PROVE  /\ LogText(<<r>> ++ later) = r.minute ++ After(1, r, later)
           /\ r.minute \in Texts
<1> DEFINE z == LogText(later)
<1>1. z \in Texts
    BY LogFacts
<1>2. <<"cr", "nl">> ++ z = EndText(later)
    BY EndTextFacts
<1>3. LogText(<<r>> ++ later) = RecordText(r) ++ z
    BY LogFacts
<1>. HIDE DEF z
<1>4. RecordText(r) ++ z = r.minute ++ After(1, r, later)
    <2> DEFINE x == <<"cr", "nl">> ++ z
               e == PropertiesText(r.properties) ++ x
               y == <<":">> ++ (r.second ++ (<<".">> ++ (r.msecond ++ (<<"-">> ++ (r.duration
                        ++ (<<",">> ++ (r.name ++ (<<",">> ++ (r.level ++ e)))))))))
    <2>1. RecordText(r) ++ z = r.minute ++ y
        BY <1>1, RecordFacts, Zenon
    <2>2. e = FromProperties(r.properties, later)
        BY <1>2 DEF FromProperties
    <2>. HIDE DEF e
    <2>3. y = After(1, r, later)
        BY <2>2 DEF After
    <2>. QED
        BY <2>1, <2>3
<1>5. r.minute \in Texts
    BY RecordTypes DEF Fields
<1>. QED
    BY <1>3, <1>4, <1>5

-----------------------------------------------------------------------------
(* Reading a text from its front. *)

(* Two texts that are equal begin with the same symbol and go on the same. *)
LEMMA Heads ==
    ASSUME NEW c \in Symbol, NEW d \in Symbol, NEW s \in Texts, NEW t \in Texts,
           <<c>> ++ s = <<d>> ++ t
    PROVE  c = d /\ s = t
<1>1. (<<c>> ++ s)[1] = c /\ (<<d>> ++ t)[1] = d
    BY DEF ++, Texts
<1>2. c = d
    BY <1>1
<1>3. Tail(<<c>> ++ s) = s /\ Tail(<<d>> ++ t) = t
    BY DEF ++, Texts
<1>6. s = t
    BY <1>3
<1>. QED
    BY <1>2, <1>6

(* A sequence that is not empty has a first element and a rest.            *)
LEMMA FirstOf ==
    ASSUME NEW S, NEW s \in Seq(S), s # <<>>
    PROVE  Head(s) \in S /\ Tail(s) \in Seq(S) /\ s = <<Head(s)>> ++ Tail(s)
    BY DEF ++

(* The same, of texts.                                                     *)
LEMMA TextsFirst ==
    ASSUME NEW s \in Texts, s # <<>>
    PROVE  \E c \in Symbol, t \in Texts : s = <<c>> ++ t
    BY FirstOf DEF Texts

(* A text with a first symbol is not empty.                                *)
LEMMA NotEmpty == \A c \in Symbol, s \in Texts : <<c>> ++ s # <<>>
    BY DEF ++, Texts

(* The next symbol is the first of x or, when x is read, that of the rest. *)
LEMMA Taking ==
    ASSUME NEW c \in Symbol, NEW y \in Texts, NEW x \in Texts, NEW rest \in Texts,
           <<c>> ++ y = x ++ rest
    PROVE  \/ x = <<>> /\ <<c>> ++ y = rest
           \/ \E z \in Texts : x = <<c>> ++ z /\ y = z ++ rest
<1>1. CASE x = <<>>
    BY <1>1, TextsFacts
<1>2. CASE x # <<>>
    <2>1. PICK d \in Symbol, z \in Texts : x = <<d>> ++ z
        BY <1>2, TextsFirst, Zenon
    <2>2. z \in Texts
        OBVIOUS
    <2>. DEFINE e == <<d>>
    <2>3. e \in Texts
        BY TextsFacts
    <2>. HIDE DEF e
    <2>4. (e ++ z) ++ rest = e ++ (z ++ rest) /\ z ++ rest \in Texts
        BY <2>2, <2>3, TextsFacts
    <2>5. <<c>> ++ y = <<d>> ++ (z ++ rest)
        BY <2>1, <2>4 DEF e
    <2>6. c = d /\ y = z ++ rest
        BY <2>4, <2>5, Heads
    <2>. QED
        BY <2>1, <2>2, <2>6
<1>. QED
    BY <1>1, <1>2

(* A symbol read goes from the front of what is left to the end of what is *)
(* collected.                                                              *)
LEMMA Appended ==
    ASSUME NEW s \in Texts, NEW c \in Symbol, NEW z \in Texts
    PROVE  /\ Append(s, c) \in Texts
           /\ Append(s, c) ++ z = s ++ (<<c>> ++ z)
<1>1. Append(s, c) = s ++ <<c>>
    BY DEF Texts, ++
<1>. DEFINE x == <<c>>
<1>2. x \in Texts
    BY TextsFacts
<1>. HIDE DEF x
<1>3. s ++ x \in Texts /\ (s ++ x) ++ z = s ++ (x ++ z)
    BY <1>2, TextsFacts
<1>. QED
    BY <1>1, <1>3 DEF x

(* What stands inside a sequence over S is an element of S.                *)
LEMMA InsideChar ==
    ASSUME NEW S, NEW w \in Seq(S), NEW s \in Texts, NEW c \in Symbol, NEW z \in Texts,
           w = s ++ (<<c>> ++ z)
    PROVE  c \in S
<1>1. <<c>> \o z \in Seq(Symbol) /\ Len(<<c>> \o z) = 1 + Len(z) /\ (<<c>> \o z)[1] = c
    BY DEF Texts
<1>. DEFINE t == <<c>> \o z
<1>2. w = s \o t /\ s \in Seq(Symbol) /\ Len(z) \in Nat
    BY DEF ++, Texts
<1>. HIDE DEF t
<1>3. t \in Seq(Symbol) /\ Len(t) > 0 /\ t[1] = c
    BY <1>1, <1>2 DEF t
<1>4. Len(w) = Len(s) + Len(t) /\ w[Len(s) + 1] = t[1]
    BY <1>2, <1>3, ConcatProperties
<1>5. Len(s) + 1 \in 1 .. Len(w)
    BY <1>2, <1>3, <1>4
<1>. QED
    BY <1>3, <1>4, <1>5

-----------------------------------------------------------------------------
(* The rows of the table on the characters of a log. *)

HandlerOf == <<"Minute", "Second", "Msecond", "Duration", "Event", "Level">>
CharsOf(n) == IF n = 5 THEN Letters ELSE Digits
Separators(n) == IF n = 1 THEN {} ELSE {SepOf[n - 1]}

(* The type of a digit, within quotes or not.                              *)
LEMMA TypeOfDigit == ASSUME NEW c \in Digits, NEW q PROVE TypeChar(c, q) = "Digit"
    BY DEF TypeChar, Digits

(* The type of a letter, outside of quotes.                                *)
LEMMA TypeOfLetter == ASSUME NEW c \in Letters PROVE TypeChar(c, <<>>) = "Char"
    BY DEF Letters

(* The types of the signs, outside of quotes.                              *)
LEMMA TypeOfSign ==
    /\ TypeChar(":", <<>>) = "Colon" /\ TypeChar(".", <<>>) = "Dot"
    /\ TypeChar("-", <<>>) = "Minus" /\ TypeChar(",", <<>>) = "Comma"
    /\ TypeChar("=", <<>>) = "Equal" /\ TypeChar("'", <<>>) = "Quote"
    /\ TypeChar("dq", <<>>) = "Dquote" /\ TypeChar("nl", <<>>) = "NewLine"
    /\ TypeChar("cr", <<>>) = "Char"
    BY DEF TypeChar, Digits

(* What neither ends a key nor begins a quoted value has one of five       *)
(* types.                                                                  *)
LEMMA TypeOfOther ==
    ASSUME NEW c, c \notin {",", "=", "'", "dq", "nl"}
    PROVE  TypeChar(c, <<>>) \in {"Digit", "Colon", "Dot", "Minus", "Char"}
    BY DEF TypeChar

(* On a character of its field the handler of a field stays.               *)
LEMMA LookupField ==
    ASSUME NEW n \in 1 .. 6, NEW c \in CharsOf(n)
    PROVE  Lookup(HandlerOf[n], TypeChar(c, <<>>)) = HandlerOf[n]
<1>1. CASE n = 5
    <2>1. TypeChar(c, <<>>) = "Char" /\ HandlerOf[n] = "Event"
        BY <1>1, TypeOfLetter DEF CharsOf, HandlerOf
    <2>. QED
        BY <2>1 DEF Lookup, Row
<1>2. CASE n # 5
    <2>1. TypeChar(c, <<>>) = "Digit"
        BY <1>2, TypeOfDigit DEF CharsOf
    <2>2. HandlerOf[n] \in {"Minute", "Second", "Msecond", "Duration", "Level"}
        BY <1>2 DEF HandlerOf
    <2>. QED
        BY <2>1, <2>2 DEF Lookup, Row
<1>. QED
    BY <1>1, <1>2

(* What the table says of the signs after the fields, and at the ends.     *)
LEMMA Table ==
    /\ Lookup("Minute", "Colon") = "Second" /\ Lookup("Second", "Dot") = "Msecond"
    /\ Lookup("Msecond", "Minus") = "Duration" /\ Lookup("Duration", "Comma") = "Event"
    /\ Lookup("Event", "Comma") = "Level" /\ Lookup("Level", "Comma") = "Key"
    /\ Lookup("EndValue", "Comma") = "Key" /\ Lookup("EndValue", "NewLine") = "EndEvent"
    /\ Lookup("EndEvent", "NewLine") = "Start"
<1>1. Lookup("Minute", "Colon") = "Second" /\ Lookup("Second", "Dot") = "Msecond"
    BY DEF Lookup, Row
<1>2. Lookup("Msecond", "Minus") = "Duration" /\ Lookup("Duration", "Comma") = "Event"
    BY DEF Lookup, Row
<1>3. Lookup("Event", "Comma") = "Level" /\ Lookup("Level", "Comma") = "Key"
    BY DEF Lookup, Row
<1>4. Lookup("EndValue", "Comma") = "Key" /\ Lookup("EndValue", "NewLine") = "EndEvent"
    BY DEF Lookup, Row
<1>5. Lookup("EndEvent", "NewLine") = "Start"
    BY DEF Lookup, Row
<1>. QED
    BY <1>1, <1>2, <1>3, <1>4, <1>5

(* On the sign after its field the handler of a field hands over to the    *)
(* next.                                                                   *)
LEMMA LookupSeparator ==
    /\ \A n \in 1 .. 5 : Lookup(HandlerOf[n], TypeChar(SepOf[n], <<>>)) = HandlerOf[n + 1]
    /\ Lookup("Level", TypeChar(",", <<>>)) = "Key"
<1>1. /\ SepOf[1] = ":" /\ SepOf[2] = "." /\ SepOf[3] = "-" /\ SepOf[4] = "," /\ SepOf[5] = ","
      /\ HandlerOf[1] = "Minute" /\ HandlerOf[2] = "Second" /\ HandlerOf[3] = "Msecond"
      /\ HandlerOf[4] = "Duration" /\ HandlerOf[5] = "Event" /\ HandlerOf[6] = "Level"
    BY DEF SepOf, HandlerOf
<1>2. /\ Lookup(HandlerOf[1], TypeChar(SepOf[1], <<>>)) = HandlerOf[2]
      /\ Lookup(HandlerOf[2], TypeChar(SepOf[2], <<>>)) = HandlerOf[3]
      /\ Lookup(HandlerOf[3], TypeChar(SepOf[3], <<>>)) = HandlerOf[4]
      /\ Lookup(HandlerOf[4], TypeChar(SepOf[4], <<>>)) = HandlerOf[5]
      /\ Lookup(HandlerOf[5], TypeChar(SepOf[5], <<>>)) = HandlerOf[6]
    BY <1>1, Table, TypeOfSign, Zenon
<1>3. \A n \in 1 .. 5 : (n = 1 /\ n + 1 = 2) \/ (n = 2 /\ n + 1 = 3) \/ (n = 3 /\ n + 1 = 4)
                         \/ (n = 4 /\ n + 1 = 5) \/ (n = 5 /\ n + 1 = 6)
    OBVIOUS
<1>4. Lookup("Level", TypeChar(",", <<>>)) = "Key"
    BY Table, TypeOfSign
<1>. QED
    BY <1>2, <1>3, <1>4, Zenon

(* A record begins with a digit, and Minute takes it.                      *)
LEMMA LookupStart ==
    ASSUME NEW c \in Digits
    PROVE  Lookup("Start", TypeChar(c, <<>>)) = "Minute"
    BY TypeOfDigit DEF Lookup, Row

(* Key goes on until the equals sign.                                      *)
LEMMA LookupKey ==
    /\ \A c : c \notin {",", "=", "'", "dq", "nl"} => Lookup("Key", TypeChar(c, <<>>)) = "Key"
    /\ Lookup("Key", TypeChar("=", <<>>)) = "Value"
<1>1. ASSUME NEW c, c \notin {",", "=", "'", "dq", "nl"}
      PROVE  Lookup("Key", TypeChar(c, <<>>)) = "Key"
    BY <1>1, TypeOfOther DEF Lookup, Row
<1>2. Lookup("Key", TypeChar("=", <<>>)) = "Value"
    BY TypeOfSign DEF Lookup, Row
<1>. QED
    BY <1>1, <1>2

(* Value goes on until a comma or a new line, and leaves a quote to        *)
(* Mvalue.                                                                 *)
LEMMA LookupValue ==
    /\ \A c : c \notin {",", "=", "'", "dq", "nl"} => Lookup("Value", TypeChar(c, <<>>)) = "Value"
    /\ \A c \in {",", "nl"} : Lookup("Value", TypeChar(c, <<>>)) = "EndValue"
    /\ \A c \in {"'", "dq"} : Lookup("Value", TypeChar(c, <<>>)) = "Mvalue"
<1>1. ASSUME NEW c, c \notin {",", "=", "'", "dq", "nl"}
      PROVE  Lookup("Value", TypeChar(c, <<>>)) = "Value"
    BY <1>1, TypeOfOther DEF Lookup, Row, TypeChars
<1>2. ASSUME NEW c \in {",", "nl"} PROVE Lookup("Value", TypeChar(c, <<>>)) = "EndValue"
    BY <1>2, TypeOfSign DEF Lookup, Row, TypeChars
<1>3. ASSUME NEW c \in {"'", "dq"} PROVE Lookup("Value", TypeChar(c, <<>>)) = "Mvalue"
    BY <1>3, TypeOfSign DEF Lookup, Row, TypeChars
<1>. QED
    BY <1>1, <1>2, <1>3

(* Mvalue ends at a comma or a new line outside of the quotes, and goes on *)
(* at a quote or a carriage return.                                        *)
LEMMA LookupMvalue ==
    /\ \A c \in {",", "nl"} : Lookup("Mvalue", TypeChar(c, <<>>)) = "EndValue"
    /\ \A c \in {"'", "dq", "cr"} : Lookup("Mvalue", TypeChar(c, <<>>)) = "Mvalue"
<1>2. ASSUME NEW c \in {",", "nl"} PROVE Lookup("Mvalue", TypeChar(c, <<>>)) = "EndValue"
    BY <1>2, TypeOfSign DEF Lookup, Row, TypeChars
<1>3. ASSUME NEW c \in {"'", "dq", "cr"} PROVE Lookup("Mvalue", TypeChar(c, <<>>)) = "Mvalue"
    BY <1>3, TypeOfSign DEF Lookup, Row, TypeChars
<1>. QED
    BY <1>2, <1>3

(* What follows EndValue and EndEvent.                                     *)
LEMMA LookupEnds ==
    /\ Lookup("EndValue", TypeChar(",", <<>>)) = "Key"
    /\ Lookup("EndValue", TypeChar("nl", <<>>)) = "EndEvent"
    /\ Lookup("EndEvent", TypeChar("nl", <<>>)) = "Start"
    BY TypeOfSign, Table

-----------------------------------------------------------------------------
(* What EndValue makes of a value. *)

(* Trimmed takes a carriage return at the end, and nothing else.           *)
LEMMA TrimmedLast ==
    ASSUME NEW s \in Texts, NEW c \in Symbol
    PROVE  Trimmed(s ++ <<c>>) = IF c = "cr" THEN s ELSE s ++ <<c>>
<1> DEFINE t == s ++ <<c>>
<1>1. t \in Seq(Symbol) /\ Len(t) = Len(s) + 1 /\ t[Len(t)] = c /\ t # <<>>
    BY DEF ++, Texts
<1>2. SubSeq(t, 1, Len(t) - 1) = s
    <2>1. Len(s) \in Nat /\ s \in Seq(Symbol) /\ \A i \in 1 .. Len(s) : t[i] = s[i]
        BY DEF ++, Texts
    <2>. HIDE DEF t
    <2>2. /\ SubSeq(t, 1, Len(t) - 1) \in Seq(Symbol)
          /\ Len(SubSeq(t, 1, Len(t) - 1)) = Len(s)
          /\ \A i \in 1 .. Len(s) : SubSeq(t, 1, Len(t) - 1)[i] = t[i]
        BY <1>1, <2>1
    <2>3. \A i \in 1 .. Len(s) : SubSeq(t, 1, Len(t) - 1)[i] = s[i]
        BY <2>1, <2>2
    <2>. DEFINE u == SubSeq(t, 1, Len(t) - 1)
    <2>. HIDE DEF u
    <2>4. u = s
        BY <2>1, <2>2, <2>3, SeqEqual DEF u
    <2>. QED
        BY <2>4 DEF u
<1>. HIDE DEF t
<1>3. Trimmed(t) = IF c = "cr" THEN s ELSE t
    BY <1>1, <1>2 DEF Trimmed
<1>. QED
    BY <1>3 DEF t

(* Trimmed leaves a quoted value, and takes a carriage return after it.    *)
LEMMA TrimQuoted ==
    ASSUME NEW q \in {"'", "dq"}, NEW d \in Texts
    PROVE  LET u == <<q>> ++ (d ++ <<q>>)
           IN u \in Texts /\ Trimmed(u) = u /\ Trimmed(u ++ <<"cr">>) = u
<1> DEFINE x == <<q>>  u == x ++ (d ++ x)  c == <<"cr">>
<1>1. q \in Symbol /\ "cr" \in Symbol /\ x \in Texts /\ c \in Texts /\ q # "cr"
    BY SignTexts DEF Signs
<1>2. Trimmed((x ++ d) ++ x) = (x ++ d) ++ x
    <2>1. x ++ d \in Texts
        BY <1>1, TextsFacts
    <2>. QED
        BY <1>1, <2>1, TrimmedLast
<1>3. u \in Texts /\ u = (x ++ d) ++ x
    <2>. HIDE DEF x
    <2>. QED
        BY <1>1, TextsFacts
<1>4. Trimmed(u ++ c) = u
    <2>. HIDE DEF u
    <2>. QED
        BY <1>1, <1>3, TrimmedLast
<1>. QED
    BY <1>2, <1>3, <1>4

(* The elements of a text that begins with a.                              *)
LEMMA FrontOf ==
    ASSUME NEW a \in Symbol, NEW t \in Texts
    PROVE  /\ (<<a>> ++ t)[1] = a /\ Len(<<a>> ++ t) = 1 + Len(t) /\ Len(t) \in Nat
           /\ \A i \in 1 .. Len(t) : (<<a>> ++ t)[i + 1] = t[i]
    BY DEF ++, Texts

(* The first two elements of a sequence.                                   *)
LEMMA FirstTwo ==
    ASSUME NEW S, NEW s \in Seq(S), Len(s) >= 2
    PROVE  SubSeq(s, 1, 2) = <<s[1], s[2]>>
<1>1. s[1] \in S /\ s[2] \in S
    OBVIOUS
<1> DEFINE u == SubSeq(s, 1, 2)
<1>2. u \in Seq(S) /\ Len(u) = 2 /\ u[1] = s[1] /\ u[2] = s[2]
    OBVIOUS
<1>. HIDE DEF u
<1>3. u = <<u[1], u[2]>>
    BY <1>2
<1>. QED
    BY <1>2, <1>3 DEF u

(* The first three elements of a sequence.                                 *)
LEMMA FirstThree ==
    ASSUME NEW S, NEW s \in Seq(S), Len(s) >= 3
    PROVE  SubSeq(s, 1, 3) = <<s[1], s[2], s[3]>>
<1>1. s[1] \in S /\ s[2] \in S /\ s[3] \in S
    OBVIOUS
<1> DEFINE u == SubSeq(s, 1, 3)
<1>2. u \in Seq(S) /\ Len(u) = 3 /\ u[1] = s[1] /\ u[2] = s[2] /\ u[3] = s[3]
    OBVIOUS
<1>. HIDE DEF u
<1>3. u = <<u[1], u[2], u[3]>>
    BY <1>2
<1>. QED
    BY <1>2, <1>3 DEF u

(* When a text begins with an empty line.                                  *)
LEMMA BlankPrefix ==
    ASSUME NEW s \in Texts
    PROVE  IsPrefix(<<"cr", "nl">>, s) <=> Len(s) >= 2 /\ s[1] = "cr" /\ s[2] = "nl"
<1> DEFINE p == <<"cr", "nl">>
<1>1. Len(p) = 2 /\ p[1] = "cr" /\ p[2] = "nl"
    OBVIOUS
<1>2. SubSeq(p, 1, 2) = p
    <2>1. p \in Seq({"cr", "nl"}) /\ p = <<p[1], p[2]>>
        OBVIOUS
    <2>. HIDE DEF p
    <2>. QED
        BY <1>1, <2>1, FirstTwo
<1>3. IsPrefix(p, s) <=> 2 <= Len(s) /\ p = SubSeq(s, 1, 2)
    BY <1>1, <1>2, Zenon DEF IsPrefix
<1>4. s \in Seq(Symbol) /\ Len(s) \in Nat
    BY DEF Texts
<1>5. Len(s) >= 2 => SubSeq(s, 1, 2) = <<s[1], s[2]>>
    BY <1>4, FirstTwo
<1>. QED
    BY <1>3, <1>4, <1>5

(* Unfolded leaves every value that is not a Context beginning with an     *)
(* empty line.                                                             *)
LEMMA UnfoldNot ==
    ASSUME NEW k, NEW t \in Texts,
           k # Context \/ t[1] # "'" \/ t[2] # "cr" \/ t[3] # "nl"
    PROVE  Unfolded(k, t) = t
<1> SUFFICES ASSUME k = Context, Len(t) >= 3, SubSeq(t, 1, 3) = <<"'", "cr", "nl">>
             PROVE  FALSE
    BY DEF Unfolded
<1>1. t \in Seq(Symbol)
    BY DEF Texts
<1>2. <<t[1], t[2], t[3]>> = <<"'", "cr", "nl">>
    BY <1>1, FirstThree
<1>3. t[1] = "'" /\ t[2] = "cr" /\ t[3] = "nl"
    BY <1>2
<1>. QED
    BY <1>3

(* Unfolded takes the empty line a Context begins with.                    *)
LEMMA UnfoldFront ==
    ASSUME NEW z \in Texts
    PROVE  LET t == <<"'">> ++ (<<"cr">> ++ (<<"nl">> ++ z))
           IN Unfolded(Context, t) = <<"'">> ++ z
<1> DEFINE t == <<"'">> ++ (<<"cr">> ++ (<<"nl">> ++ z))
<1>0. "'" \in Symbol /\ "cr" \in Symbol /\ "nl" \in Symbol
    BY SignTexts DEF Signs
<1>1. /\ z \in Seq(Symbol) /\ t \in Seq(Symbol) /\ Len(t) = Len(z) + 3 /\ Len(z) \in Nat
      /\ t[1] = "'" /\ t[2] = "cr" /\ t[3] = "nl"
      /\ \A i \in 1 .. Len(z) : t[i + 3] = z[i]
    <2>. DEFINE n == <<"nl">> ++ z  c == <<"cr">> ++ n
    <2>1. n \in Texts /\ n[1] = "nl" /\ Len(n) = 1 + Len(z) /\ Len(z) \in Nat
          /\ \A i \in 1 .. Len(z) : n[i + 1] = z[i]
        BY <1>0, FrontOf, TextsFacts
    <2>. HIDE DEF n
    <2>2. c \in Texts /\ c[1] = "cr" /\ Len(c) = 1 + Len(n) /\ \A i \in 1 .. Len(n) : c[i + 1] = n[i]
        BY <1>0, <2>1, FrontOf, TextsFacts
    <2>. HIDE DEF c
    <2>3. t = <<"'">> ++ c
        BY DEF c, n
    <2>. HIDE DEF t
    <2>4. t \in Texts /\ t[1] = "'" /\ Len(t) = 1 + Len(c) /\ \A i \in 1 .. Len(c) : t[i + 1] = c[i]
        <3>. DEFINE u == <<"'">> ++ c
        <3>1. u \in Texts
            BY <1>0, <2>2, TextsFacts
        <3>2. u[1] = "'" /\ Len(u) = 1 + Len(c) /\ \A i \in 1 .. Len(c) : u[i + 1] = c[i]
            BY <1>0, <2>2, FrontOf
        <3>. HIDE DEF u
        <3>3. t = u
            BY <2>3 DEF u
        <3>. QED
            BY <3>1, <3>2, <3>3
    <2>5. t[1 + 1] = c[1] /\ t[2 + 1] = c[2] /\ c[1 + 1] = n[1] /\ Len(t) = Len(z) + 3
        BY <2>1, <2>2, <2>4
    <2>6. ASSUME NEW i \in 1 .. Len(z) PROVE t[i + 3] = z[i]
        <3>1. i + 1 \in 1 .. Len(n) /\ i + 2 \in 1 .. Len(c) /\ i + 2 = (i + 1) + 1 /\ i + 3 = (i + 2) + 1
            BY <2>1, <2>2
        <3>. QED
            BY <2>1, <2>2, <2>4, <3>1
    <2>7. z \in Seq(Symbol) /\ t \in Seq(Symbol)
        BY <2>4 DEF Texts
    <2>. QED
        BY <2>1, <2>2, <2>4, <2>5, <2>6, <2>7
<1>. HIDE DEF t
<1>2. SubSeq(t, 1, 3) = <<"'", "cr", "nl">>
    BY <1>1, FirstThree
<1>3. SubSeq(t, 4, Len(t)) = z
    <2>. DEFINE u == SubSeq(t, 4, Len(t))
    <2>1. u \in Seq(Symbol) /\ Len(u) = Len(z) /\ \A i \in 1 .. Len(u) : u[i] = t[3 + i]
        BY <1>1
    <2>2. \A i \in 1 .. Len(u) : u[i] = z[i]
        BY <1>1, <2>1
    <2>. HIDE DEF u
    <2>3. u = z
        BY <1>1, <2>1, <2>2, SeqEqual
    <2>. QED
        BY <2>3 DEF u
<1>4. Len(t) >= 3
    BY <1>1
<1>5. Unfolded(Context, t) = <<"'">> \o z
    BY <1>1, <1>2, <1>3, <1>4, Zenon DEF Unfolded
<1>. QED
    BY <1>5 DEF t, ++

\* A value that begins with an empty line.
Blank(v) == v.quote = "'" /\ IsPrefix(<<"cr", "nl">>, v.chars)

(* A quoted value begins with an empty line, or one of its first three     *)
(* symbols tells that it does not.                                         *)
LEMMA BlankFacts ==
    ASSUME NEW v, Quoted(v)
    PROVE  \/ /\ Blank(v)
              /\ SubSeq(v.chars, 3, Len(v.chars)) \in Texts
              /\ v.chars = <<"cr">> ++ (<<"nl">> ++ SubSeq(v.chars, 3, Len(v.chars)))
           \/ /\ ~Blank(v)
              /\ \A w \in Texts :
                    LET t == <<v.quote>> ++ (Doubled(v.chars, v.quote) ++ (<<v.quote>> ++ w))
                    IN t \in Texts /\ (t[1] # "'" \/ t[2] # "cr" \/ t[3] # "nl")
<1> DEFINE q == v.quote  s == v.chars
<1>0. /\ q \in {"'", "dq"} /\ q \in Symbol /\ s \in Texts /\ <<q>> \in Texts
      /\ "cr" \in Symbol /\ "nl" \in Symbol
    BY SignTexts DEF Quoted, Signs
<1>1. CASE Blank(v)
    <2>1. s \in Seq(Symbol) /\ Len(s) \in Nat
        BY <1>0 DEF Texts
    <2>2. Len(s) >= 2 /\ s[1] = "cr" /\ s[2] = "nl"
        BY <1>0, <1>1, BlankPrefix DEF Blank
    <2>. DEFINE u == SubSeq(s, 3, Len(s))
    <2>3. u \in Seq(Symbol) /\ Len(u) = Len(s) - 2 /\ \A i \in 1 .. Len(u) : u[i] = s[i + 2]
        BY <2>1, <2>2
    <2>. HIDE DEF u, s
    <2>4. s = <<"cr">> ++ (<<"nl">> ++ u)
        <3>. DEFINE x == <<"cr">> ++ (<<"nl">> ++ u)
        <3>1. /\ x \in Seq(Symbol) /\ Len(x) = Len(u) + 2 /\ x[1] = "cr" /\ x[2] = "nl"
              /\ \A i \in 1 .. Len(u) : x[i + 2] = u[i]
            BY <1>0, <2>3 DEF ++
        <3>. HIDE DEF x
        <3>2. Len(s) = Len(x) /\ Len(s) \in Nat
            BY <2>1, <2>2, <2>3, <3>1
        <3>3. ASSUME NEW i \in 1 .. Len(s) PROVE s[i] = x[i]
            <4>1. CASE i = 1 \/ i = 2
                BY <2>2, <3>1, <4>1
            <4>2. CASE i > 2
                <5>1. i - 2 \in 1 .. Len(u) /\ i = (i - 2) + 2
                    BY <2>1, <2>3, <3>2, <4>2
                <5>. QED
                    BY <2>3, <3>1, <5>1
            <4>. QED
                BY <3>2, <4>1, <4>2
        <3>4. s = x
            BY <2>1, <3>1, <3>2, <3>3, SeqEqual
        <3>. QED
            BY <3>4 DEF x
    <2>. QED
        BY <1>1, <2>3, <2>4 DEF Texts, u, s
<1>2. CASE ~Blank(v)
    <2> SUFFICES ASSUME NEW w \in Texts
                 PROVE  LET t == <<q>> ++ (Doubled(s, q) ++ (<<q>> ++ w))
                        IN t \in Texts /\ (t[1] # "'" \/ t[2] # "cr" \/ t[3] # "nl")
        BY <1>2
    <2>. DEFINE e == <<q>> ++ w  t == <<q>> ++ (Doubled(s, q) ++ e)
    <2>. HIDE DEF q, s
    <2>1. e \in Texts /\ e[1] = q /\ Len(e) >= 1
        BY <1>0, TextsFacts, FrontOf
    <2>. HIDE DEF e
    <2>2. Doubled(s, q) \in Texts /\ Doubled(s, q) ++ e \in Texts /\ t \in Texts
        BY <1>0, <2>1, DoubledFacts, TextsFacts
    <2>3. t[1] = q
        BY <1>0, <2>2, FrontOf
    <2>4. ASSUME NEW c \in Symbol, NEW y \in Texts, Doubled(s, q) ++ e = <<c>> ++ y
          PROVE  t[2] = c /\ (Len(y) >= 1 => t[3] = y[1])
        <3>. DEFINE z == <<c>> ++ y
        <3>1. z \in Texts /\ z[1] = c /\ Len(z) = 1 + Len(y) /\ Len(y) \in Nat
              /\ \A i \in 1 .. Len(y) : z[i + 1] = y[i]
            BY FrontOf, TextsFacts
        <3>. HIDE DEF z
        <3>2. t = <<q>> ++ z
            BY <2>4 DEF z
        <3>3. \A i \in 1 .. Len(z) : t[i + 1] = z[i]
            BY <1>0, <3>1, <3>2, FrontOf
        <3>4. t[1 + 1] = z[1] /\ (Len(y) >= 1 => t[2 + 1] = z[2] /\ z[1 + 1] = y[1])
            BY <3>1, <3>3
        <3>. QED
            BY <3>1, <3>4
    <2>5. CASE s = <<>>
        <3>1. t = <<q>> ++ e
            BY <1>0, <2>1, <2>5, DoubledFacts, TextsFacts
        <3>2. t[1 + 1] = e[1]
            BY <1>0, <2>1, <3>1, FrontOf
        <3>. QED
            BY <1>0, <2>1, <2>2, <3>2 DEF e
    <2>6. CASE s # <<>>
        <3>1. PICK c \in Symbol, y \in Texts : s = <<c>> ++ y
            BY <1>0, <2>6, TextsFirst, Zenon
        <3>. DEFINE d == Doubled(y, q)
        <3>2. d \in Texts /\ Doubled(s, q) = (IF c = q THEN <<q, q>> ELSE <<c>>) ++ d /\ d ++ e \in Texts
            <4>1. d \in Texts
                BY <1>0, DoubledFacts, Zenon
            <4>2. Doubled(<<c>> ++ y, q) = (IF c = q THEN <<q, q>> ELSE <<c>>) ++ d
                BY <1>0, DoubledFacts, Zenon
            <4>3. d ++ e \in Texts
                BY <2>1, <4>1, TextsFacts
            <4>. QED
                BY <3>1, <4>1, <4>2, <4>3
        <3>. HIDE DEF d
        <3>3. CASE c = q
            <4>1. Doubled(s, q) ++ e = <<q>> ++ ((<<q>> ++ d) ++ e)
                <5>. DEFINE x == <<q>>
                <5>1. <<q, q>> = x ++ x
                    BY DEF ++
                <5>. HIDE DEF x
                <5>2. (x ++ x) ++ d = x ++ (x ++ d) /\ x ++ d \in Texts
                    BY <1>0, <3>2, TextsFacts DEF x
                <5>3. (x ++ (x ++ d)) ++ e = x ++ ((x ++ d) ++ e)
                    BY <1>0, <2>1, <5>2, TextsFacts DEF x
                <5>. QED
                    BY <3>2, <3>3, <5>1, <5>2, <5>3 DEF x
            <4>2. (<<q>> ++ d) ++ e \in Texts
                BY <1>0, <2>1, <3>2, TextsFacts
            <4>3. t[2] = q
                BY <1>0, <2>4, <4>1, <4>2
            <4>. QED
                BY <1>0, <2>2, <4>3 DEF e
        <3>4. CASE c # q /\ c # "cr"
            <4>1. Doubled(s, q) ++ e = <<c>> ++ (d ++ e)
                <5>. DEFINE x == <<c>>
                <5>1. x \in Texts
                    BY TextsFacts
                <5>2. Doubled(s, q) = x ++ d
                    BY <3>2, <3>4
                <5>. HIDE DEF x
                <5>3. (x ++ d) ++ e = x ++ (d ++ e)
                    BY <2>1, <3>2, <5>1, TextsFacts
                <5>. QED
                    BY <5>2, <5>3 DEF x
            <4>2. t[2] = c
                BY <2>4, <3>2, <4>1
            <4>. QED
                BY <2>2, <3>4, <4>2 DEF e
        <3>5. CASE c # q /\ c = "cr"
            <4>1. Doubled(s, q) ++ e = <<c>> ++ (d ++ e)
                <5>. DEFINE x == <<c>>
                <5>1. x \in Texts
                    BY TextsFacts
                <5>2. Doubled(s, q) = x ++ d
                    BY <3>2, <3>5
                <5>. HIDE DEF x
                <5>3. (x ++ d) ++ e = x ++ (d ++ e)
                    BY <2>1, <3>2, <5>1, TextsFacts
                <5>. QED
                    BY <5>2, <5>3 DEF x
            <4>2. Len(d ++ e) >= 1 => t[3] = (d ++ e)[1]
                BY <2>4, <3>2, <4>1
            <4>3. CASE y = <<>>
                <5>1. d = <<>> /\ d ++ e = e
                    BY <1>0, <2>1, <4>3, DoubledFacts, TextsFacts DEF d
                <5>2. t[3] = q /\ q # "nl"
                    BY <1>0, <2>1, <4>2, <5>1
                <5>. QED
                    BY <2>2, <5>2 DEF e
            <4>4. CASE y # <<>>
                <5>1. PICK b \in Symbol, x \in Texts : y = <<b>> ++ x
                    BY <4>4, TextsFirst, Zenon
                <5>. DEFINE g == Doubled(x, q)
                <5>2. g \in Texts /\ d = (IF b = q THEN <<q, q>> ELSE <<b>>) ++ g
                    BY <1>0, <5>1, DoubledFacts DEF d
                <5>. HIDE DEF g
                <5>3. Len(d ++ e) >= 1 /\ (d ++ e)[1] = b
                    BY <1>0, <2>1, <5>2 DEF ++, Texts
                <5>4. t[3] = b
                    BY <4>2, <5>3
                <5>5. b = "nl" => q # "'"
                    <6> SUFFICES ASSUME b = "nl", q = "'" PROVE FALSE
                        OBVIOUS
                    <6>1. s = <<"cr">> ++ (<<"nl">> ++ x)
                        BY <3>1, <3>5, <5>1
                    <6>2. Len(s) >= 2 /\ s[1] = "cr" /\ s[2] = "nl"
                        BY <1>0, <6>1 DEF ++, Texts
                    <6>3. IsPrefix(<<"cr", "nl">>, s)
                        BY <1>0, <6>2, BlankPrefix
                    <6>. QED
                        BY <1>2, <6>3 DEF Blank, q, s
                <5>. QED
                    BY <2>2, <2>3, <5>4, <5>5 DEF e
            <4>. QED
                BY <4>3, <4>4
        <3>. QED
            BY <3>3, <3>4, <3>5
    <2>. QED
        BY <2>5, <2>6
<1>. QED
    BY <1>1, <1>2

(* EndValue keeps a bare value as it was written.                          *)
LEMMA ShownPlain ==
    ASSUME NEW p \in Property, p[2].quote = "none"
    PROVE  Trimmed(Unfolded(p[1], ValueText(p[2]))) = Shown(p)
<1> DEFINE t == ValueText(p[2])
<1>1. t \in Seq(Bare) /\ t \in Texts
    BY PropertyFacts, LogValueFacts DEF Quoted
<1>2. Shown(p) = t
    BY DEF Shown
<1>. HIDE DEF t
<1>3. "'" \notin Bare /\ "cr" \notin Bare
    BY DEF Bare
<1>4. Unfolded(p[1], t) = t
    <2>1. CASE Len(t) >= 3
        <3>1. t[1] \in Bare
            BY <1>1, <2>1
        <3>. QED
            BY <1>1, <1>3, <3>1, UnfoldNot
    <2>2. CASE ~(Len(t) >= 3)
        BY <2>2 DEF Unfolded
    <2>. QED
        BY <2>1, <2>2
<1>5. Trimmed(t) = t
    <2>1. t # <<>> => t[Len(t)] \in Bare
        BY <1>1
    <2>. QED
        BY <1>3, <2>1 DEF Trimmed
<1>. QED
    BY <1>2, <1>4, <1>5 DEF t

(* EndValue keeps a quoted value as ParsedLog says, with the carriage      *)
(* return that ends the record or without.                                 *)
LEMMA ShownQuoted ==
    ASSUME NEW p \in Property, Quoted(p[2])
    PROVE  /\ Trimmed(Unfolded(p[1], ValueText(p[2]))) = Shown(p)
           /\ Trimmed(Unfolded(p[1], ValueText(p[2]) ++ <<"cr">>)) = Shown(p)
<1> DEFINE v == p[2]  q == v.quote  k == p[1]
<1>0. q \in {"'", "dq"} /\ q \in Symbol /\ v.chars \in Texts /\ <<q>> \in Texts /\ <<"cr">> \in Texts
    BY SignTexts DEF Quoted, Signs
<1>1. ValueText(v) = <<q>> ++ (Doubled(v.chars, q) ++ <<q>>)
    BY <1>0, PropertyFacts, LogValueFacts
<1>2. CASE Blank(v) /\ k = Context
    <2> DEFINE s == SubSeq(v.chars, 3, Len(v.chars))  d == Doubled(s, q)  u == <<q>> ++ (d ++ <<q>>)
               w == [v EXCEPT !.chars = SubSeq(@, 3, Len(@))]
    <2>1. q = "'" /\ s \in Texts /\ v.chars = <<"cr">> ++ (<<"nl">> ++ s)
        BY <1>2, BlankFacts DEF Blank
    <2>2. v \in LogValue
        BY PropertyFacts
    <2>3. w.quote = q /\ w.chars = s
        BY <2>2 DEF LogValue
    <2>4. Shown(p) = ValueText(w)
        BY <1>2 DEF Shown, Blank
    <2>5. ValueText(w) = (<<q>> ++ d) ++ <<q>>
        <3>. HIDE DEF w, s
        <3>. QED
            BY <1>0, <2>3 DEF ValueText, ++
    <2>. HIDE DEF w, s
    <2>6. d \in Texts
        BY <1>0, <2>1, DoubledFacts, Zenon
    <2>7. Doubled(v.chars, q) = <<"cr">> ++ (<<"nl">> ++ d)
        <3>1. "cr" \in Symbol /\ "nl" \in Symbol /\ <<"nl">> ++ s \in Texts /\ q # "cr" /\ q # "nl"
            BY <1>0, <2>1, SignTexts, TextsFacts DEF Signs
        <3>2. Doubled(<<"nl">> ++ s, q) = (IF "nl" = q THEN <<q, q>> ELSE <<"nl">>) ++ d
            BY <1>0, <2>1, <3>1, DoubledFacts, ZenonT(40)
        <3>3. Doubled(<<"cr">> ++ (<<"nl">> ++ s), q)
                  = (IF "cr" = q THEN <<q, q>> ELSE <<"cr">>) ++ Doubled(<<"nl">> ++ s, q)
            BY <1>0, <3>1, DoubledFacts, Zenon
        <3>. QED
            BY <2>1, <3>1, <3>2, <3>3
    <2>. HIDE DEF d
    <2>8. Unfolded(k, ValueText(v)) = u
        <3>1. ValueText(v) = <<"'">> ++ (<<"cr">> ++ (<<"nl">> ++ (d ++ <<q>>))) /\ d ++ <<q>> \in Texts
            <4> DEFINE x == <<q>>  c == <<"cr">>  n == <<"nl">>
            <4>1. c \in Texts /\ n \in Texts /\ x \in Texts
                BY <1>0, SignTexts DEF Signs
            <4>. HIDE DEF x, c, n
            <4>2. (c ++ (n ++ d)) ++ x = c ++ ((n ++ d) ++ x) /\ (n ++ d) ++ x = n ++ (d ++ x) /\ d ++ x \in Texts
                <5>1. n ++ d \in Texts
                    BY <2>6, <4>1, TextsFacts
                <5>. QED
                    BY <2>6, <4>1, <5>1, TextsFacts
            <4>. QED
                BY <1>1, <2>1, <2>7, <4>2 DEF x, c, n
        <3>. QED
            BY <1>2, <2>1, <3>1, UnfoldFront
    <2>9. Unfolded(k, ValueText(v) ++ <<"cr">>) = u ++ <<"cr">>
        <3> DEFINE x == <<q>>  c == <<"cr">>  n == <<"nl">>  z == (d ++ x) ++ c
        <3>1. c \in Texts /\ n \in Texts /\ x \in Texts
            BY <1>0, SignTexts DEF Signs
        <3>2. ValueText(v) = x ++ ((c ++ (n ++ d)) ++ x) /\ u = x ++ (d ++ x)
            BY <1>1, <2>7
        <3>. HIDE DEF x, c, n
        <3>3. d ++ x \in Texts /\ n ++ d \in Texts
            BY <2>6, <3>1, TextsFacts
        <3>4. (c ++ (n ++ d)) ++ x = c ++ (n ++ (d ++ x))
            BY <2>6, <3>1, <3>3, TextsFacts
        <3>5. n ++ (d ++ x) \in Texts
            BY <3>1, <3>3, TextsFacts
        <3>6. c ++ (n ++ (d ++ x)) \in Texts
            BY <3>1, <3>5, TextsFacts
        <3>7. (x ++ (c ++ (n ++ (d ++ x)))) ++ c = x ++ ((c ++ (n ++ (d ++ x))) ++ c)
            BY <3>1, <3>6, TextsFacts
        <3>8. (c ++ (n ++ (d ++ x))) ++ c = c ++ ((n ++ (d ++ x)) ++ c)
            BY <3>1, <3>5, TextsFacts
        <3>9. (n ++ (d ++ x)) ++ c = n ++ z
            BY <3>1, <3>3, TextsFacts
        <3>10. z \in Texts /\ (x ++ (d ++ x)) ++ c = x ++ z
            BY <3>1, <3>3, TextsFacts
        <3>11. ValueText(v) ++ c = x ++ (c ++ (n ++ z))
            BY <3>2, <3>4, <3>7, <3>8, <3>9
        <3>. HIDE DEF z
        <3>12. Unfolded(Context, x ++ (c ++ (n ++ z))) = x ++ z
            BY <2>1, <3>10, UnfoldFront DEF x, c, n
        <3>. QED
            BY <1>2, <3>2, <3>10, <3>11, <3>12 DEF c
    <2>10. Trimmed(u) = u /\ Trimmed(u ++ <<"cr">>) = u /\ u \in Texts
        BY <1>0, <2>6, TrimQuoted
    <2>11. Shown(p) = u
        <3> DEFINE x == <<q>>
        <3>1. x \in Texts
            BY <1>0
        <3>. HIDE DEF x
        <3>2. (x ++ d) ++ x = x ++ (d ++ x)
            BY <2>6, <3>1, TextsFacts
        <3>. QED
            BY <2>4, <2>5, <3>2 DEF x, d
    <2>. QED
        BY <2>8, <2>9, <2>10, <2>11
<1>3. CASE ~(Blank(v) /\ k = Context)
    <2> DEFINE d == Doubled(v.chars, q)  u == <<q>> ++ (d ++ <<q>>)
    <2>1. d \in Texts
        BY <1>0, DoubledFacts, Zenon
    <2>2. Shown(p) = u
        <3>1. Shown(p) = ValueText(v)
            BY <1>3 DEF Shown, Blank
        <3>. QED
            BY <1>1, <3>1
    <2>3. ASSUME NEW w \in Texts
          PROVE  LET t == <<q>> ++ (d ++ (<<q>> ++ w)) IN t \in Texts /\ Unfolded(k, t) = t
        <3> DEFINE t == <<q>> ++ (d ++ (<<q>> ++ w))
        <3>1. t \in Texts
            <4>1. <<q>> ++ w \in Texts
                BY <1>0, TextsFacts
            <4>2. d ++ (<<q>> ++ w) \in Texts
                BY <2>1, <4>1, TextsFacts
            <4>. QED
                BY <1>0, <4>2, TextsFacts
        <3>2. k # Context \/ t[1] # "'" \/ t[2] # "cr" \/ t[3] # "nl"
            <4>1. CASE k # Context
                BY <4>1
            <4>2. CASE ~Blank(v)
                BY <4>2, BlankFacts, Zenon
            <4>. QED
                BY <1>3, <4>1, <4>2
        <3>. HIDE DEF t
        <3>3. Unfolded(k, t) = t
            BY <3>1, <3>2, UnfoldNot
        <3>. QED
            BY <3>1, <3>3 DEF t
    <2>. HIDE DEF d
    <2>4. Unfolded(k, u) = u
        <3>1. <<q>> ++ <<>> = <<q>> /\ <<>> \in Texts
            BY <1>0, TextsFacts
        <3>. QED
            BY <2>3, <3>1
    <2>5. Unfolded(k, u ++ <<"cr">>) = u ++ <<"cr">>
        <3> DEFINE x == <<q>>  c == <<"cr">>
        <3>1. x \in Texts /\ c \in Texts
            BY <1>0
        <3>2. Unfolded(k, x ++ (d ++ (x ++ c))) = x ++ (d ++ (x ++ c))
            BY <2>3, <3>1
        <3>. HIDE DEF x, c
        <3>3. d ++ x \in Texts
            BY <2>1, <3>1, TextsFacts
        <3>4. (x ++ (d ++ x)) ++ c = x ++ ((d ++ x) ++ c) /\ (d ++ x) ++ c = d ++ (x ++ c)
            BY <2>1, <3>1, <3>3, TextsFacts
        <3>. QED
            BY <3>2, <3>4 DEF x, c
    <2>6. Trimmed(u) = u /\ Trimmed(u ++ <<"cr">>) = u
        BY <1>0, <2>1, TrimQuoted
    <2>7. ValueText(v) = u
        BY <1>1 DEF d
    <2>. QED
        BY <2>2, <2>4, <2>5, <2>6, <2>7
<1>. QED
    BY <1>2, <1>3

-----------------------------------------------------------------------------
(* How far an event has come: what is still to be read, left, and what has *)
(* been collected of record r, when handler f has just run.                *)

Complete(tx, r) == \A f \in Fields : tx[f] = r[f]

ShownList(ps) == [i \in DOMAIN ps |-> <<ps[i][1], Shown(ps[i])>>]

InField(n, left, tx, r, later) ==
    \E x \in Texts : /\ r[FieldOf[n]] = tx[FieldOf[n]] ++ x
                     /\ left = x ++ After(n, r, later)

OtherFields(n, tx, r) ==
    \A i \in 1 .. 6 : /\ i < n => tx[FieldOf[i]] = r[FieldOf[i]]
                      /\ i > n => tx[FieldOf[i]] = <<>>

NoProperty(tx) == tx["key"] = <<>> /\ tx["value"] = <<>>

AtField(n, left, tx, r, later) ==
    InField(n, left, tx, r, later) /\ OtherFields(n, tx, r) /\ NoProperty(tx)

AtKey(left, tx, p, ps, later) ==
    /\ \E x \in Texts :
          /\ p[1] = tx["key"] ++ x
          /\ left = x ++ (<<"=">> ++ (ValueText(p[2]) ++ FromProperties(ps, later)))
    /\ tx["value"] = <<>>

\* Part of the value is collected and the rest, x, to be read.
InValue(x, left, tx, p, ps, later) ==
    /\ ValueText(p[2]) = tx["value"] ++ x
    /\ left = x ++ FromProperties(ps, later)

\* The carriage return before the new line that ends the event is read.
AfterReturn(left, ps, later) == ps = <<>> /\ left = <<"nl">> ++ LogText(later)

AtValue(left, tx, p, ps, later) ==
    /\ tx["key"] = p[1]
    /\ \/ /\ p[2].quote = "none" \/ tx["value"] = <<>>
          /\ \E x \in Texts : InValue(x, left, tx, p, ps, later)
       \/ /\ p[2].quote = "none" /\ tx["value"] = ValueText(p[2])
          /\ AfterReturn(left, ps, later)

\* Inside the quotes; between the two of a doubled one; after the last.
AtMvalue(left, tx, qs, p, ps, later) ==
    /\ tx["key"] = p[1] /\ Quoted(p[2])
    /\ LET q == p[2].quote
       IN \/ /\ qs = <<q>>
             /\ \E rem \in Texts :
                   InValue(Doubled(rem, q) ++ <<q>>, left, tx, p, ps, later)
          \/ /\ qs = <<>>
             /\ \E rem \in Texts :
                   InValue(<<q>> ++ (Doubled(rem, q) ++ <<q>>), left, tx, p, ps, later)
          \/ qs = <<>> /\ InValue(<<>>, left, tx, p, ps, later)
          \/ /\ qs = <<>> /\ tx["value"] = ValueText(p[2]) ++ <<"cr">>
             /\ AfterReturn(left, ps, later)

AtEndValue(left, tx, ps, later) ==
    /\ tx["key"] = <<>> /\ tx["value"] = <<>>
    /\ left = IF ps = <<>> THEN <<"nl">> ++ LogText(later) ELSE FromProperties(ps, later)

-----------------------------------------------------------------------------
(* What a handler does to the texts. *)

Added(tx, f, c) == [tx EXCEPT ![f] = Append(@, c)]
Cleared(tx) == [tx EXCEPT !["key"] = <<>>, !["value"] = <<>>]

(* What has been collected of a field is a text.                           *)
LEMMA TextIsText ==
    ASSUME NEW tx \in Text, NEW f \in TextFields
    PROVE  tx[f] \in Texts
<1>1. tx[f] \in Seq(Char) /\ Char \subseteq Symbol
    BY DEF Text, TextFields, Symbol
<1>. QED
    BY <1>1, SubTexts

(* A handler that collects adds to its own field only.                     *)
LEMMA AddedFacts ==
    ASSUME NEW tx \in Text, NEW f \in TextFields, NEW c \in Symbol
    PROVE  /\ Added(tx, f, c)[f] = Append(tx[f], c)
           /\ \A g \in TextFields : g # f => Added(tx, f, c)[g] = tx[g]
    BY DEF Added, Text, TextFields

(* EndValue clears the key and the value, and leaves the fields.           *)
LEMMA ClearedFacts ==
    ASSUME NEW tx \in Text
    PROVE  /\ Cleared(tx)["key"] = <<>> /\ Cleared(tx)["value"] = <<>>
           /\ \A g \in Fields : Cleared(tx)[g] = tx[g]
    BY DEF Cleared, Text, Fields

(* The fields are six, each with a name of its own, and the key and the    *)
(* value are not among them.                                               *)
LEMMA FieldNames ==
    /\ \A n \in 1 .. 6 : FieldOf[n] \in Fields /\ FieldOf[n] \in TextFields
    /\ \A m, n \in 1 .. 6 : FieldOf[m] = FieldOf[n] => m = n
    /\ \A f \in Fields : \E n \in 1 .. 6 : f = FieldOf[n]
    /\ "key" \notin Fields /\ "value" \notin Fields /\ "key" \in TextFields /\ "value" \in TextFields
    /\ Fields \subseteq TextFields
<1>1. /\ FieldOf[1] = "minute" /\ FieldOf[2] = "second" /\ FieldOf[3] = "msecond"
      /\ FieldOf[4] = "duration" /\ FieldOf[5] = "name" /\ FieldOf[6] = "level"
    BY DEF FieldOf
<1>2. \A n \in 1 .. 6 : n = 1 \/ n = 2 \/ n = 3 \/ n = 4 \/ n = 5 \/ n = 6
    OBVIOUS
<1>3. 1 \in 1 .. 6 /\ 2 \in 1 .. 6 /\ 3 \in 1 .. 6 /\ 4 \in 1 .. 6 /\ 5 \in 1 .. 6 /\ 6 \in 1 .. 6
    OBVIOUS
<1>4. \A n \in 1 .. 6 : FieldOf[n] \in Fields
    BY <1>1, <1>2 DEF Fields
<1>5. \A f \in Fields : \E n \in 1 .. 6 : f = FieldOf[n]
    BY <1>1, <1>3 DEF Fields
<1>6. \A m, n \in 1 .. 6 : FieldOf[m] = FieldOf[n] => m = n
    BY <1>1, <1>2
<1>7. /\ "key" \notin Fields /\ "value" \notin Fields /\ "key" \in TextFields /\ "value" \in TextFields
      /\ Fields \subseteq TextFields
    BY DEF Fields, TextFields
<1>. QED
    BY <1>4, <1>5, <1>6, <1>7

(* The characters of each field.                                           *)
LEMMA FieldChars ==
    ASSUME NEW r \in LogRecord, NEW n \in 1 .. 6
    PROVE  r[FieldOf[n]] \in Seq(CharsOf(n)) /\ r[FieldOf[n]] \in Texts
<1>1. /\ FieldOf[1] = "minute" /\ FieldOf[2] = "second" /\ FieldOf[3] = "msecond"
      /\ FieldOf[4] = "duration" /\ FieldOf[5] = "name" /\ FieldOf[6] = "level"
    BY DEF FieldOf
<1>2. n = 1 \/ n = 2 \/ n = 3 \/ n = 4 \/ n = 5 \/ n = 6
    OBVIOUS
<1>3. r[FieldOf[n]] \in Seq(CharsOf(n))
    <2>1. CASE n = 5
        BY <1>1, <2>1, RecordTypes DEF CharsOf
    <2>2. CASE n # 5
        BY <1>1, <1>2, <2>2, RecordTypes DEF CharsOf
    <2>. QED
        BY <2>1, <2>2
<1>4. r[FieldOf[n]] \in Texts
    BY FieldNames, RecordTypes
<1>. QED
    BY <1>3, <1>4

(* After Start there is the first digit of a record, which Minute          *)
(* collects.                                                               *)
LEMMA StartNext ==
    ASSUME NEW later \in Records, NEW c \in Symbol, NEW y \in Texts,
           LogText(later) = <<c>> ++ y
    PROVE  /\ c \in Digits
           /\ \E r \in LogRecord, rest \in Records :
                 later = <<r>> ++ rest /\ AtField(1, y, Added(NoText, "minute", c), r, rest)
<1>1. later # <<>>
    BY LogFacts, NotEmpty
<1>2. PICK r \in LogRecord, rest \in Records : later = <<r>> ++ rest
    <2>1. later \in Seq(LogRecord)
        BY DEF Records
    <2>2. Head(later) \in LogRecord /\ Tail(later) \in Seq(LogRecord) /\ later = <<Head(later)>> ++ Tail(later)
        BY <1>1, <2>1, FirstOf
    <2>. QED
        BY <2>2, Zenon DEF Records
<1>3. <<c>> ++ y = r.minute ++ After(1, r, rest) /\ r.minute \in Texts
    BY <1>2, LogFirst
<1>4. After(1, r, rest) \in Texts
    BY AfterFacts
<1>5. r.minute # <<>> /\ r.minute \in Seq(Digits)
    BY RecordTypes
<1>6. PICK z \in Texts : r.minute = <<c>> ++ z /\ y = z ++ After(1, r, rest)
    BY <1>3, <1>4, <1>5, Taking
<1>7. c \in Digits
    <2>1. <<>> \in Texts /\ r.minute = <<>> ++ (<<c>> ++ z)
        BY <1>6, TextsFacts
    <2>. QED
        BY <1>5, <2>1, InsideChar
<1>. DEFINE tx == Added(NoText, "minute", c)
<1>8. /\ tx["minute"] = <<c>> /\ \A g \in TextFields : g # "minute" => tx[g] = <<>>
    BY DEF Added, NoText, TextFields, Fields
<1>. HIDE DEF tx
<1>9. FieldOf[1] = "minute"
    BY DEF FieldOf
<1>10. ASSUME NEW i \in 1 .. 6, i > 1 PROVE tx[FieldOf[i]] = <<>>
    BY <1>8, <1>9, <1>10, FieldNames
<1>11. tx["key"] = <<>> /\ tx["value"] = <<>>
    BY <1>8, FieldNames DEF Fields
<1>12. AtField(1, y, tx, r, rest)
    <2>1. \E x \in Texts : r[FieldOf[1]] = tx[FieldOf[1]] ++ x /\ y = x ++ After(1, r, rest)
        BY <1>6, <1>8, <1>9
    <2>2. \A i \in 1 .. 6 : (i < 1 => tx[FieldOf[i]] = r[FieldOf[i]]) /\ (i > 1 => tx[FieldOf[i]] = <<>>)
        BY <1>10
    <2>. QED
        BY <1>11, <2>1, <2>2 DEF AtField, InField, OtherFields, NoProperty
<1>. QED
    BY <1>2, <1>7, <1>12 DEF tx

(* In a field, the next character is one more of it, or the sign before    *)
(* the next field, or the comma before the first key.                      *)
LEMMA FieldNext ==
    ASSUME NEW n \in 1 .. 6, NEW c \in Symbol, NEW y \in Texts, NEW tx \in Text,
           NEW r \in LogRecord, NEW later \in Records,
           AtField(n, <<c>> ++ y, tx, r, later)
    PROVE  \/ /\ Lookup(HandlerOf[n], TypeChar(c, <<>>)) = HandlerOf[n] /\ c \notin Separators(n)
              /\ AtField(n, y, Added(tx, FieldOf[n], c), r, later)
           \/ /\ n < 6 /\ Lookup(HandlerOf[n], TypeChar(c, <<>>)) = HandlerOf[n + 1]
              /\ c \in Separators(n + 1)
              /\ AtField(n + 1, y, tx, r, later)
           \/ /\ n = 6 /\ Lookup(HandlerOf[n], TypeChar(c, <<>>)) = "Key" /\ c = ","
              /\ Complete(tx, r)
              /\ \E p \in Property, ps \in Seq(Property) :
                    r.properties = <<p>> ++ ps /\ AtKey(y, tx, p, ps, later)
<1>1. PICK x \in Texts : r[FieldOf[n]] = tx[FieldOf[n]] ++ x /\ <<c>> ++ y = x ++ After(n, r, later)
    BY DEF AtField, InField
<1>2. /\ \A i \in 1 .. 6 : /\ i < n => tx[FieldOf[i]] = r[FieldOf[i]]
                           /\ i > n => tx[FieldOf[i]] = <<>>
      /\ tx["key"] = <<>> /\ tx["value"] = <<>>
    <2>1. OtherFields(n, tx, r) /\ NoProperty(tx)
        BY Zenon DEF AtField
    <2>. QED
        BY <2>1 DEF OtherFields, NoProperty
<1>3. After(n, r, later) \in Texts
    BY AfterFacts
<1>4. tx[FieldOf[n]] \in Texts /\ FieldOf[n] \in TextFields
    BY FieldNames, TextIsText
<1>5. ASSUME NEW z \in Texts, x = <<c>> ++ z, y = z ++ After(n, r, later)
      PROVE  /\ Lookup(HandlerOf[n], TypeChar(c, <<>>)) = HandlerOf[n] /\ c \notin Separators(n)
             /\ AtField(n, y, Added(tx, FieldOf[n], c), r, later)
    <2>1. c \in CharsOf(n)
        <3>1. r[FieldOf[n]] = tx[FieldOf[n]] ++ (<<c>> ++ z)
            BY <1>1, <1>5
        <3>. DEFINE w == r[FieldOf[n]]  s == tx[FieldOf[n]]
        <3>2. w \in Seq(CharsOf(n)) /\ s \in Texts /\ w = s ++ (<<c>> ++ z)
            BY <1>4, <3>1, FieldChars
        <3>. HIDE DEF w, s
        <3>. QED
            BY <3>2, InsideChar
    <2>2. c \notin Separators(n)
        <3>1. CASE n = 5
            <4>1. Separators(n) = {","}
                BY <3>1 DEF Separators, SepOf
            <4>2. "," \notin Letters
                BY TypeOfSign DEF Letters
            <4>. QED
                BY <2>1, <3>1, <4>1, <4>2 DEF CharsOf
        <3>2. CASE n # 5
            <4>1. c \in Digits
                BY <2>1, <3>2 DEF CharsOf
            <4>2. \A i \in 1 .. 5 : SepOf[i] \in Signs
                <5>1. /\ SepOf[1] = ":" /\ SepOf[2] = "." /\ SepOf[3] = "-" /\ SepOf[4] = "," /\ SepOf[5] = ","
                    BY DEF SepOf
                <5>2. \A i \in 1 .. 5 : i = 1 \/ i = 2 \/ i = 3 \/ i = 4 \/ i = 5
                    OBVIOUS
                <5>. QED
                    BY <5>1, <5>2 DEF Signs
            <4>3. Digits \cap Signs = {}
                BY DEF Digits, Signs
            <4>4. n # 1 => n - 1 \in 1 .. 5
                OBVIOUS
            <4>5. n # 1 => SepOf[n - 1] \notin Digits
                BY <4>2, <4>3, <4>4
            <4>. QED
                BY <4>1, <4>5 DEF Separators
        <3>. QED
            BY <3>1, <3>2
    <2>. DEFINE t == Added(tx, FieldOf[n], c)
    <2>3. t[FieldOf[n]] = Append(tx[FieldOf[n]], c) /\ \A g \in TextFields : g # FieldOf[n] => t[g] = tx[g]
        BY <1>4, AddedFacts
    <2>. HIDE DEF t
    <2>4. r[FieldOf[n]] = t[FieldOf[n]] ++ z
        <3>. DEFINE s == tx[FieldOf[n]]
        <3>1. s \in Texts /\ r[FieldOf[n]] = s ++ (<<c>> ++ z) /\ t[FieldOf[n]] = Append(s, c)
            BY <1>1, <1>4, <1>5, <2>3
        <3>. HIDE DEF s
        <3>. QED
            BY <3>1, Appended
    <2>5. ASSUME NEW i \in 1 .. 6
          PROVE  /\ i < n => t[FieldOf[i]] = r[FieldOf[i]]
                 /\ i > n => t[FieldOf[i]] = <<>>
        <3>1. i # n => FieldOf[i] # FieldOf[n] /\ FieldOf[i] \in TextFields
            BY FieldNames
        <3>. QED
            BY <1>2, <2>3, <3>1
    <2>6. t["key"] = <<>> /\ t["value"] = <<>>
        <3>1. "key" # FieldOf[n] /\ "value" # FieldOf[n] /\ "key" \in TextFields /\ "value" \in TextFields
            BY FieldNames
        <3>. QED
            BY <1>2, <2>3, <3>1
    <2>7. AtField(n, y, t, r, later)
        BY <1>5, <2>4, <2>5, <2>6 DEF AtField, InField, OtherFields, NoProperty
    <2>. QED
        BY <2>1, <2>2, <2>7, LookupField DEF t
<1>6. ASSUME x = <<>>, <<c>> ++ y = After(n, r, later), n < 6
      PROVE  /\ n < 6 /\ Lookup(HandlerOf[n], TypeChar(c, <<>>)) = HandlerOf[n + 1]
             /\ c \in Separators(n + 1)
             /\ AtField(n + 1, y, tx, r, later)
    <2>0. n \in 1 .. 5 /\ n + 1 \in 1 .. 6 /\ n + 1 - 1 = n /\ n + 1 # 1
        BY <1>6
    <2>1. After(n, r, later) = <<SepOf[n]>> ++ (r[FieldOf[n + 1]] ++ After(n + 1, r, later))
        BY <2>0, AfterFacts
    <2>2. r[FieldOf[n + 1]] \in Texts /\ After(n + 1, r, later) \in Texts
        BY <2>0, AfterFacts, FieldChars
    <2>3. SepOf[n] \in Symbol
        <3>1. /\ SepOf[1] = ":" /\ SepOf[2] = "." /\ SepOf[3] = "-" /\ SepOf[4] = "," /\ SepOf[5] = ","
            BY DEF SepOf
        <3>2. \A i \in 1 .. 5 : i = 1 \/ i = 2 \/ i = 3 \/ i = 4 \/ i = 5
            OBVIOUS
        <3>. QED
            BY <2>0, <3>1, <3>2 DEF Symbol
    <2>4. c = SepOf[n] /\ y = r[FieldOf[n + 1]] ++ After(n + 1, r, later)
        <3>. DEFINE u == r[FieldOf[n + 1]] ++ After(n + 1, r, later)
        <3>1. u \in Texts
            BY <2>2, TextsFacts
        <3>2. <<c>> ++ y = <<SepOf[n]>> ++ u
            BY <1>6, <2>1
        <3>. HIDE DEF u
        <3>3. c = SepOf[n] /\ y = u
            BY <2>3, <3>1, <3>2, Heads
        <3>. QED
            BY <3>3 DEF u
    <2>5. c \in Separators(n + 1)
        BY <2>0, <2>4 DEF Separators
    <2>6. Lookup(HandlerOf[n], TypeChar(c, <<>>)) = HandlerOf[n + 1]
        BY <2>0, <2>4, LookupSeparator
    <2>7. tx[FieldOf[n]] = r[FieldOf[n]]
        BY <1>1, <1>4, <1>6, TextsFacts
    <2>8. \A i \in 1 .. 6 : /\ i < n + 1 => tx[FieldOf[i]] = r[FieldOf[i]]
                            /\ i > n + 1 => tx[FieldOf[i]] = <<>>
        <3> SUFFICES ASSUME NEW i \in 1 .. 6
                     PROVE  /\ i < n + 1 => tx[FieldOf[i]] = r[FieldOf[i]]
                            /\ i > n + 1 => tx[FieldOf[i]] = <<>>
            OBVIOUS
        <3>1. (i < n + 1 => i < n \/ i = n) /\ (i > n + 1 => i > n)
            OBVIOUS
        <3>. QED
            BY <1>2, <2>7, <3>1
    <2>9. r[FieldOf[n + 1]] = tx[FieldOf[n + 1]] ++ r[FieldOf[n + 1]]
        <3>1. tx[FieldOf[n + 1]] = <<>>
            BY <1>2, <2>0
        <3>. QED
            BY <2>2, <3>1, TextsFacts
    <2>10. AtField(n + 1, y, tx, r, later)
        <3>1. InField(n + 1, y, tx, r, later)
            BY <2>2, <2>4, <2>9 DEF InField
        <3>2. OtherFields(n + 1, tx, r)
            BY <2>8 DEF OtherFields
        <3>. QED
            BY <1>2, <3>1, <3>2 DEF AtField, NoProperty
    <2>. QED
        BY <1>6, <2>5, <2>6, <2>10
<1>7. ASSUME x = <<>>, <<c>> ++ y = After(n, r, later), n = 6
      PROVE  /\ n = 6 /\ Lookup(HandlerOf[n], TypeChar(c, <<>>)) = "Key" /\ c = ","
             /\ Complete(tx, r)
             /\ \E p \in Property, ps \in Seq(Property) :
                   r.properties = <<p>> ++ ps /\ AtKey(y, tx, p, ps, later)
    <2>1. <<c>> ++ y = FromProperties(r.properties, later)
        BY <1>7, AfterFacts
    <2>2. PICK p \in Property, ps \in Seq(Property) : r.properties = <<p>> ++ ps
        <3>1. r.properties \in Seq(Property) /\ r.properties # <<>>
            BY RecordTypes
        <3>. DEFINE q == r.properties
        <3>. HIDE DEF q
        <3>2. Head(q) \in Property /\ Tail(q) \in Seq(Property) /\ q = <<Head(q)>> ++ Tail(q)
            BY <3>1, FirstOf DEF q
        <3>. QED
            BY <3>2, Zenon DEF q
    <2>. DEFINE u == <<"=">> ++ (ValueText(p[2]) ++ FromProperties(ps, later))
    <2>3. <<c>> ++ y = <<",">> ++ (p[1] ++ u)
        BY <2>1, <2>2, FromPropertiesFacts
    <2>4. u \in Texts /\ p[1] \in Texts
        <3>1. ValueText(p[2]) \in Texts /\ FromProperties(ps, later) \in Texts /\ <<"=">> \in Texts /\ p[1] \in Texts
            BY PropertyFacts, FromPropertiesFacts, SignTexts DEF Signs
        <3>2. ValueText(p[2]) ++ FromProperties(ps, later) \in Texts
            BY <3>1, TextsFacts
        <3>. QED
            BY <3>1, <3>2, TextsFacts
    <2>. HIDE DEF u
    <2>5. c = "," /\ y = p[1] ++ u
        <3>1. p[1] ++ u \in Texts /\ "," \in Symbol
            BY <2>4, TextsFacts, SignTexts DEF Signs
        <3>. DEFINE w == p[1] ++ u  d == ","
        <3>2. w \in Texts /\ d \in Symbol /\ <<c>> ++ y = <<d>> ++ w
            BY <2>3, <3>1
        <3>. HIDE DEF w, d
        <3>3. c = d /\ y = w
            BY <3>2, Heads
        <3>. QED
            BY <3>3 DEF w, d
    <2>6. Lookup(HandlerOf[n], TypeChar(c, <<>>)) = "Key"
        BY <1>7, <2>5, LookupSeparator DEF HandlerOf
    <2>7. tx[FieldOf[n]] = r[FieldOf[n]]
        BY <1>1, <1>4, <1>7, TextsFacts
    <2>8. Complete(tx, r)
        <3>1. \A i \in 1 .. 6 : tx[FieldOf[i]] = r[FieldOf[i]]
            <4>1. \A i \in 1 .. 6 : i < n \/ i = n
                BY <1>7
            <4>. QED
                BY <1>2, <2>7, <4>1
        <3>. QED
            BY <3>1, FieldNames DEF Complete
    <2>9. AtKey(y, tx, p, ps, later)
        <3>1. p[1] = tx["key"] ++ p[1]
            BY <1>2, <2>4, TextsFacts
        <3>. QED
            BY <1>2, <2>4, <2>5, <3>1 DEF AtKey, u
    <2>. QED
        BY <1>7, <2>2, <2>5, <2>6, <2>8, <2>9
<1>8. \/ x = <<>> /\ <<c>> ++ y = After(n, r, later)
      \/ \E z \in Texts : x = <<c>> ++ z /\ y = z ++ After(n, r, later)
    BY <1>1, <1>3, Taking
<1>9. n < 6 \/ n = 6
    OBVIOUS
<1>. QED
    BY <1>5, <1>6, <1>7, <1>8, <1>9

\* The comma before a property is read.
KeyFollows(left, ps, later) ==
    \E p \in Property, qs \in Seq(Property) :
        /\ ps = <<p>> ++ qs
        /\ left = p[1] ++ (<<"=">> ++ (ValueText(p[2]) ++ FromProperties(qs, later)))

(* After a value there is a carriage return, when the record ends, or a    *)
(* comma and a key.                                                        *)
LEMMA FromFront ==
    ASSUME NEW c \in Symbol, NEW y \in Texts, NEW ps \in Seq(Property), NEW later \in Records,
           <<c>> ++ y = FromProperties(ps, later)
    PROVE  \/ ps = <<>> /\ c = "cr" /\ AfterReturn(y, ps, later)
           \/ ps # <<>> /\ c = "," /\ KeyFollows(y, ps, later)
<1>1. CASE ps = <<>>
    <2> DEFINE w == <<"nl">> ++ LogText(later)  d == "cr"
    <2>1. w \in Texts /\ d \in Symbol /\ <<c>> ++ y = <<d>> ++ w
        BY <1>1, FromPropertiesFacts, EndTextFacts, SignTexts DEF EndText, Signs
    <2>. HIDE DEF w, d
    <2>2. c = d /\ y = w
        BY <2>1, Heads
    <2>. QED
        BY <1>1, <2>2 DEF w, d, AfterReturn
<1>2. CASE ps # <<>>
    <2>1. Head(ps) \in Property /\ Tail(ps) \in Seq(Property) /\ ps = <<Head(ps)>> ++ Tail(ps)
        BY <1>2, FirstOf
    <2>2. PICK p \in Property, qs \in Seq(Property) : ps = <<p>> ++ qs
        BY <2>1, Zenon
    <2> DEFINE u == <<"=">> ++ (ValueText(p[2]) ++ FromProperties(qs, later))
               w == p[1] ++ u  d == ","
    <2>3. <<c>> ++ y = <<d>> ++ w
        BY <2>2, FromPropertiesFacts
    <2>4. ValueText(p[2]) ++ FromProperties(qs, later) \in Texts
        BY PropertyFacts, FromPropertiesFacts, TextsFacts
    <2>5. u \in Texts
        BY <2>4, TextsFacts, SignTexts DEF Signs
    <2>. HIDE DEF u
    <2>6. w \in Texts /\ d \in Symbol
        BY <2>5, PropertyFacts, TextsFacts, SignTexts DEF Signs
    <2>. HIDE DEF w, d
    <2>7. c = d /\ y = w
        BY <2>3, <2>6, Heads
    <2>. QED
        BY <1>2, <2>2, <2>7 DEF u, w, d, KeyFollows
<1>. QED
    BY <1>1, <1>2

(* In a key, the next character is one more of it, or the equals sign.     *)
LEMMA KeyNext ==
    ASSUME NEW c \in Symbol, NEW y \in Texts, NEW tx \in Text,
           NEW p \in Property, NEW ps \in Seq(Property), NEW later \in Records,
           AtKey(<<c>> ++ y, tx, p, ps, later)
    PROVE  \/ /\ Lookup("Key", TypeChar(c, <<>>)) = "Key" /\ c # ","
              /\ AtKey(y, Added(tx, "key", c), p, ps, later)
           \/ /\ Lookup("Key", TypeChar(c, <<>>)) = "Value" /\ c = "="
              /\ AtValue(y, tx, p, ps, later)
<1> DEFINE v == ValueText(p[2]) ++ FromProperties(ps, later)
           u == <<"=">> ++ v
           k == tx["key"]
<1>1. v \in Texts
    BY PropertyFacts, FromPropertiesFacts, TextsFacts
<1>2. u \in Texts /\ "=" \in Symbol
    BY <1>1, TextsFacts, SignTexts DEF Signs
<1>3. k \in Texts /\ p[1] \in Texts /\ p[1] \in LogKey
    BY FieldNames, TextIsText, PropertyFacts
<1>4. tx["value"] = <<>>
    BY DEF AtKey
<1>5. PICK x \in Texts : p[1] = k ++ x /\ <<c>> ++ y = x ++ u
    BY DEF AtKey
<1>6. CASE x = <<>> /\ <<c>> ++ y = u
    <2> DEFINE d == "="
    <2>1. d \in Symbol /\ <<c>> ++ y = <<d>> ++ v
        BY <1>2, <1>6
    <2>. HIDE DEF v, u, d
    <2>2. c = d /\ y = v
        BY <1>1, <2>1, Heads
    <2>3. k = p[1]
        BY <1>3, <1>5, <1>6, TextsFacts
    <2>4. ValueText(p[2]) = <<>> ++ ValueText(p[2]) /\ ValueText(p[2]) \in Texts
        BY PropertyFacts, TextsFacts
    <2>5. InValue(ValueText(p[2]), y, tx, p, ps, later)
        BY <1>4, <2>2, <2>4 DEF InValue, v
    <2>6. AtValue(y, tx, p, ps, later)
        BY <1>4, <2>3, <2>4, <2>5 DEF AtValue
    <2>. QED
        BY <2>2, <2>6, LookupKey DEF d
<1>7. ASSUME NEW z \in Texts, x = <<c>> ++ z, y = z ++ u
      PROVE  /\ Lookup("Key", TypeChar(c, <<>>)) = "Key" /\ c # ","
             /\ AtKey(y, Added(tx, "key", c), p, ps, later)
    <2>1. c \in Char \ {",", "=", "'", "dq", "nl"}
        <3> DEFINE w == p[1]  S == Char \ {",", "=", "'", "dq", "nl"}
        <3>1. w \in Seq(S) /\ w = k ++ (<<c>> ++ z)
            BY <1>3, <1>5, <1>7 DEF LogKey
        <3>. HIDE DEF w, S, k
        <3>2. c \in S
            BY <1>3, <3>1, InsideChar
        <3>. QED
            BY <3>2 DEF S
    <2> DEFINE t == Added(tx, "key", c)
    <2>2. t["key"] = Append(k, c) /\ t["value"] = <<>>
        BY <1>4, FieldNames, AddedFacts
    <2>. HIDE DEF t, k
    <2>3. p[1] = t["key"] ++ z
        BY <1>3, <1>5, <1>7, <2>2, Appended
    <2>4. AtKey(y, t, p, ps, later)
        BY <1>7, <2>2, <2>3 DEF AtKey
    <2>. QED
        BY <2>1, <2>4, LookupKey DEF t
<1>. HIDE DEF u, k
<1>8. \/ x = <<>> /\ <<c>> ++ y = u
      \/ \E z \in Texts : x = <<c>> ++ z /\ y = z ++ u
    BY <1>2, <1>5, Taking
<1>. QED
    BY <1>6, <1>7, <1>8

(* In a value, the value is at its end or the next character is one more   *)
(* of it.                                                                  *)
LEMMA InValueNext ==
    ASSUME NEW c \in Symbol, NEW y \in Texts, NEW tx \in Text, NEW x \in Texts,
           NEW p \in Property, NEW ps \in Seq(Property), NEW later \in Records,
           InValue(x, <<c>> ++ y, tx, p, ps, later)
    PROVE  \/ /\ x = <<>> /\ tx["value"] = ValueText(p[2])
              /\ <<c>> ++ y = FromProperties(ps, later)
           \/ \E z \in Texts : /\ x = <<c>> ++ z
                               /\ InValue(z, y, Added(tx, "value", c), p, ps, later)
<1> DEFINE u == FromProperties(ps, later)  k == tx["value"]  t == Added(tx, "value", c)
<1>1. u \in Texts /\ k \in Texts
    BY FromPropertiesFacts, FieldNames, TextIsText
<1>2. ValueText(p[2]) = k ++ x /\ <<c>> ++ y = x ++ u
    BY DEF InValue
<1>3. t["value"] = Append(k, c)
    BY FieldNames, AddedFacts
<1>. HIDE DEF u, k, t
<1>4. CASE x = <<>> /\ <<c>> ++ y = u
    <2>1. k = ValueText(p[2])
        BY <1>1, <1>2, <1>4, TextsFacts
    <2>. QED
        BY <1>4, <2>1 DEF u, k
<1>5. ASSUME NEW z \in Texts, x = <<c>> ++ z, y = z ++ u
      PROVE  x = <<c>> ++ z /\ InValue(z, y, t, p, ps, later)
    <2>1. ValueText(p[2]) = t["value"] ++ z
        BY <1>1, <1>2, <1>3, <1>5, Appended
    <2>. QED
        BY <1>5, <2>1 DEF InValue, u
<1>6. \/ x = <<>> /\ <<c>> ++ y = u
      \/ \E z \in Texts : x = <<c>> ++ z /\ y = z ++ u
    BY <1>1, <1>2, Taking
<1>. QED
    BY <1>4, <1>5, <1>6 DEF t

\* The value has come to its end and EndValue follows.
Ended(left, tx, p, ps, later) ==
    /\ tx["key"] = p[1]
    /\ Trimmed(Unfolded(tx["key"], tx["value"])) = Shown(p)
    /\ AtEndValue(left, Cleared(tx), ps, later)

(* A value that was collected in full is the value ParsedLog expects.      *)
LEMMA EndedFacts ==
    ASSUME NEW left, NEW tx \in Text, NEW p \in Property, NEW ps \in Seq(Property), NEW later \in Records,
           tx["key"] = p[1],
           \/ tx["value"] = ValueText(p[2])
           \/ Quoted(p[2]) /\ tx["value"] = ValueText(p[2]) ++ <<"cr">>,
           \/ ps # <<>> /\ left = FromProperties(ps, later)
           \/ AfterReturn(left, ps, later)
    PROVE  Ended(left, tx, p, ps, later)
<1>1. Trimmed(Unfolded(tx["key"], tx["value"])) = Shown(p)
    <2>1. CASE tx["value"] = ValueText(p[2]) /\ p[2].quote = "none"
        BY <2>1, ShownPlain
    <2>2. CASE tx["value"] = ValueText(p[2]) /\ Quoted(p[2])
        BY <2>2, ShownQuoted
    <2>3. CASE Quoted(p[2]) /\ tx["value"] = ValueText(p[2]) ++ <<"cr">>
        BY <2>3, ShownQuoted
    <2>4. p[2].quote = "none" \/ Quoted(p[2])
        BY PropertyFacts, LogValueFacts
    <2>. QED
        BY <2>1, <2>2, <2>3, <2>4
<1>2. AtEndValue(left, Cleared(tx), ps, later)
    BY ClearedFacts DEF AtEndValue, AfterReturn
<1>. QED
    BY <1>1, <1>2 DEF Ended

(* After the carriage return there is the new line, and after it the next  *)
(* record.                                                                 *)
LEMMA AfterReturnNext ==
    ASSUME NEW c \in Symbol, NEW y \in Texts, NEW ps, NEW later \in Records,
           AfterReturn(<<c>> ++ y, ps, later)
    PROVE  c = "nl" /\ y = LogText(later)
<1> DEFINE d == "nl"
<1>1. <<c>> ++ y = <<d>> ++ LogText(later) /\ d \in Symbol /\ LogText(later) \in Texts
    BY EndTextFacts, SignTexts DEF AfterReturn, Signs
<1>. HIDE DEF d
<1>2. c = d /\ y = LogText(later)
    BY <1>1, Heads
<1>. QED
    BY <1>2 DEF d

(* In Value, the next character is one more of a bare value, or the        *)
(* carriage return after it, or the quote that begins a quoted value; or   *)
(* the value has come to its end.                                          *)
LEMMA ValueNext ==
    ASSUME NEW c \in Symbol, NEW y \in Texts, NEW tx \in Text,
           NEW p \in Property, NEW ps \in Seq(Property), NEW later \in Records,
           AtValue(<<c>> ++ y, tx, p, ps, later)
    PROVE  LET g == Lookup("Value", TypeChar(c, <<>>))
           IN \/ /\ g = "Value" /\ c \notin {"=", "cr"}
                 /\ AtValue(y, Added(tx, "value", c), p, ps, later)
              \/ g = "Value" /\ c = "cr" /\ AtValue(y, tx, p, ps, later)
              \/ /\ g = "Mvalue" /\ c \in {"'", "dq"}
                 /\ AtMvalue(y, Added(tx, "value", c), <<c>>, p, ps, later)
              \/ g = "EndValue" /\ Ended(<<c>> ++ y, tx, p, ps, later)
<1> DEFINE t == Added(tx, "value", c)  v == p[2]
<1>1. tx["key"] = p[1] /\ t["key"] = p[1] /\ tx["value"] \in Texts
    BY FieldNames, AddedFacts, TextIsText DEF AtValue
<1>2. \/ v.quote = "none" /\ v.chars \in Seq(Bare) /\ ValueText(v) = v.chars
      \/ Quoted(v) /\ ValueText(v) = <<v.quote>> ++ (Doubled(v.chars, v.quote) ++ <<v.quote>>)
    BY PropertyFacts, LogValueFacts
<1>3. ASSUME NEW x \in Texts, v.quote = "none" \/ tx["value"] = <<>>,
             InValue(x, <<c>> ++ y, tx, p, ps, later)
      PROVE  LET g == Lookup("Value", TypeChar(c, <<>>))
             IN \/ g = "Value" /\ c \notin {"=", "cr"} /\ AtValue(y, t, p, ps, later)
                \/ g = "Value" /\ c = "cr" /\ AtValue(y, tx, p, ps, later)
                \/ g = "Mvalue" /\ c \in {"'", "dq"} /\ AtMvalue(y, t, <<c>>, p, ps, later)
                \/ g = "EndValue" /\ Ended(<<c>> ++ y, tx, p, ps, later)
    <2>1. CASE x = <<>> /\ tx["value"] = ValueText(v) /\ <<c>> ++ y = FromProperties(ps, later)
        <3>1. v.quote = "none"
            <4> SUFFICES ASSUME Quoted(v), tx["value"] = <<>> PROVE FALSE
                BY <1>2, <1>3
            <4>1. ValueText(v) = <<>> /\ ValueText(v) = <<v.quote>> ++ (Doubled(v.chars, v.quote) ++ <<v.quote>>)
                BY <1>2, <2>1 DEF Quoted
            <4>2. v.quote \in Symbol /\ <<v.quote>> \in Texts /\ Doubled(v.chars, v.quote) \in Texts
                <5>1. v.quote \in {"'", "dq"} /\ v.chars \in Texts
                    BY DEF Quoted
                <5>2. v.quote \in Symbol /\ <<v.quote>> \in Texts
                    BY <5>1, SignTexts DEF Signs
                <5>3. Doubled(v.chars, v.quote) \in Texts
                    BY <5>1, DoubledFacts, Zenon
                <5>. QED
                    BY <5>2, <5>3
            <4>3. Doubled(v.chars, v.quote) ++ <<v.quote>> \in Texts
                BY <4>2, TextsFacts
            <4>. QED
                BY <4>1, <4>2, <4>3, NotEmpty, Zenon
        <3>2. CASE c = "cr" /\ AfterReturn(y, ps, later)
            <4>1. AtValue(y, tx, p, ps, later)
                BY <1>1, <2>1, <3>1, <3>2 DEF AtValue
            <4>2. Lookup("Value", TypeChar(c, <<>>)) = "Value"
                BY <3>2, LookupValue
            <4>. QED
                BY <3>2, <4>1, <4>2
        <3>3. CASE ps # <<>> /\ c = ","
            <4>1. Ended(<<c>> ++ y, tx, p, ps, later)
                BY <1>1, <2>1, <3>3, EndedFacts
            <4>2. Lookup("Value", TypeChar(c, <<>>)) = "EndValue"
                BY <3>3, LookupValue
            <4>. QED
                BY <4>1, <4>2
        <3>4. <<c>> ++ y = FromProperties(ps, later)
            BY <2>1
        <3>5. (c = "cr" /\ AfterReturn(y, ps, later)) \/ (ps # <<>> /\ c = ",")
            BY <3>4, FromFront, Zenon
        <3>. QED
            BY <3>2, <3>3, <3>5
    <2>2. ASSUME NEW z \in Texts, x = <<c>> ++ z, InValue(z, y, t, p, ps, later)
          PROVE  LET g == Lookup("Value", TypeChar(c, <<>>))
                 IN \/ g = "Value" /\ c \notin {"=", "cr"} /\ AtValue(y, t, p, ps, later)
                    \/ g = "Mvalue" /\ c \in {"'", "dq"} /\ AtMvalue(y, t, <<c>>, p, ps, later)
        <3>1. ValueText(v) = tx["value"] ++ (<<c>> ++ z)
            BY <1>3, <2>2 DEF InValue
        <3>2. CASE v.quote = "none"
            <4>1. c \in Bare
                <5> DEFINE w == ValueText(v)  s == tx["value"]
                <5>1. w \in Seq(Bare) /\ s \in Texts /\ w = s ++ (<<c>> ++ z)
                    BY <1>1, <1>2, <3>1, <3>2 DEF Quoted
                <5>. HIDE DEF w, s
                <5>. QED
                    BY <5>1, InsideChar
            <4>2. AtValue(y, t, p, ps, later)
                BY <1>1, <2>2, <3>2 DEF AtValue
            <4>. QED
                BY <4>1, <4>2, LookupValue DEF Bare
        <3>3. CASE v.quote # "none"
            <4> DEFINE q == v.quote  e == Doubled(v.chars, q) ++ <<q>>
            <4>1. Quoted(v) /\ tx["value"] = <<>> /\ ValueText(v) = <<q>> ++ e
                BY <1>2, <1>3, <3>3
            <4>2. q \in {"'", "dq"} /\ v.chars \in Texts /\ q \in Symbol /\ <<q>> \in Texts
                BY <4>1, SignTexts DEF Quoted, Signs
            <4>3. e \in Texts
                <5>1. Doubled(v.chars, q) \in Texts
                    BY <4>2, DoubledFacts, Zenon
                <5>. QED
                    BY <4>2, <5>1, TextsFacts
            <4>4. <<c>> ++ z \in Texts
                BY TextsFacts
            <4>5. <<c>> ++ z = <<q>> ++ e
                BY <3>1, <4>1, <4>4, TextsFacts
            <4>. HIDE DEF e, q
            <4>6. c = q /\ z = e
                BY <4>2, <4>3, <4>5, Heads
            <4>7. AtMvalue(y, t, <<c>>, p, ps, later)
                <5>1. InValue(Doubled(v.chars, q) ++ <<q>>, y, t, p, ps, later)
                    BY <2>2, <4>6 DEF e
                <5>. QED
                    BY <1>1, <4>1, <4>2, <4>6, <5>1 DEF AtMvalue, q
            <4>. QED
                BY <4>2, <4>6, <4>7, LookupValue
        <3>. QED
            BY <3>2, <3>3
    <2>. QED
        BY <1>3, <2>1, <2>2, InValueNext
<1>4. ASSUME v.quote = "none", tx["value"] = ValueText(v), AfterReturn(<<c>> ++ y, ps, later)
      PROVE  Lookup("Value", TypeChar(c, <<>>)) = "EndValue" /\ Ended(<<c>> ++ y, tx, p, ps, later)
    <2>1. c = "nl"
        BY <1>4, AfterReturnNext
    <2>2. Ended(<<c>> ++ y, tx, p, ps, later)
        BY <1>1, <1>4, EndedFacts
    <2>. QED
        BY <2>1, <2>2, LookupValue
<1>. QED
    BY <1>3, <1>4 DEF AtValue

\* What Mvalue makes of the stack of quotes.
QuotesAfter(qs, c) ==
    IF c \notin {"'", "dq"} THEN qs
    ELSE IF qs = <<>> THEN <<c>>
    ELSE IF qs[Len(qs)] = c THEN SubSeq(qs, 1, Len(qs) - 1)
    ELSE qs

(* What Mvalue makes of the quotes, for the quote of the value and for any *)
(* other character.                                                        *)
LEMMA QuotesFacts ==
    ASSUME NEW q \in {"'", "dq"}
    PROVE  /\ QuotesAfter(<<q>>, q) = <<>> /\ QuotesAfter(<<>>, q) = <<q>>
           /\ \A c : c # q => QuotesAfter(<<q>>, c) = <<q>>
           /\ QuotesAfter(<<>>, "cr") = <<>>
<1>1. Len(<<q>>) = 1 /\ <<q>>[1] = q /\ <<q>> # <<>> /\ SubSeq(<<q>>, 1, 0) = <<>>
    OBVIOUS
<1>2. QuotesAfter(<<q>>, q) = <<>>
    BY <1>1 DEF QuotesAfter
<1>3. QuotesAfter(<<>>, q) = <<q>> /\ QuotesAfter(<<>>, "cr") = <<>>
    BY DEF QuotesAfter
<1>4. \A c : c # q => QuotesAfter(<<q>>, c) = <<q>>
    BY <1>1 DEF QuotesAfter
<1>. QED
    BY <1>2, <1>3, <1>4

(* Within the quotes the next character is any at all, and it is one more  *)
(* of the value; if it is the quote, it may be the first of a doubled one  *)
(* or the last.                                                            *)
LEMMA MvalueInside ==
    ASSUME NEW c \in Symbol, NEW y \in Texts, NEW tx \in Text,
           NEW p \in Property, NEW ps \in Seq(Property), NEW later \in Records,
           tx["key"] = p[1], Quoted(p[2]), NEW q, q = p[2].quote, NEW rem \in Texts,
           InValue(Doubled(rem, q) ++ <<q>>, <<c>> ++ y, tx, p, ps, later)
    PROVE  AtMvalue(y, Added(tx, "value", c), QuotesAfter(<<q>>, c), p, ps, later)
<1> DEFINE t == Added(tx, "value", c)
           k == Doubled(rem, q) ++ <<q>>
<1>1. q \in {"'", "dq"} /\ q \in Symbol /\ <<q>> \in Texts
    BY SignTexts DEF Quoted, Signs
<1>2. t["key"] = p[1]
    BY FieldNames, AddedFacts
<1>3. Doubled(<<>>, q) = <<>> /\ \A s \in Texts : Doubled(s, q) \in Texts
    BY <1>1, DoubledFacts, Zenon
<1>4. k \in Texts /\ Doubled(rem, q) \in Texts
    BY <1>1, <1>3, TextsFacts
<1>. HIDE DEF t
<1>5. \/ k = <<>>
      \/ \E z \in Texts : k = <<c>> ++ z /\ InValue(z, y, t, p, ps, later)
    <2>. HIDE DEF k
    <2>. QED
        BY <1>4, InValueNext DEF t, k
<1>6. CASE rem = <<>>
    <2>1. k = <<q>> ++ <<>> /\ <<>> \in Texts
        BY <1>1, <1>3, <1>6, TextsFacts
    <2>. HIDE DEF k
    <2>2. k # <<>>
        BY <1>1, <2>1, NotEmpty
    <2>3. PICK z \in Texts : k = <<c>> ++ z /\ InValue(z, y, t, p, ps, later)
        BY <1>5, <2>2
    <2>4. c = q /\ z = <<>>
        BY <1>1, <2>1, <2>3, Heads
    <2>5. QuotesAfter(<<q>>, c) = <<>>
        BY <1>1, <2>4, QuotesFacts
    <2>6. InValue(<<>>, y, t, p, ps, later)
        BY <2>3, <2>4
    <2>. QED
        BY <1>2, <2>5, <2>6 DEF AtMvalue, t
<1>7. ASSUME NEW d \in Symbol, NEW rem2 \in Texts, rem = <<d>> ++ rem2
      PROVE  AtMvalue(y, t, QuotesAfter(<<q>>, c), p, ps, later)
    <2> DEFINE w == Doubled(rem2, q) ++ <<q>>
    <2>1. Doubled(rem2, q) \in Texts /\ w \in Texts
        BY <1>1, <1>3, TextsFacts
    <2>2. Doubled(rem, q) = (IF d = q THEN <<q, q>> ELSE <<d>>) ++ Doubled(rem2, q)
        BY <1>1, <1>7, DoubledFacts
    <2>3. CASE d = q
        <3>1. <<q, q>> = <<q>> ++ <<q>>
            BY DEF ++
        <3>2. Doubled(rem, q) = <<q>> ++ (<<q>> ++ Doubled(rem2, q))
            <4> DEFINE a == <<q>>  b == Doubled(rem2, q)
            <4>1. a \in Texts /\ b \in Texts /\ Doubled(rem, q) = (a ++ a) ++ b
                BY <1>1, <2>1, <2>2, <2>3, <3>1
            <4>. HIDE DEF a, b
            <4>2. (a ++ a) ++ b = a ++ (a ++ b)
                BY <4>1, TextsFacts
            <4>. QED
                BY <4>1, <4>2 DEF a, b
        <3>3. <<q>> ++ Doubled(rem2, q) \in Texts
            BY <1>1, <2>1, TextsFacts
        <3>4. k = <<q>> ++ (<<q>> ++ w)
            BY <1>1, <2>1, <3>2, <3>3, TextsFacts
        <3>5. <<q>> ++ w \in Texts
            BY <1>1, <2>1, TextsFacts
        <3> DEFINE v == <<q>> ++ w
        <3>. HIDE DEF k, v
        <3>6. k # <<>> /\ k = <<q>> ++ v /\ v \in Texts
            BY <1>1, <3>4, <3>5, NotEmpty DEF v
        <3>7. PICK z \in Texts : k = <<c>> ++ z /\ InValue(z, y, t, p, ps, later)
            BY <1>5, <3>6
        <3>8. c = q /\ z = v
            <4>1. <<c>> ++ z = <<q>> ++ v /\ v \in Texts
                BY <3>6, <3>7
            <4>. QED
                BY <1>1, <4>1, Heads
        <3>9. QuotesAfter(<<q>>, c) = <<>>
            BY <1>1, <3>8, QuotesFacts
        <3>10. InValue(<<q>> ++ (Doubled(rem2, q) ++ <<q>>), y, t, p, ps, later)
            BY <3>7, <3>8 DEF v
        <3>. QED
            BY <1>2, <3>9, <3>10 DEF AtMvalue
    <2>4. CASE d # q
        <3>1. Doubled(rem, q) = <<d>> ++ Doubled(rem2, q) /\ <<d>> \in Texts
            BY <2>2, <2>4, TextsFacts
        <3>2. k = <<d>> ++ w
            BY <1>1, <2>1, <3>1, TextsFacts
        <3>. HIDE DEF k, w
        <3>3. k # <<>>
            BY <2>1, <3>2, NotEmpty
        <3>4. PICK z \in Texts : k = <<c>> ++ z /\ InValue(z, y, t, p, ps, later)
            BY <1>5, <3>3
        <3>5. c = d /\ z = w
            BY <2>1, <3>2, <3>4, Heads, ZenonT(40)
        <3>6. QuotesAfter(<<q>>, c) = <<q>>
            BY <1>1, <2>4, <3>5, QuotesFacts
        <3>7. InValue(Doubled(rem2, q) ++ <<q>>, y, t, p, ps, later)
            BY <3>4, <3>5 DEF w
        <3>. QED
            BY <1>2, <3>6, <3>7 DEF AtMvalue
    <2>. QED
        BY <2>3, <2>4
<1>8. rem = <<>> \/ \E d \in Symbol, rem2 \in Texts : rem = <<d>> ++ rem2
    BY TextsFirst
<1>. QED
    BY <1>6, <1>7, <1>8 DEF t

(* Between the two quotes of a doubled one, the next character is a quote. *)
LEMMA MvalueHalf ==
    ASSUME NEW c \in Symbol, NEW y \in Texts, NEW tx \in Text,
           NEW p \in Property, NEW ps \in Seq(Property), NEW later \in Records,
           tx["key"] = p[1], Quoted(p[2]), NEW q, q = p[2].quote, NEW rem \in Texts,
           InValue(<<q>> ++ (Doubled(rem, q) ++ <<q>>), <<c>> ++ y, tx, p, ps, later)
    PROVE  /\ c \in {"'", "dq"}
           /\ AtMvalue(y, Added(tx, "value", c), QuotesAfter(<<>>, c), p, ps, later)
<1> DEFINE t == Added(tx, "value", c)
           w == Doubled(rem, q) ++ <<q>>
           k == <<q>> ++ w
<1>1. q \in {"'", "dq"} /\ q \in Symbol /\ <<q>> \in Texts
    BY SignTexts DEF Quoted, Signs
<1>2. t["key"] = p[1]
    BY FieldNames, AddedFacts
<1>3. Doubled(rem, q) \in Texts
    BY <1>1, DoubledFacts, Zenon
<1>4. w \in Texts
    BY <1>1, <1>3, TextsFacts
<1>5. k \in Texts /\ k # <<>>
    BY <1>1, <1>4, TextsFacts, NotEmpty
<1>. HIDE DEF t
<1>6. PICK z \in Texts : k = <<c>> ++ z /\ InValue(z, y, t, p, ps, later)
    <2>. HIDE DEF k
    <2>. QED
        BY <1>5, InValueNext DEF t, k
<1>. HIDE DEF w
<1>7. c = q /\ z = w
    BY <1>1, <1>4, <1>6, Heads
<1>8. QuotesAfter(<<>>, c) = <<q>>
    BY <1>1, <1>7, QuotesFacts
<1>9. InValue(Doubled(rem, q) ++ <<q>>, y, t, p, ps, later)
    BY <1>6, <1>7 DEF w
<1>10. AtMvalue(y, t, <<q>>, p, ps, later)
    BY <1>2, <1>9 DEF AtMvalue
<1>. QED
    BY <1>1, <1>7, <1>8, <1>10 DEF t

(* After the last quote there is a carriage return or a comma.             *)
LEMMA MvalueClosed ==
    ASSUME NEW c \in Symbol, NEW y \in Texts, NEW tx \in Text,
           NEW p \in Property, NEW ps \in Seq(Property), NEW later \in Records,
           tx["key"] = p[1], Quoted(p[2]),
           InValue(<<>>, <<c>> ++ y, tx, p, ps, later)
    PROVE  \/ /\ c = "cr"
              /\ AtMvalue(y, Added(tx, "value", c), QuotesAfter(<<>>, c), p, ps, later)
           \/ c = "," /\ Ended(<<c>> ++ y, tx, p, ps, later)
<1> DEFINE t == Added(tx, "value", c)
           k == ValueText(p[2])
           u == FromProperties(ps, later)
<1>1. k \in Texts /\ tx["value"] \in Texts /\ u \in Texts
    BY PropertyFacts, FieldNames, TextIsText, FromPropertiesFacts
<1>2. k = tx["value"] /\ <<c>> ++ y = u
    BY <1>1, TextsFacts DEF InValue
<1>3. t["key"] = p[1] /\ t["value"] = Append(tx["value"], c)
    BY FieldNames, AddedFacts
<1>4. (c = "cr" /\ AfterReturn(y, ps, later)) \/ (ps # <<>> /\ c = ",")
    BY <1>2, FromFront, Zenon
<1>5. CASE c = "cr" /\ AfterReturn(y, ps, later)
    <2>1. QuotesAfter(<<>>, c) = <<>>
        BY <1>5 DEF QuotesAfter
    <2>2. t["value"] = k ++ <<"cr">>
        <3> DEFINE s == tx["value"]
        <3>1. s \in Texts /\ <<>> \in Texts /\ <<c>> \in Texts
            BY <1>1, TextsFacts
        <3>. HIDE DEF s
        <3>2. Append(s, c) \in Texts /\ Append(s, c) ++ <<>> = s ++ (<<c>> ++ <<>>)
            BY <3>1, Appended
        <3>3. Append(s, c) = s ++ <<c>>
            BY <3>1, <3>2, TextsFacts
        <3>. QED
            BY <1>2, <1>3, <1>5, <3>3 DEF s
    <2>3. AtMvalue(y, t, <<>>, p, ps, later)
        BY <1>3, <1>5, <2>2 DEF AtMvalue
    <2>. QED
        BY <1>5, <2>1, <2>3
<1>6. CASE ps # <<>> /\ c = ","
    <2>1. Ended(<<c>> ++ y, tx, p, ps, later)
        BY <1>2, <1>6, EndedFacts
    <2>. QED
        BY <1>6, <2>1
<1>. QED
    BY <1>4, <1>5, <1>6

(* In Mvalue, the value goes on, or it has come to its end outside of the  *)
(* quotes.                                                                 *)
LEMMA MvalueNext ==
    ASSUME NEW c \in Symbol, NEW y \in Texts, NEW tx \in Text, NEW qs,
           NEW p \in Property, NEW ps \in Seq(Property), NEW later \in Records,
           AtMvalue(<<c>> ++ y, tx, qs, p, ps, later)
    PROVE  LET g == Lookup("Mvalue", TypeChar(c, qs))
           IN \/ /\ g = "Mvalue"
                 /\ AtMvalue(y, Added(tx, "value", c), QuotesAfter(qs, c), p, ps, later)
              \/ g = "EndValue" /\ qs = <<>> /\ Ended(<<c>> ++ y, tx, p, ps, later)
<1> DEFINE q == p[2].quote  left == <<c>> ++ y
           Goal == LET g == Lookup("Mvalue", TypeChar(c, qs))
                   IN \/ /\ g = "Mvalue"
                         /\ AtMvalue(y, Added(tx, "value", c), QuotesAfter(qs, c), p, ps, later)
                      \/ g = "EndValue" /\ qs = <<>> /\ Ended(<<c>> ++ y, tx, p, ps, later)
<1>1. tx["key"] = p[1] /\ Quoted(p[2])
    BY DEF AtMvalue
<1>2. ASSUME qs = <<q>>, NEW rem \in Texts,
             InValue(Doubled(rem, q) ++ <<q>>, left, tx, p, ps, later)
      PROVE  Goal
    <2>1. AtMvalue(y, Added(tx, "value", c), QuotesAfter(qs, c), p, ps, later)
        BY <1>1, <1>2, MvalueInside
    <2>2. Lookup("Mvalue", TypeChar(c, qs)) = "Mvalue"
        <3>1. qs # <<>>
            BY <1>2
        <3>. QED
            BY <3>1, QuotesStay
    <2>. QED
        BY <2>1, <2>2
<1>3. ASSUME qs = <<>>, NEW rem \in Texts,
             InValue(<<q>> ++ (Doubled(rem, q) ++ <<q>>), left, tx, p, ps, later)
      PROVE  Goal
    <2>1. /\ c \in {"'", "dq"}
          /\ AtMvalue(y, Added(tx, "value", c), QuotesAfter(qs, c), p, ps, later)
        BY <1>1, <1>3, MvalueHalf
    <2>2. Lookup("Mvalue", TypeChar(c, qs)) = "Mvalue"
        BY <1>3, <2>1, LookupMvalue
    <2>. QED
        BY <2>1, <2>2
<1>4. ASSUME qs = <<>>, InValue(<<>>, left, tx, p, ps, later)
      PROVE  Goal
    <2>1. \/ /\ c = "cr"
             /\ AtMvalue(y, Added(tx, "value", c), QuotesAfter(qs, c), p, ps, later)
          \/ c = "," /\ Ended(left, tx, p, ps, later)
        BY <1>1, <1>4, MvalueClosed
    <2>2. /\ c = "cr" => Lookup("Mvalue", TypeChar(c, qs)) = "Mvalue"
          /\ c = "," => Lookup("Mvalue", TypeChar(c, qs)) = "EndValue"
        BY <1>4, LookupMvalue
    <2>. QED
        BY <1>4, <2>1, <2>2
<1>5. ASSUME qs = <<>>, tx["value"] = ValueText(p[2]) ++ <<"cr">>,
             AfterReturn(left, ps, later)
      PROVE  Goal
    <2>1. c = "nl"
        BY <1>5, AfterReturnNext
    <2>2. Ended(left, tx, p, ps, later)
        BY <1>1, <1>5, EndedFacts
    <2>3. Lookup("Mvalue", TypeChar(c, qs)) = "EndValue"
        BY <1>5, <2>1, LookupMvalue
    <2>. QED
        BY <1>5, <2>2, <2>3
<1>. QED
    <2>1. \/ /\ qs = <<q>>
             /\ \E rem \in Texts : InValue(Doubled(rem, q) ++ <<q>>, left, tx, p, ps, later)
          \/ /\ qs = <<>>
             /\ \E rem \in Texts : InValue(<<q>> ++ (Doubled(rem, q) ++ <<q>>), left, tx, p, ps, later)
          \/ qs = <<>> /\ InValue(<<>>, left, tx, p, ps, later)
          \/ /\ qs = <<>> /\ tx["value"] = ValueText(p[2]) ++ <<"cr">>
             /\ AfterReturn(left, ps, later)
        BY DEF AtMvalue
    <2>. HIDE DEF Goal, left, q
    <2>2. Goal
        BY <1>2, <1>3, <1>4, <1>5, <2>1
    <2>. QED
        BY <2>2 DEF Goal

(* After EndValue there is the comma before the next key, or the new line  *)
(* that ends the record.                                                   *)
LEMMA EndValueNext ==
    ASSUME NEW c \in Symbol, NEW y \in Texts, NEW tx,
           NEW ps \in Seq(Property), NEW later \in Records,
           AtEndValue(<<c>> ++ y, tx, ps, later)
    PROVE  \/ /\ ps # <<>> /\ Lookup("EndValue", TypeChar(c, <<>>)) = "Key" /\ c = ","
              /\ \E p \in Property, qs \in Seq(Property) :
                    ps = <<p>> ++ qs /\ AtKey(y, tx, p, qs, later)
           \/ /\ ps = <<>> /\ Lookup("EndValue", TypeChar(c, <<>>)) = "EndEvent"
              /\ <<c>> ++ y = <<"nl">> ++ LogText(later)
<1>1. tx["key"] = <<>> /\ tx["value"] = <<>>
    BY DEF AtEndValue
<1>2. CASE ps = <<>>
    <2>1. AfterReturn(<<c>> ++ y, ps, later)
        BY <1>2 DEF AtEndValue, AfterReturn
    <2>2. c = "nl"
        BY <2>1, AfterReturnNext
    <2>. QED
        BY <1>2, <2>1, <2>2, LookupEnds DEF AfterReturn
<1>3. CASE ps # <<>>
    <2>1. <<c>> ++ y = FromProperties(ps, later)
        BY <1>3 DEF AtEndValue
    <2>2. c = "," /\ KeyFollows(y, ps, later)
        BY <1>3, <2>1, FromFront, Zenon
    <2>3. PICK p \in Property, qs \in Seq(Property) :
             /\ ps = <<p>> ++ qs
             /\ y = p[1] ++ (<<"=">> ++ (ValueText(p[2]) ++ FromProperties(qs, later)))
        BY <2>2 DEF KeyFollows
    <2>4. p[1] \in Texts /\ p[1] = tx["key"] ++ p[1]
        BY <1>1, PropertyFacts, TextsFacts
    <2>5. AtKey(y, tx, p, qs, later)
        BY <1>1, <2>3, <2>4 DEF AtKey
    <2>. QED
        BY <1>3, <2>2, <2>3, <2>5, LookupEnds
<1>. QED
    BY <1>2, <1>3

-----------------------------------------------------------------------------
(* One character of a record.                                              *)

Halfway(tx, vs, done, ps, r) ==
    Complete(tx, r) /\ vs = ShownList(done) /\ r.properties = done ++ ps

\* Handler f has just run within record r.
InRecord(f, left, tx, vs, qs, r, later) ==
    \/ \E n \in 1 .. 6 : /\ f = HandlerOf[n] /\ vs = <<>> /\ qs = <<>>
                         /\ AtField(n, left, tx, r, later)
    \/ \E done \in Seq(Property), p \in Property, ps \in Seq(Property) :
          /\ Halfway(tx, vs, done, <<p>> ++ ps, r)
          /\ \/ f = "Key" /\ qs = <<>> /\ AtKey(left, tx, p, ps, later)
             \/ f = "Value" /\ qs = <<>> /\ AtValue(left, tx, p, ps, later)
             \/ f = "Mvalue" /\ AtMvalue(left, tx, qs, p, ps, later)
    \/ \E done \in Seq(Property), ps \in Seq(Property) :
          /\ Halfway(tx, vs, done, ps, r)
          /\ f = "EndValue" /\ qs = <<>> /\ AtEndValue(left, tx, ps, later)

\* What handler g, which the table names for c, does to the record.
Kept(tx, f, c, separators) == IF c \in separators THEN tx ELSE Added(tx, f, c)

Shows(tx) == <<tx["key"], Trimmed(Unfolded(tx["key"], tx["value"]))>>

Runs(g, c, y, tx, vs, qs, r, later) ==
    \/ \E n \in 1 .. 6 :
          /\ g = HandlerOf[n]
          /\ InRecord(g, y, Kept(tx, FieldOf[n], c, Separators(n)), vs, qs, r, later)
    \/ g = "Key" /\ InRecord("Key", y, Kept(tx, "key", c, {","}), vs, qs, r, later)
    \/ g = "Value" /\ InRecord("Value", y, Kept(tx, "value", c, {"=", "cr"}), vs, qs, r, later)
    \/ g = "Mvalue" /\ InRecord("Mvalue", y, Added(tx, "value", c), vs, QuotesAfter(qs, c), r, later)
    \/ /\ g = "EndValue"
       /\ InRecord("EndValue", <<c>> ++ y, Cleared(tx), Append(vs, Shows(tx)), qs, r, later)
    \/ /\ g = "EndEvent" /\ qs = <<>>
       /\ Complete(tx, r) /\ vs = ShownList(r.properties)
       /\ <<c>> ++ y = <<"nl">> ++ LogText(later)

(* The values of the properties so far, for none and for one more.         *)
LEMMA ShownListFacts ==
    /\ ShownList(<<>>) = <<>>
    /\ \A done \in Seq(Property), p \in Property :
          /\ done ++ <<p>> \in Seq(Property)
          /\ ShownList(done ++ <<p>>) = Append(ShownList(done), <<p[1], Shown(p)>>)
          /\ \A ps \in Seq(Property) : done ++ (<<p>> ++ ps) = (done ++ <<p>>) ++ ps
    /\ \A ps \in Seq(Property) : <<>> ++ ps = ps /\ ps ++ <<>> = ps
<1>1. ShownList(<<>>) = <<>>
    BY DEF ShownList
<1>2. ASSUME NEW done \in Seq(Property), NEW p \in Property
      PROVE  /\ done ++ <<p>> \in Seq(Property)
             /\ ShownList(done ++ <<p>>) = Append(ShownList(done), <<p[1], Shown(p)>>)
             /\ \A ps \in Seq(Property) : done ++ (<<p>> ++ ps) = (done ++ <<p>>) ++ ps
    <2> DEFINE S == Property
               T == {<<q[1], Shown(q)>> : q \in S}
               f == [q \in S |-> <<q[1], Shown(q)>>]
               one == <<p>>
    <2>1. one \in Seq(S) /\ done \in Seq(S) /\ \A q \in S : f[q] \in T
        OBVIOUS
    <2>2. \A qs \in Seq(S) : ShownList(qs) = Map(f, qs)
        BY DEF ShownList, Map
    <2>3. Map(f, one) = <<f[p]>> /\ f[p] = <<p[1], Shown(p)>>
        BY DEF Map
    <2>. HIDE DEF S, T, f, one
    <2>4. done ++ one \in Seq(S) /\ \A ps \in Seq(S) : done ++ (one ++ ps) = (done ++ one) ++ ps
        BY <2>1, CatFacts
    <2>5. Map(f, done ++ one) = Map(f, done) ++ Map(f, one)
        BY <2>1, MapConcat
    <2>6. Map(f, done) \in Seq(T)
        BY <2>1, MapType DEF IsMap
    <2>7. \A m \in Seq(T), e \in T : m ++ <<e>> = Append(m, e)
        BY DEF ++
    <2>8. p \in S
        BY DEF S
    <2>9. ShownList(done ++ one) = Append(ShownList(done), f[p])
        BY <2>1, <2>2, <2>3, <2>4, <2>5, <2>6, <2>7, <2>8
    <2>. QED
        BY <2>3, <2>4, <2>9 DEF S, one
<1>3. \A ps \in Seq(Property) : <<>> ++ ps = ps /\ ps ++ <<>> = ps
    BY CatFacts
<1>. QED
    BY <1>1, <1>2, <1>3

(* The handlers of the six fields are six, and none of the others.         *)
LEMMA HandlerNames ==
    /\ \A n \in 1 .. 6 : /\ HandlerOf[n] \in Handlers
                         /\ HandlerOf[n] \notin {"Start", "Key", "Value", "Mvalue", "EndValue", "EndEvent", "Error"}
    /\ \A m, n \in 1 .. 6 : HandlerOf[m] = HandlerOf[n] => m = n
<1>1. /\ HandlerOf[1] = "Minute" /\ HandlerOf[2] = "Second" /\ HandlerOf[3] = "Msecond"
      /\ HandlerOf[4] = "Duration" /\ HandlerOf[5] = "Event" /\ HandlerOf[6] = "Level"
    BY DEF HandlerOf
<1>2. \A n \in 1 .. 6 : n = 1 \/ n = 2 \/ n = 3 \/ n = 4 \/ n = 5 \/ n = 6
    OBVIOUS
<1>3. \A n \in 1 .. 6 : /\ HandlerOf[n] \in Handlers
                        /\ HandlerOf[n] \notin {"Start", "Key", "Value", "Mvalue", "EndValue", "EndEvent", "Error"}
    BY <1>1, <1>2 DEF Handlers
<1>4. \A m, n \in 1 .. 6 : HandlerOf[m] = HandlerOf[n] => m = n
    BY <1>1, <1>2
<1>. QED
    BY <1>3, <1>4

(* One character of a field, as a step of the record.                      *)
LEMMA FieldRuns ==
    ASSUME NEW n \in 1 .. 6, NEW c \in Symbol, NEW y \in Texts, NEW tx \in Text,
           NEW r \in LogRecord, NEW later \in Records,
           AtField(n, <<c>> ++ y, tx, r, later)
    PROVE  Runs(Lookup(HandlerOf[n], TypeChar(c, <<>>)), c, y, tx, <<>>, <<>>, r, later)
<1> DEFINE g == Lookup(HandlerOf[n], TypeChar(c, <<>>))
<1>1. ASSUME g = HandlerOf[n], c \notin Separators(n),
             AtField(n, y, Added(tx, FieldOf[n], c), r, later)
      PROVE  Runs(g, c, y, tx, <<>>, <<>>, r, later)
    <2>1. InRecord(HandlerOf[n], y, Added(tx, FieldOf[n], c), <<>>, <<>>, r, later)
        BY <1>1 DEF InRecord
    <2>2. Kept(tx, FieldOf[n], c, Separators(n)) = Added(tx, FieldOf[n], c)
        BY <1>1 DEF Kept
    <2>. HIDE DEF g
    <2>. QED
        BY <1>1, <2>1, <2>2 DEF Runs
<1>2. ASSUME n < 6, g = HandlerOf[n + 1], c \in Separators(n + 1),
             AtField(n + 1, y, tx, r, later)
      PROVE  Runs(g, c, y, tx, <<>>, <<>>, r, later)
    <2> DEFINE m == n + 1
    <2>1. m \in 1 .. 6
        BY <1>2
    <2>. HIDE DEF g, m
    <2>2. InRecord(HandlerOf[m], y, tx, <<>>, <<>>, r, later)
        BY <1>2, <2>1 DEF InRecord, m
    <2>3. Kept(tx, FieldOf[m], c, Separators(m)) = tx
        BY <1>2 DEF Kept, m
    <2>4. g = HandlerOf[m]
        BY <1>2 DEF m
    <2>. QED
        BY <2>1, <2>2, <2>3, <2>4 DEF Runs
<1>3. ASSUME g = "Key", c = ",", Complete(tx, r),
             NEW p \in Property, NEW ps \in Seq(Property),
             r.properties = <<p>> ++ ps, AtKey(y, tx, p, ps, later)
      PROVE  Runs(g, c, y, tx, <<>>, <<>>, r, later)
    <2>. HIDE DEF g
    <2>1. <<>> \in Seq(Property) /\ <<p>> \in Seq(Property) /\ r.properties \in Seq(Property)
        BY RecordTypes
    <2>2. r.properties = <<>> ++ (<<p>> ++ ps)
        BY <1>3, <2>1, ShownListFacts
    <2>3. Halfway(tx, <<>>, <<>>, <<p>> ++ ps, r)
        BY <1>3, <2>2, ShownListFacts DEF Halfway
    <2>4. InRecord("Key", y, tx, <<>>, <<>>, r, later)
        BY <1>3, <2>1, <2>3 DEF InRecord
    <2>5. Kept(tx, "key", c, {","}) = tx
        BY <1>3 DEF Kept
    <2>. QED
        BY <1>3, <2>4, <2>5 DEF Runs
<1>4. \/ g = HandlerOf[n] /\ c \notin Separators(n) /\ AtField(n, y, Added(tx, FieldOf[n], c), r, later)
      \/ n < 6 /\ g = HandlerOf[n + 1] /\ c \in Separators(n + 1) /\ AtField(n + 1, y, tx, r, later)
      \/ /\ g = "Key" /\ c = "," /\ Complete(tx, r)
         /\ \E p \in Property, ps \in Seq(Property) : r.properties = <<p>> ++ ps /\ AtKey(y, tx, p, ps, later)
    BY FieldNext, ZenonT(40)
<1>. HIDE DEF g
<1>5. Runs(g, c, y, tx, <<>>, <<>>, r, later)
    BY <1>1, <1>2, <1>3, <1>4
<1>. QED
    BY <1>5 DEF g

(* The value that has come to its end joins those of the event.            *)
LEMMA EndedRuns ==
    ASSUME NEW c \in Symbol, NEW y \in Texts, NEW tx \in Text, NEW vs, NEW done \in Seq(Property),
           NEW p \in Property, NEW ps \in Seq(Property), NEW r \in LogRecord, NEW later \in Records,
           Halfway(tx, vs, done, <<p>> ++ ps, r), Ended(<<c>> ++ y, tx, p, ps, later)
    PROVE  Runs("EndValue", c, y, tx, vs, <<>>, r, later)
<1> DEFINE next == done ++ <<p>>
<1>1. next \in Seq(Property) /\ ShownList(next) = Append(ShownList(done), <<p[1], Shown(p)>>)
      /\ done ++ (<<p>> ++ ps) = next ++ ps
    BY ShownListFacts
<1>2. Shows(tx) = <<p[1], Shown(p)>> /\ AtEndValue(<<c>> ++ y, Cleared(tx), ps, later)
    BY DEF Ended, Shows
<1>3. Complete(Cleared(tx), r)
    BY ClearedFacts DEF Halfway, Complete
<1>. HIDE DEF next
<1>4. Halfway(Cleared(tx), Append(vs, Shows(tx)), next, ps, r)
    BY <1>1, <1>2, <1>3 DEF Halfway
<1>5. InRecord("EndValue", <<c>> ++ y, Cleared(tx), Append(vs, Shows(tx)), <<>>, r, later)
    BY <1>1, <1>2, <1>4 DEF InRecord
<1>. QED
    BY <1>5 DEF Runs

(* One character of a property, as a step of the record.                   *)
LEMMA PropertyRuns ==
    ASSUME NEW c \in Symbol, NEW y \in Texts, NEW tx \in Text, NEW vs, NEW qs, NEW done \in Seq(Property),
           NEW p \in Property, NEW ps \in Seq(Property), NEW r \in LogRecord, NEW later \in Records,
           Halfway(tx, vs, done, <<p>> ++ ps, r),
           NEW f,
           \/ f = "Key" /\ qs = <<>> /\ AtKey(<<c>> ++ y, tx, p, ps, later)
           \/ f = "Value" /\ qs = <<>> /\ AtValue(<<c>> ++ y, tx, p, ps, later)
           \/ f = "Mvalue" /\ AtMvalue(<<c>> ++ y, tx, qs, p, ps, later)
    PROVE  Runs(Lookup(f, TypeChar(c, qs)), c, y, tx, vs, qs, r, later)
<1> DEFINE g == Lookup(f, TypeChar(c, qs))
<1> SUFFICES Runs(g, c, y, tx, vs, qs, r, later)
    OBVIOUS
<1>1. /\ "key" \in TextFields \ Fields /\ "value" \in TextFields \ Fields /\ Fields \subseteq TextFields
    BY FieldNames
<1>2. \A k \in {"key", "value"} : Halfway(Added(tx, k, c), vs, done, <<p>> ++ ps, r)
    BY <1>1, AddedFacts DEF Halfway, Complete
<1>3. Kept(tx, "key", c, {","}) = (IF c = "," THEN tx ELSE Added(tx, "key", c))
      /\ Kept(tx, "value", c, {"=", "cr"}) = (IF c \in {"=", "cr"} THEN tx ELSE Added(tx, "value", c))
    BY DEF Kept
<1>4. ASSUME NEW t, Halfway(t, vs, done, <<p>> ++ ps, r)
      PROVE  /\ AtKey(y, t, p, ps, later) => InRecord("Key", y, t, vs, <<>>, r, later)
             /\ AtValue(y, t, p, ps, later) => InRecord("Value", y, t, vs, <<>>, r, later)
             /\ \A q : AtMvalue(y, t, q, p, ps, later) => InRecord("Mvalue", y, t, vs, q, r, later)
    BY <1>4 DEF InRecord
<1>5. CASE f = "Key" /\ qs = <<>> /\ AtKey(<<c>> ++ y, tx, p, ps, later)
    <2>1. \/ g = "Key" /\ c # "," /\ AtKey(y, Added(tx, "key", c), p, ps, later)
          \/ g = "Value" /\ c = "=" /\ AtValue(y, tx, p, ps, later)
        BY <1>5, KeyNext
    <2>. HIDE DEF g
    <2>2. CASE g = "Key" /\ c # "," /\ AtKey(y, Added(tx, "key", c), p, ps, later)
        <3>1. InRecord("Key", y, Added(tx, "key", c), vs, <<>>, r, later)
            BY <1>2, <1>4, <2>2
        <3>. QED
            BY <1>3, <1>5, <2>2, <3>1 DEF Runs
    <2>3. CASE g = "Value" /\ c = "=" /\ AtValue(y, tx, p, ps, later)
        <3>1. InRecord("Value", y, tx, vs, <<>>, r, later)
            BY <1>4, <2>3
        <3>. QED
            BY <1>3, <1>5, <2>3, <3>1 DEF Runs
    <2>. QED
        BY <2>1, <2>2, <2>3
<1>6. CASE f = "Value" /\ qs = <<>> /\ AtValue(<<c>> ++ y, tx, p, ps, later)
    <2>1. \/ g = "Value" /\ c \notin {"=", "cr"} /\ AtValue(y, Added(tx, "value", c), p, ps, later)
          \/ g = "Value" /\ c = "cr" /\ AtValue(y, tx, p, ps, later)
          \/ g = "Mvalue" /\ c \in {"'", "dq"} /\ AtMvalue(y, Added(tx, "value", c), <<c>>, p, ps, later)
          \/ g = "EndValue" /\ Ended(<<c>> ++ y, tx, p, ps, later)
        BY <1>6, ValueNext
    <2>. HIDE DEF g
    <2>2. CASE g = "Value" /\ c \notin {"=", "cr"} /\ AtValue(y, Added(tx, "value", c), p, ps, later)
        <3>1. InRecord("Value", y, Added(tx, "value", c), vs, <<>>, r, later)
            BY <1>2, <1>4, <2>2
        <3>. QED
            BY <1>3, <1>6, <2>2, <3>1 DEF Runs
    <2>3. CASE g = "Value" /\ c = "cr" /\ AtValue(y, tx, p, ps, later)
        <3>1. InRecord("Value", y, tx, vs, <<>>, r, later)
            BY <1>4, <2>3
        <3>. QED
            BY <1>3, <1>6, <2>3, <3>1 DEF Runs
    <2>4. CASE g = "Mvalue" /\ c \in {"'", "dq"} /\ AtMvalue(y, Added(tx, "value", c), <<c>>, p, ps, later)
        <3>1. InRecord("Mvalue", y, Added(tx, "value", c), vs, <<c>>, r, later)
            BY <1>2, <1>4, <2>4
        <3>2. QuotesAfter(qs, c) = <<c>>
            BY <1>6, <2>4 DEF QuotesAfter
        <3>. QED
            BY <2>4, <3>1, <3>2 DEF Runs
    <2>5. CASE g = "EndValue" /\ Ended(<<c>> ++ y, tx, p, ps, later)
        BY <1>6, <2>5, EndedRuns
    <2>. QED
        BY <2>1, <2>2, <2>3, <2>4, <2>5
<1>7. CASE f = "Mvalue" /\ AtMvalue(<<c>> ++ y, tx, qs, p, ps, later)
    <2>1. \/ g = "Mvalue" /\ AtMvalue(y, Added(tx, "value", c), QuotesAfter(qs, c), p, ps, later)
          \/ g = "EndValue" /\ qs = <<>> /\ Ended(<<c>> ++ y, tx, p, ps, later)
        BY <1>7, MvalueNext
    <2>. HIDE DEF g
    <2>2. CASE g = "Mvalue" /\ AtMvalue(y, Added(tx, "value", c), QuotesAfter(qs, c), p, ps, later)
        <3>1. InRecord("Mvalue", y, Added(tx, "value", c), vs, QuotesAfter(qs, c), r, later)
            BY <1>2, <1>4, <2>2
        <3>. QED
            BY <2>2, <3>1 DEF Runs
    <2>3. CASE g = "EndValue" /\ qs = <<>> /\ Ended(<<c>> ++ y, tx, p, ps, later)
        BY <2>3, EndedRuns
    <2>. QED
        BY <2>1, <2>2, <2>3
<1>. QED
    BY <1>5, <1>6, <1>7

(* What follows a property, as a step of the record.                       *)
LEMMA EndValueRuns ==
    ASSUME NEW c \in Symbol, NEW y \in Texts, NEW tx \in Text, NEW vs, NEW done \in Seq(Property),
           NEW ps \in Seq(Property), NEW r \in LogRecord, NEW later \in Records,
           Halfway(tx, vs, done, ps, r), AtEndValue(<<c>> ++ y, tx, ps, later)
    PROVE  Runs(Lookup("EndValue", TypeChar(c, <<>>)), c, y, tx, vs, <<>>, r, later)
<1> DEFINE g == Lookup("EndValue", TypeChar(c, <<>>))
<1>1. \/ /\ ps # <<>> /\ g = "Key" /\ c = ","
         /\ \E p \in Property, qs \in Seq(Property) : ps = <<p>> ++ qs /\ AtKey(y, tx, p, qs, later)
      \/ ps = <<>> /\ g = "EndEvent" /\ <<c>> ++ y = <<"nl">> ++ LogText(later)
    BY EndValueNext, ZenonT(40)
<1>. HIDE DEF g
<1>2. ASSUME g = "Key", c = ",", NEW p \in Property, NEW qs \in Seq(Property),
             ps = <<p>> ++ qs, AtKey(y, tx, p, qs, later)
      PROVE  Runs(g, c, y, tx, vs, <<>>, r, later)
    <2>1. Halfway(tx, vs, done, <<p>> ++ qs, r)
        BY <1>2
    <2>2. InRecord("Key", y, tx, vs, <<>>, r, later)
        BY <1>2, <2>1 DEF InRecord
    <2>3. Kept(tx, "key", c, {","}) = tx
        BY <1>2 DEF Kept
    <2>. QED
        BY <1>2, <2>2, <2>3 DEF Runs
<1>3. ASSUME ps = <<>>, g = "EndEvent", <<c>> ++ y = <<"nl">> ++ LogText(later)
      PROVE  Runs(g, c, y, tx, vs, <<>>, r, later)
    <2>1. r.properties = done
        BY <1>3, ShownListFacts DEF Halfway
    <2>2. Complete(tx, r) /\ vs = ShownList(r.properties)
        BY <2>1 DEF Halfway
    <2>. QED
        BY <1>3, <2>2 DEF Runs
<1>4. Runs(g, c, y, tx, vs, <<>>, r, later)
    BY <1>1, <1>2, <1>3
<1>. QED
    BY <1>4 DEF g

(* One character of a record: the table names the handler that is for it,  *)
(* and the handler keeps its place in the record.                          *)
LEMMA RecordRuns ==
    ASSUME NEW f, NEW c \in Symbol, NEW y \in Texts, NEW tx \in Text, NEW vs, NEW qs,
           NEW r \in LogRecord, NEW later \in Records,
           InRecord(f, <<c>> ++ y, tx, vs, qs, r, later)
    PROVE  Runs(Lookup(f, TypeChar(c, qs)), c, y, tx, vs, qs, r, later)
<1>1. ASSUME NEW n \in 1 .. 6, f = HandlerOf[n], vs = <<>>, qs = <<>>,
             AtField(n, <<c>> ++ y, tx, r, later)
      PROVE  Runs(Lookup(f, TypeChar(c, qs)), c, y, tx, vs, qs, r, later)
    BY <1>1, FieldRuns
<1>2. ASSUME NEW done \in Seq(Property), NEW p \in Property, NEW ps \in Seq(Property),
             Halfway(tx, vs, done, <<p>> ++ ps, r),
             \/ f = "Key" /\ qs = <<>> /\ AtKey(<<c>> ++ y, tx, p, ps, later)
             \/ f = "Value" /\ qs = <<>> /\ AtValue(<<c>> ++ y, tx, p, ps, later)
             \/ f = "Mvalue" /\ AtMvalue(<<c>> ++ y, tx, qs, p, ps, later)
      PROVE  Runs(Lookup(f, TypeChar(c, qs)), c, y, tx, vs, qs, r, later)
    BY <1>2, PropertyRuns
<1>3. ASSUME NEW done \in Seq(Property), NEW ps \in Seq(Property),
             Halfway(tx, vs, done, ps, r), f = "EndValue", qs = <<>>,
             AtEndValue(<<c>> ++ y, tx, ps, later)
      PROVE  Runs(Lookup(f, TypeChar(c, qs)), c, y, tx, vs, qs, r, later)
    BY <1>3, EndValueRuns
<1>. QED
    BY <1>1, <1>2, <1>3 DEF InRecord

-----------------------------------------------------------------------------
(* One character of a log.                                                 *)

\* Handler f has just run between two records, or within one.
Between(f, left, tx, vs, qs, before, log) ==
    \E later \in Records :
       /\ log = before ++ later /\ qs = <<>>
       /\ \/ f = "Start" /\ left = LogText(later) /\ tx = NoText /\ vs = <<>>
          \/ f = "EndEvent" /\ left = <<"nl">> ++ LogText(later)

Within(f, left, tx, vs, qs, before, log) ==
    \E r \in LogRecord, later \in Records :
       /\ log = before ++ (<<r>> ++ later)
       /\ Len(left) <= Len(LogText(<<r>> ++ later))
       /\ InRecord(f, left, tx, vs, qs, r, later)

Place(f, left, tx, vs, qs, before, log) ==
    \/ Between(f, left, tx, vs, qs, before, log)
    \/ Within(f, left, tx, vs, qs, before, log)

Goes(g, c, y, tx, vs, qs, before, log) ==
    \/ g = "Start" /\ c = "nl" /\ Place("Start", y, NoText, <<>>, qs, before, log)
    \/ \E n \in 1 .. 6 :
          /\ g = HandlerOf[n]
          /\ Place(g, y, Kept(tx, FieldOf[n], c, Separators(n)), vs, qs, before, log)
    \/ g = "Key" /\ Place("Key", y, Kept(tx, "key", c, {","}), vs, qs, before, log)
    \/ g = "Value" /\ Place("Value", y, Kept(tx, "value", c, {"=", "cr"}), vs, qs, before, log)
    \/ g = "Mvalue" /\ Place("Mvalue", y, Added(tx, "value", c), vs, QuotesAfter(qs, c), before, log)
    \/ /\ g = "EndValue"
       /\ Place("EndValue", <<c>> ++ y, Cleared(tx), Append(vs, Shows(tx)), qs, before, log)
    \/ /\ g = "EndEvent"
       /\ \E r \in LogRecord :
             /\ Complete(tx, r) /\ vs = ShownList(r.properties)
             /\ Place("EndEvent", <<c>> ++ y, tx, vs, qs, before ++ <<r>>, log)

(* Concatenation of logs.                                                  *)
LEMMA RecordsFacts ==
    /\ \A r \in LogRecord : <<r>> \in Records
    /\ \A a, b \in Records : a ++ b \in Records /\ Len(a ++ b) = Len(a) + Len(b)
    /\ \A a, b, c \in Records : a ++ (b ++ c) = (a ++ b) ++ c
    /\ \A a \in Records : <<>> ++ a = a /\ a ++ <<>> = a /\ Len(a) \in Nat
    /\ <<>> \in Records
<1>1. /\ \A r \in LogRecord : <<r>> \in Records
      /\ <<>> \in Records /\ \A a \in Records : Len(a) \in Nat
    BY DEF Records
<1>2. \A a, b \in Records : a ++ b \in Records /\ Len(a ++ b) = Len(a) + Len(b)
    BY CatFacts DEF Records
<1>3. \A a, b, c \in Records : a ++ (b ++ c) = (a ++ b) ++ c
    BY CatFacts DEF Records
<1>4. \A a \in Records : <<>> ++ a = a /\ a ++ <<>> = a
    BY CatFacts DEF Records
<1>. QED
    BY <1>1, <1>2, <1>3, <1>4

(* One character of a log, within a record.                                *)
LEMMA WithinGoes ==
    ASSUME NEW f, NEW c \in Symbol, NEW y \in Texts, NEW tx \in Text, NEW vs, NEW qs,
           NEW before \in Records, NEW log, Within(f, <<c>> ++ y, tx, vs, qs, before, log)
    PROVE  Goes(Lookup(f, TypeChar(c, qs)), c, y, tx, vs, qs, before, log)
<1> DEFINE g == Lookup(f, TypeChar(c, qs))  left == <<c>> ++ y
<1> SUFFICES Goes(g, c, y, tx, vs, qs, before, log)
    OBVIOUS
<1>1. PICK r \in LogRecord, later \in Records :
         /\ log = before ++ (<<r>> ++ later)
         /\ Len(left) <= Len(LogText(<<r>> ++ later))
         /\ InRecord(f, left, tx, vs, qs, r, later)
    BY DEF Within
<1>2. Runs(g, c, y, tx, vs, qs, r, later)
    BY <1>1, RecordRuns
<1>3. Len(y) <= Len(LogText(<<r>> ++ later))
    <2>1. /\ <<c>> \in Texts /\ Len(<<c>>) = 1 /\ Len(y) \in Nat
          /\ LogText(<<r>> ++ later) \in Texts
        BY TextsFacts, LogFacts
    <2>2. Len(left) = Len(<<c>>) + Len(y) /\ Len(LogText(<<r>> ++ later)) \in Nat
        BY <2>1, TextsFacts
    <2>. HIDE DEF left
    <2>. QED
        BY <1>1, <2>1, <2>2
<1>. HIDE DEF g, left
<1>4. ASSUME NEW h, NEW t, NEW us, NEW q
      PROVE  /\ InRecord(h, y, t, us, q, r, later) => Place(h, y, t, us, q, before, log)
             /\ InRecord(h, left, t, us, q, r, later) => Place(h, left, t, us, q, before, log)
    BY <1>1, <1>3 DEF Place, Within
<1>5. ASSUME NEW n \in 1 .. 6, g = HandlerOf[n],
             InRecord(g, y, Kept(tx, FieldOf[n], c, Separators(n)), vs, qs, r, later)
      PROVE  Goes(g, c, y, tx, vs, qs, before, log)
    <2>1. Place(g, y, Kept(tx, FieldOf[n], c, Separators(n)), vs, qs, before, log)
        BY <1>4, <1>5, Zenon
    <2>. QED
        BY <1>5, <2>1, Zenon DEF Goes
<1>6. ASSUME g = "Key", InRecord("Key", y, Kept(tx, "key", c, {","}), vs, qs, r, later)
      PROVE  Goes(g, c, y, tx, vs, qs, before, log)
    <2>1. Place("Key", y, Kept(tx, "key", c, {","}), vs, qs, before, log)
        BY <1>4, <1>6, Zenon
    <2>. QED
        BY <1>6, <2>1, Zenon DEF Goes
<1>7. ASSUME g = "Value", InRecord("Value", y, Kept(tx, "value", c, {"=", "cr"}), vs, qs, r, later)
      PROVE  Goes(g, c, y, tx, vs, qs, before, log)
    <2>1. Place("Value", y, Kept(tx, "value", c, {"=", "cr"}), vs, qs, before, log)
        BY <1>4, <1>7, Zenon
    <2>. QED
        BY <1>7, <2>1, Zenon DEF Goes
<1>8. ASSUME g = "Mvalue", InRecord("Mvalue", y, Added(tx, "value", c), vs, QuotesAfter(qs, c), r, later)
      PROVE  Goes(g, c, y, tx, vs, qs, before, log)
    <2>1. Place("Mvalue", y, Added(tx, "value", c), vs, QuotesAfter(qs, c), before, log)
        BY <1>4, <1>8, Zenon
    <2>. QED
        BY <1>8, <2>1, Zenon DEF Goes
<1>9. ASSUME g = "EndValue",
             InRecord("EndValue", left, Cleared(tx), Append(vs, Shows(tx)), qs, r, later)
      PROVE  Goes(g, c, y, tx, vs, qs, before, log)
    <2>1. Place("EndValue", left, Cleared(tx), Append(vs, Shows(tx)), qs, before, log)
        BY <1>4, <1>9, Zenon
    <2>. QED
        BY <1>9, <2>1, Zenon DEF Goes, left
<1>10. ASSUME g = "EndEvent", qs = <<>>, Complete(tx, r), vs = ShownList(r.properties),
              left = <<"nl">> ++ LogText(later)
       PROVE  Goes(g, c, y, tx, vs, qs, before, log)
    <2>1. log = (before ++ <<r>>) ++ later
        BY <1>1, RecordsFacts
    <2>2. Place("EndEvent", left, tx, vs, qs, before ++ <<r>>, log)
        BY <1>10, <2>1 DEF Place, Between
    <2>. QED
        BY <1>10, <2>2, Zenon DEF Goes, left
<1>. QED
    BY <1>2, <1>5, <1>6, <1>7, <1>8, <1>9, <1>10 DEF Runs, left

(* One character of a log, between two records.                            *)
LEMMA BetweenGoes ==
    ASSUME NEW f, NEW c \in Symbol, NEW y \in Texts, NEW tx \in Text, NEW vs, NEW qs,
           NEW before \in Records, NEW log, Between(f, <<c>> ++ y, tx, vs, qs, before, log)
    PROVE  Goes(Lookup(f, TypeChar(c, qs)), c, y, tx, vs, qs, before, log)
<1> DEFINE g == Lookup(f, TypeChar(c, qs))  left == <<c>> ++ y
<1> SUFFICES Goes(g, c, y, tx, vs, qs, before, log)
    OBVIOUS
<1>1. PICK later \in Records :
         /\ log = before ++ later /\ qs = <<>>
         /\ \/ f = "Start" /\ left = LogText(later) /\ tx = NoText /\ vs = <<>>
            \/ f = "EndEvent" /\ left = <<"nl">> ++ LogText(later)
    BY DEF Between
<1>2. ASSUME f = "Start", left = LogText(later), tx = NoText, vs = <<>>
      PROVE  Goes(g, c, y, tx, vs, qs, before, log)
    <2>1. /\ c \in Digits
          /\ \E r \in LogRecord, rest \in Records :
                later = <<r>> ++ rest /\ AtField(1, y, Added(NoText, "minute", c), r, rest)
        BY <1>2, StartNext
    <2>2. PICK r \in LogRecord, rest \in Records :
             later = <<r>> ++ rest /\ AtField(1, y, Added(NoText, "minute", c), r, rest)
        BY <2>1
    <2>3. g = "Minute"
        BY <1>1, <1>2, <2>1, LookupStart
    <2>4. HandlerOf[1] = "Minute" /\ FieldOf[1] = "minute" /\ Separators(1) = {} /\ 1 \in 1 .. 6
        BY DEF HandlerOf, FieldOf, Separators
    <2>. DEFINE t == Added(tx, "minute", c)
    <2>5. Kept(tx, FieldOf[1], c, Separators(1)) = t
        BY <2>4 DEF Kept
    <2>6. AtField(1, y, t, r, rest)
        BY <1>2, <2>2
    <2>7. Len(y) <= Len(LogText(<<r>> ++ rest))
        <3>1. <<c>> \in Texts /\ Len(<<c>>) = 1 /\ Len(y) \in Nat
            BY TextsFacts
        <3>2. Len(left) = Len(<<c>>) + Len(y)
            BY <3>1, TextsFacts
        <3>3. LogText(<<r>> ++ rest) = left
            BY <1>2, <2>2
        <3>. QED
            BY <3>1, <3>2, <3>3
    <2>. HIDE DEF t, g
    <2>8. InRecord(HandlerOf[1], y, t, vs, qs, r, rest)
        BY <1>1, <1>2, <2>4, <2>6 DEF InRecord
    <2>9. Place(HandlerOf[1], y, t, vs, qs, before, log)
        BY <1>1, <2>2, <2>7, <2>8 DEF Place, Within
    <2>. QED
        BY <2>3, <2>4, <2>5, <2>9 DEF Goes
<1>3. ASSUME f = "EndEvent", left = <<"nl">> ++ LogText(later)
      PROVE  Goes(g, c, y, tx, vs, qs, before, log)
    <2>1. AfterReturn(left, <<>>, later)
        BY <1>3 DEF AfterReturn
    <2>2. c = "nl" /\ y = LogText(later)
        BY <2>1, AfterReturnNext
    <2>3. g = "Start"
        BY <1>1, <1>3, <2>2, LookupEnds
    <2>4. Place("Start", y, NoText, <<>>, qs, before, log)
        BY <1>1, <2>2 DEF Place, Between
    <2>. HIDE DEF g
    <2>. QED
        BY <2>2, <2>3, <2>4 DEF Goes
<1>. QED
    BY <1>1, <1>2, <1>3

-----------------------------------------------------------------------------
(* The parser on a log.                                                    *)

Stand(all, before) ==
    /\ Len(all) = Len(before)
    /\ \A i \in 1 .. Len(before) : StandsFor(all[i], before[i])

Left == SubSeq(input, ch, Len(input))

\* How far the parser is in a log that its file holds.
Follows(log) ==
    /\ pc \in {"idle", "parse"}
    /\ \E f \in Handlers, before \in Records :
          /\ Stand(Seen, before)
          /\ Place(f, Left, text, values, quotes, before, log)
          /\ pc = "idle" => fn = f /\ f # "EndEvent"
          /\ pc = "parse" => fn = Lookup(f, TypeChar(input[ch], quotes))

LogInv == \A log \in Logs : TextOf[log] = input => Follows(log)

(* A log is a sequence of records, and its text is a text.                 *)
LEMMA LogOfInput ==
    ASSUME NEW log \in Logs
    PROVE  log \in Records /\ TextOf[log] = LogText(log) /\ LogText(log) \in Texts
    BY LogAssumption, LogFacts DEF TextOf, Records

(* The file holds a text.                                                  *)
LEMMA InputTexts == TypeInv => input \in Texts /\ Char \subseteq Symbol
<1> SUFFICES ASSUME TypeInv PROVE input \in Texts /\ Char \subseteq Symbol
    OBVIOUS
<1>1. input \in Seq(Char) /\ Char \subseteq Symbol
    BY InputAssumption DEF TypeInv, TypeOK, Symbol
<1>. QED
    BY <1>1, SubTexts

(* What is left of a text begins with the next character.                  *)
LEMMA LeftNext ==
    ASSUME NEW s \in Texts, NEW i \in 1 .. Len(s)
    PROVE  /\ s[i] \in Symbol /\ SubSeq(s, i + 1, Len(s)) \in Texts
           /\ SubSeq(s, i, Len(s)) = <<s[i]>> ++ SubSeq(s, i + 1, Len(s))
<1> DEFINE t == SubSeq(s, i, Len(s))  u == <<s[i]>> \o SubSeq(s, i + 1, Len(s))
<1>1. s[i] \in Symbol /\ SubSeq(s, i + 1, Len(s)) \in Texts
    BY DEF Texts
<1>2. t \in Seq(Symbol) /\ u \in Seq(Symbol) /\ Len(t) = Len(u)
    BY DEF Texts
<1>3. \A j \in 1 .. Len(t) : t[j] = u[j]
    BY DEF Texts
<1>. HIDE DEF t, u
<1>4. t = u
    BY <1>2, <1>3, SeqEqual
<1>. QED
    BY <1>1, <1>4 DEF t, u, ++

(* At the beginning all of the log is left.                                *)
LEMMA InitLogInv == Init => LogInv
<1> SUFFICES ASSUME Init, NEW log \in Logs, TextOf[log] = input PROVE Follows(log)
    BY DEF LogInv
<1>1. input = LogText(log) /\ log \in Records /\ input \in Texts
    BY LogOfInput
<1>2. Left = LogText(log)
    <2>1. \A s \in Texts : SubSeq(s, 1, Len(s)) = s
        <3> SUFFICES ASSUME NEW s \in Texts PROVE SubSeq(s, 1, Len(s)) = s
            OBVIOUS
        <3>1. SubSeq(s, 1, Len(s)) \in Seq(Symbol) /\ s \in Seq(Symbol)
              /\ Len(SubSeq(s, 1, Len(s))) = Len(s)
            BY DEF Texts
        <3>2. \A i \in 1 .. Len(s) : SubSeq(s, 1, Len(s))[i] = s[i]
            BY DEF Texts
        <3>. QED
            BY <3>1, <3>2, SeqEqual
    <2>. QED
        BY <1>1, <2>1 DEF Left, Init
<1>3. Seen = <<>>
    BY DEF Init, Seen
<1>4. Stand(Seen, <<>>)
    BY <1>3 DEF Stand
<1>5. log = <<>> ++ log /\ <<>> \in Records
    BY <1>1, RecordsFacts
<1>6. Place("Start", Left, text, values, quotes, <<>>, log)
    <2>1. quotes = <<>> /\ text = NoText /\ values = <<>>
        BY DEF Init
    <2>. QED
        BY <1>1, <1>2, <1>5, <2>1 DEF Place, Between
<1>7. pc = "idle" /\ fn = "Start" /\ "Start" \in Handlers
    BY DEF Init, Handlers
<1>. QED
    BY <1>4, <1>5, <1>6, <1>7 DEF Follows

(* After a handler that kept its place the parser follows the log, in the  *)
(* chunk or at its end.                                                    *)
LEMMA Landed ==
    ASSUME NEW log \in Logs, NextHandler(end), input' = input, fn \in Handlers,
           ch' = end => fn # "EndEvent",
           NEW before \in Records, Stand(Seen', before),
           Place(fn, Left', text', values', quotes', before, log)
    PROVE  Follows(log)'
<1>1. \/ pc' = "idle" /\ fn' = fn /\ fn # "EndEvent"
      \/ pc' = "parse" /\ fn' = Lookup(fn, TypeChar(input'[ch'], quotes'))
    BY DEF NextHandler
<1>. QED
    BY <1>1 DEF Follows

(* The character at which the parser stands is one the table has a handler *)
(* for.                                                                    *)
LEMMA StepGoes ==
    ASSUME TypeInv, NEW log \in Logs, Follows(log), pc = "parse"
    PROVE  LET c == input[ch]
               y == SubSeq(input, ch + 1, Len(input))
           IN /\ c \in Symbol /\ y \in Texts /\ Left = <<c>> ++ y
              /\ \E before \in Records :
                    Stand(Seen, before) /\ Goes(fn, c, y, text, values, quotes, before, log)
<1> DEFINE c == input[ch]  y == SubSeq(input, ch + 1, Len(input))
<1>1. input \in Texts /\ ch \in 1 .. Len(input) /\ text \in Text
    BY InputTexts, CurrentChar DEF TypeInv, TypeOK
<1>2. c \in Symbol /\ y \in Texts /\ Left = <<c>> ++ y
    BY <1>1, LeftNext DEF Left
<1>3. PICK f \in Handlers, before \in Records :
         /\ Stand(Seen, before)
         /\ Place(f, Left, text, values, quotes, before, log)
         /\ fn = Lookup(f, TypeChar(c, quotes))
    BY DEF Follows
<1>. HIDE DEF c, y
<1>4. Place(f, <<c>> ++ y, text, values, quotes, before, log)
    BY <1>2, <1>3
<1>5. Goes(fn, c, y, text, values, quotes, before, log)
    BY <1>1, <1>2, <1>3, <1>4, WithinGoes, BetweenGoes DEF Place
<1>6. \E b \in Records : Stand(Seen, b) /\ Goes(fn, c, y, text, values, quotes, b, log)
    BY <1>3, <1>5
<1>. QED
    BY <1>2, <1>6 DEF c, y

(* The same of a handler that consumed its character.                      *)
LEMMA LandedAfter ==
    ASSUME NEW log \in Logs, TypeInv, pc = "parse", NextHandler(end),
           UNCHANGED <<input, events, taken>>, ch' = ch + 1, fn \in Handlers, fn # "EndEvent",
           NEW before \in Records, Stand(Seen, before),
           Place(fn, SubSeq(input, ch + 1, Len(input)), text', values', quotes', before, log)
    PROVE  Follows(log)'
<1>1. Seen' = Seen /\ Left' = SubSeq(input, ch + 1, Len(input))
    BY DEF Seen, Left
<1>. QED
    BY <1>1, Landed

(* No other handler has the name of a field's.                             *)
LEMMA NotField == \A n \in 1 .. 6, f \in {"Start", "Key", "Value", "Mvalue", "EndValue", "EndEvent", "Error"} :
                     HandlerOf[n] # f
    BY HandlerNames

(* Start keeps its place: it consumes the new line of the record before.   *)
LEMMA StartFollowsLog ==
    ASSUME TypeInv, NEW log \in Logs, Follows(log), Start
    PROVE  Follows(log)'
<1> DEFINE c == input[ch]  y == SubSeq(input, ch + 1, Len(input))
<1>0. pc = "parse" /\ fn = "Start" /\ "Start" \in Handlers
    BY DEF Start, Handler, Handlers
<1>1. PICK before \in Records :
         Stand(Seen, before) /\ Goes(fn, c, y, text, values, quotes, before, log)
    BY <1>0, StepGoes
<1>. HIDE DEF c, y
<1>2. c = "nl" /\ Place("Start", y, NoText, <<>>, quotes, before, log)
    BY <1>0, <1>1, NotField DEF Goes
<1>3. /\ ch' = ch + 1 /\ text' = NoText /\ values' = <<>> /\ quotes' = quotes
      /\ UNCHANGED <<input, events, taken>> /\ NextHandler(end)
    BY <1>2 DEF Start, Restarted, Advance, c
<1>4. Place(fn, y, text', values', quotes', before, log)
    BY <1>0, <1>2, <1>3
<1>. QED
    BY <1>0, <1>1, <1>3, <1>4, LandedAfter DEF y

(* What a handler that collects changes.                                   *)
LEMMA CollectKeeps ==
    ASSUME NEW f, NEW field, NEW separators, Collect(f, field, separators)
    PROVE  /\ pc = "parse" /\ fn = f
           /\ text' = Kept(text, field, input[ch], separators)
           /\ ch' = ch + 1 /\ values' = values /\ quotes' = quotes
           /\ UNCHANGED <<input, events, taken>> /\ NextHandler(end)
    BY DEF Collect, Handler, Kept, Added, Advance

(* The handlers of the fields are six instances of one operator.           *)
LEMMA FieldHandlers ==
    ASSUME Minute \/ Second \/ Msecond \/ Duration \/ Event \/ Level
    PROVE  \E n \in 1 .. 6 : Collect(HandlerOf[n], FieldOf[n], Separators(n))
<1>1. /\ HandlerOf[1] = "Minute" /\ HandlerOf[2] = "Second" /\ HandlerOf[3] = "Msecond"
      /\ HandlerOf[4] = "Duration" /\ HandlerOf[5] = "Event" /\ HandlerOf[6] = "Level"
    BY DEF HandlerOf
<1>2. /\ FieldOf[1] = "minute" /\ FieldOf[2] = "second" /\ FieldOf[3] = "msecond"
      /\ FieldOf[4] = "duration" /\ FieldOf[5] = "name" /\ FieldOf[6] = "level"
    BY DEF FieldOf
<1>3. /\ Separators(1) = {} /\ Separators(2) = {":"} /\ Separators(3) = {"."}
      /\ Separators(4) = {"-"} /\ Separators(5) = {","} /\ Separators(6) = {","}
    BY DEF Separators, SepOf
<1>4. 1 \in 1 .. 6 /\ 2 \in 1 .. 6 /\ 3 \in 1 .. 6 /\ 4 \in 1 .. 6 /\ 5 \in 1 .. 6 /\ 6 \in 1 .. 6
    OBVIOUS
<1>5. Minute => Collect(HandlerOf[1], FieldOf[1], Separators(1))
    BY <1>1, <1>2, <1>3 DEF Minute
<1>6. Second => Collect(HandlerOf[2], FieldOf[2], Separators(2))
    BY <1>1, <1>2, <1>3 DEF Second
<1>7. Msecond => Collect(HandlerOf[3], FieldOf[3], Separators(3))
    BY <1>1, <1>2, <1>3 DEF Msecond
<1>8. Duration => Collect(HandlerOf[4], FieldOf[4], Separators(4))
    BY <1>1, <1>2, <1>3 DEF Duration
<1>9. Event => Collect(HandlerOf[5], FieldOf[5], Separators(5))
    BY <1>1, <1>2, <1>3 DEF Event
<1>10. Level => Collect(HandlerOf[6], FieldOf[6], Separators(6))
    BY <1>1, <1>2, <1>3 DEF Level
<1>. QED
    BY <1>4, <1>5, <1>6, <1>7, <1>8, <1>9, <1>10, Zenon

(* The handlers of the fields keep their place.                            *)
LEMMA FieldFollowsLog ==
    ASSUME TypeInv, NEW log \in Logs, Follows(log),
           Minute \/ Second \/ Msecond \/ Duration \/ Event \/ Level
    PROVE  Follows(log)'
<1> DEFINE c == input[ch]  y == SubSeq(input, ch + 1, Len(input))
<1>0. PICK n \in 1 .. 6 : Collect(HandlerOf[n], FieldOf[n], Separators(n))
    BY FieldHandlers
<1>1. /\ pc = "parse" /\ fn = HandlerOf[n]
      /\ text' = Kept(text, FieldOf[n], c, Separators(n))
      /\ ch' = ch + 1 /\ values' = values /\ quotes' = quotes
      /\ UNCHANGED <<input, events, taken>> /\ NextHandler(end)
    BY <1>0, CollectKeeps
<1>2. PICK before \in Records :
         Stand(Seen, before) /\ Goes(fn, c, y, text, values, quotes, before, log)
    BY <1>1, StepGoes
<1>3. fn \in Handlers /\ fn # "EndEvent"
    BY <1>1, HandlerNames
<1>. HIDE DEF c, y
<1>4. PICK m \in 1 .. 6 :
         /\ fn = HandlerOf[m]
         /\ Place(fn, y, Kept(text, FieldOf[m], c, Separators(m)), values, quotes, before, log)
    <2>1. fn \notin {"Start", "Key", "Value", "Mvalue", "EndValue", "EndEvent"}
        BY <1>1, HandlerNames
    <2>. QED
        BY <1>2, <2>1 DEF Goes
<1>5. m = n
    BY <1>1, <1>4, HandlerNames
<1>6. Place(fn, y, text', values', quotes', before, log)
    BY <1>1, <1>4, <1>5
<1>. QED
    BY <1>1, <1>2, <1>3, <1>6, LandedAfter DEF y

(* Key keeps its place.                                                    *)
LEMMA KeyFollowsLog ==
    ASSUME TypeInv, NEW log \in Logs, Follows(log), Key
    PROVE  Follows(log)'
<1> DEFINE c == input[ch]  y == SubSeq(input, ch + 1, Len(input))
<1>1. /\ pc = "parse" /\ fn = "Key" /\ text' = Kept(text, "key", c, {","})
      /\ ch' = ch + 1 /\ values' = values /\ quotes' = quotes
      /\ UNCHANGED <<input, events, taken>> /\ NextHandler(end)
    BY CollectKeeps DEF Key
<1>2. PICK before \in Records :
         Stand(Seen, before) /\ Goes(fn, c, y, text, values, quotes, before, log)
    BY <1>1, StepGoes
<1>. HIDE DEF c, y
<1>3. Place("Key", y, Kept(text, "key", c, {","}), values, quotes, before, log)
    BY <1>1, <1>2, NotField DEF Goes
<1>4. Place(fn, y, text', values', quotes', before, log) /\ fn \in Handlers
    BY <1>1, <1>3 DEF Handlers
<1>. QED
    BY <1>1, <1>2, <1>4, LandedAfter DEF y

(* Value keeps its place.                                                  *)
LEMMA ValueFollowsLog ==
    ASSUME TypeInv, NEW log \in Logs, Follows(log), Value
    PROVE  Follows(log)'
<1> DEFINE c == input[ch]  y == SubSeq(input, ch + 1, Len(input))
<1>1. /\ pc = "parse" /\ fn = "Value" /\ text' = Kept(text, "value", c, {"=", "cr"})
      /\ ch' = ch + 1 /\ values' = values /\ quotes' = quotes
      /\ UNCHANGED <<input, events, taken>> /\ NextHandler(end)
    BY CollectKeeps DEF Value
<1>2. PICK before \in Records :
         Stand(Seen, before) /\ Goes(fn, c, y, text, values, quotes, before, log)
    BY <1>1, StepGoes
<1>. HIDE DEF c, y
<1>3. Place("Value", y, Kept(text, "value", c, {"=", "cr"}), values, quotes, before, log)
    BY <1>1, <1>2, NotField DEF Goes
<1>4. Place(fn, y, text', values', quotes', before, log) /\ fn \in Handlers
    BY <1>1, <1>3 DEF Handlers
<1>. QED
    BY <1>1, <1>2, <1>4, LandedAfter DEF y

(* Mvalue keeps its place, and its quotes say whether it is within the     *)
(* quotes.                                                                 *)
LEMMA MvalueFollowsLog ==
    ASSUME TypeInv, NEW log \in Logs, Follows(log), Mvalue
    PROVE  Follows(log)'
<1> DEFINE c == input[ch]  y == SubSeq(input, ch + 1, Len(input))
<1>1. /\ pc = "parse" /\ fn = "Mvalue" /\ ch' = ch + 1 /\ values' = values
      /\ text' = Added(text, "value", c) /\ quotes' = QuotesAfter(quotes, c)
      /\ UNCHANGED <<input, events, taken>> /\ NextHandler(end)
    BY DEF Mvalue, Handler, Advance, Added, QuotesAfter
<1>2. PICK before \in Records :
         Stand(Seen, before) /\ Goes(fn, c, y, text, values, quotes, before, log)
    BY <1>1, StepGoes
<1>. HIDE DEF c, y
<1>3. Place("Mvalue", y, Added(text, "value", c), values, QuotesAfter(quotes, c), before, log)
    BY <1>1, <1>2, NotField DEF Goes
<1>4. Place(fn, y, text', values', quotes', before, log) /\ fn \in Handlers
    BY <1>1, <1>3 DEF Handlers
<1>. QED
    BY <1>1, <1>2, <1>4, LandedAfter DEF y

(* EndValue keeps its place, and adds the value the property has.          *)
LEMMA EndValueFollowsLog ==
    ASSUME TypeInv, NEW log \in Logs, Follows(log), EndValue
    PROVE  Follows(log)'
<1> DEFINE c == input[ch]  y == SubSeq(input, ch + 1, Len(input))
<1>1. /\ pc = "parse" /\ fn = "EndValue" /\ ch' = ch /\ quotes' = quotes
      /\ text' = Cleared(text) /\ values' = Append(values, Shows(text))
      /\ UNCHANGED <<input, events, taken>> /\ NextHandler(end)
    BY DEF EndValue, Handler, Cleared, Shows
<1>2. Left = <<c>> ++ y /\ \E before \in Records :
         Stand(Seen, before) /\ Goes(fn, c, y, text, values, quotes, before, log)
    BY <1>1, StepGoes
<1>3. PICK before \in Records :
         Stand(Seen, before) /\ Goes(fn, c, y, text, values, quotes, before, log)
    BY <1>2
<1>. HIDE DEF c, y
<1>4. Place("EndValue", <<c>> ++ y, Cleared(text), Append(values, Shows(text)), quotes, before, log)
    BY <1>1, <1>3, NotField DEF Goes
<1>5. Left' = Left /\ Seen' = Seen
    BY <1>1 DEF Left, Seen
<1>6. Place(fn, Left', text', values', quotes', before, log) /\ fn \in Handlers /\ fn # "EndEvent"
    BY <1>1, <1>2, <1>4, <1>5 DEF Handlers
<1>. QED
    BY <1>1, <1>3, <1>5, <1>6, Landed

(* EndEvent keeps its place, and adds an event that stands for the record. *)
LEMMA EndEventFollowsLog ==
    ASSUME TypeInv, NEW log \in Logs, Follows(log), EndEvent
    PROVE  Follows(log)'
<1> DEFINE c == input[ch]  y == SubSeq(input, ch + 1, Len(input))
           e == [text |-> text, values |-> values, index |-> index,
                 start |-> start, stop |-> offset]
<1>1. /\ pc = "parse" /\ fn = "EndEvent" /\ ch' = ch /\ quotes' = quotes
      /\ text' = text /\ values' = values
      /\ events' = Append(events, e) /\ taken' = taken
      /\ input' = input /\ NextHandler(end)
    BY DEF EndEvent, Handler, eventData
<1>2. Left = <<c>> ++ y /\ \E before \in Records :
         Stand(Seen, before) /\ Goes(fn, c, y, text, values, quotes, before, log)
    BY <1>1, StepGoes
<1>3. PICK before \in Records :
         Stand(Seen, before) /\ Goes(fn, c, y, text, values, quotes, before, log)
    BY <1>2
<1>4. e \in Parsed /\ e.values = values /\ e.text = text
    BY DEF TypeInv, TypeOK, Parsed
<1>5. ch' # end
    <2>1. ch < end /\ ch \in Nat
        BY <1>1, CurrentChar DEF TypeInv, InBounds
    <2>. QED
        BY <1>1, <2>1
<1>. HIDE DEF c, y, e
<1>6. Seen' = Append(Seen, e) /\ Seen \in Seq(Parsed)
    BY <1>1, <1>4, ConcatFacts DEF Seen, TypeInv, TypeOK
<1>7. PICK r \in LogRecord :
         /\ Complete(text, r) /\ values = ShownList(r.properties)
         /\ Place("EndEvent", <<c>> ++ y, text, values, quotes, before ++ <<r>>, log)
    BY <1>1, <1>3, NotField DEF Goes
<1>8. StandsFor(e, r)
    BY <1>4, <1>7 DEF StandsFor, Complete, ShownList
<1>9. Stand(Append(Seen, e), before ++ <<r>>)
    <2>1. before ++ <<r>> = Append(before, r)
        BY DEF ++, Records
    <2>2. before \in Seq(LogRecord)
        BY DEF Records
    <2>3. Len(Seen) = Len(before) /\ \A i \in 1 .. Len(before) : StandsFor(Seen[i], before[i])
        BY <1>3 DEF Stand
    <2> DEFINE a == Append(Seen, e)  b == Append(before, r)
    <2>4. /\ Len(a) = Len(Seen) + 1 /\ Len(b) = Len(before) + 1 /\ Len(before) \in Nat
          /\ a[Len(before) + 1] = e /\ b[Len(before) + 1] = r
          /\ \A i \in 1 .. Len(before) : a[i] = Seen[i] /\ b[i] = before[i]
        BY <1>6, <2>2, <2>3
    <2>. HIDE DEF a, b
    <2>5. \A i \in 1 .. Len(b) : StandsFor(a[i], b[i])
        <3> SUFFICES ASSUME NEW i \in 1 .. Len(b) PROVE StandsFor(a[i], b[i])
            OBVIOUS
        <3>1. i \in 1 .. Len(before) \/ i = Len(before) + 1
            BY <2>4
        <3>. QED
            BY <1>8, <2>3, <2>4, <3>1
    <2>6. Len(a) = Len(b)
        BY <2>3, <2>4
    <2>. QED
        BY <2>1, <2>5, <2>6 DEF Stand, a, b
<1>10. Left' = Left
    BY <1>1 DEF Left
<1>11. before ++ <<r>> \in Records
    BY RecordsFacts
<1>12. Place(fn, Left', text', values', quotes', before ++ <<r>>, log)
    BY <1>1, <1>2, <1>7, <1>10
<1>13. Stand(Seen', before ++ <<r>>) /\ fn \in Handlers
    BY <1>1, <1>6, <1>9 DEF Handlers
<1>. QED
    BY <1>1, <1>5, <1>11, <1>12, <1>13, Landed

(* In a log there is no character the table has no handler for.            *)
LEMMA ErrorNever ==
    ASSUME TypeInv, NEW log \in Logs, Follows(log), Error
    PROVE  FALSE
<1> DEFINE c == input[ch]  y == SubSeq(input, ch + 1, Len(input))
<1>1. pc = "parse" /\ fn = "Error"
    BY DEF Error, Handler
<1>2. PICK before \in Records :
         Stand(Seen, before) /\ Goes(fn, c, y, text, values, quotes, before, log)
    BY <1>1, StepGoes
<1>. HIDE DEF c, y
<1>. QED
    BY <1>1, <1>2, NotField DEF Goes

(* Wherever the chunk begins, Parse goes on where it was, and does not run *)
(* away.                                                                   *)
LEMMA BeginParseFollowsLog ==
    ASSUME TypeInv, NEW log \in Logs, Follows(log),
           NEW n \in 1 .. Len(input) - ch + 1, BeginParse(n)
    PROVE  Follows(log)'
<1> DEFINE c == input[ch]  y == SubSeq(input, ch + 1, Len(input))
<1>1. pc = "idle" /\ end' = ch + n /\ UNCHANGED <<input, quotes, events, taken>>
    BY DEF BeginParse
<1>2. PICK before \in Records :
         /\ Stand(Seen, before) /\ fn \in Handlers
         /\ Place(fn, Left, text, values, quotes, before, log)
    BY <1>1 DEF Follows
<1>3. input \in Texts /\ ch \in 1 .. Len(input) /\ ch \in Nat
    <2>1. input \in Texts /\ ch \in Nat /\ 1 <= ch
        BY InputTexts DEF TypeInv, TypeOK
    <2>2. Len(input) \in Nat
        BY <2>1, TextsFacts
    <2>. QED
        BY <2>1, <2>2
<1>4. c \in Symbol /\ y \in Texts /\ Left = <<c>> ++ y
    BY <1>3, LeftNext DEF Left
<1>5. /\ ch' = ch
      /\ Place(fn, Left, text', values', quotes, before, log)
    <2>1. CASE fn # "Start"
        BY <1>2, <2>1 DEF BeginParse, eventData
    <2>2. CASE fn = "Start"
        <3>. HIDE DEF c, y
        <3>1. Restarted(c)
            BY <2>2 DEF BeginParse, c
        <3>2. text' = NoText /\ values' = <<>>
            BY <3>1 DEF Restarted
        <3>3. ASSUME Between("Start", Left, text, values, quotes, before, log)
              PROVE  c # "nl" /\ text = NoText /\ values = <<>>
            <4>1. PICK later \in Records :
                     Left = LogText(later) /\ text = NoText /\ values = <<>>
                BY <3>3 DEF Between
            <4>2. LogText(later) = <<c>> ++ y
                BY <1>4, <4>1
            <4>3. c \in Digits
                BY <1>4, <4>2, StartNext
            <4>. QED
                BY <4>1, <4>3 DEF Digits
        <3>4. ~Within("Start", Left, text, values, quotes, before, log)
            BY NotField DEF Within, InRecord
        <3>5. Place("Start", Left, text, values, quotes, before, log)
            BY <1>2, <2>2
        <3>6. c # "nl" /\ text = NoText /\ values = <<>>
            BY <3>3, <3>4, <3>5 DEF Place
        <3>7. ch' = ch
            BY <1>3, <3>1, <3>6 DEF Restarted, Advance
        <3>. QED
            BY <1>2, <3>2, <3>6, <3>7
    <2>. QED
        BY <2>1, <2>2
<1>6. pc' = "parse" /\ fn' = Lookup(fn, TypeChar(input'[ch'], quotes'))
    BY <1>1, <1>3, <1>5 DEF BeginParse
<1>7. Seen' = Seen /\ Left' = Left
    BY <1>1, <1>5 DEF Seen, Left
<1>8. Place(fn, Left', text', values', quotes', before, log) /\ Stand(Seen', before)
    BY <1>1, <1>2, <1>5, <1>7
<1>. QED
    BY <1>2, <1>6, <1>8 DEF Follows

(* Every step keeps the parser in its place in the log.                    *)
LEMMA LogStep == TypeInv /\ LogInv /\ [Next]_vars => LogInv'
<1> SUFFICES ASSUME TypeInv, LogInv, [Next]_vars, NEW log \in Logs, (TextOf[log] = input)'
             PROVE  Follows(log)'
    BY DEF LogInv
<1>0. input' = input
    BY CollectCases
    DEF Next, Handle, BeginParse, Start, EndValue, EndEvent, Mvalue, Error, MoveEvents, vars, Collecting, Collect
<1>1. Follows(log)
    BY <1>0 DEF LogInv, TextOf
<1>2. ASSUME MoveEvents PROVE Follows(log)'
    <2>1. Seen' = Seen
        BY <1>2, ConcatFacts DEF MoveEvents, Seen, TypeInv, TypeOK
    <2>2. Left' = Left
        BY <1>2 DEF MoveEvents, Left
    <2>. QED
        BY <1>1, <1>2, <2>1, <2>2 DEF Follows, MoveEvents, eventData
<1>3. ASSUME UNCHANGED vars PROVE Follows(log)'
    <2>1. Seen' = Seen /\ Left' = Left
        BY <1>3 DEF vars, Seen, Left
    <2>. QED
        BY <1>1, <1>3, <2>1 DEF Follows, vars, eventData
<1>4. ASSUME Handle PROVE Follows(log)'
    BY <1>1, <1>4, StartFollowsLog, FieldFollowsLog, KeyFollowsLog, ValueFollowsLog,
       EndValueFollowsLog, EndEventFollowsLog, MvalueFollowsLog, ErrorNever DEF Handle
<1>. QED
    BY <1>1, <1>2, <1>3, <1>4, BeginParseFollowsLog DEF Next

-----------------------------------------------------------------------------
(* Where the records of a log end.                                         *)

(* A record has a text that is not empty.                                  *)
LEMMA RecordTextLong ==
    ASSUME NEW log \in Records, log # <<>>
    PROVE  Len(LogText(log)) > 0
<1>1. log \in Seq(LogRecord)
    BY DEF Records
<1>2. Head(log) \in LogRecord /\ Tail(log) \in Seq(LogRecord) /\ log = <<Head(log)>> ++ Tail(log)
    BY <1>1, FirstOf
<1>3. PICK r \in LogRecord, rest \in Records : log = <<r>> ++ rest
    BY <1>2, Zenon DEF Records
<1> DEFINE m == r.minute  a == After(1, r, rest)
<1>4. m \in Texts /\ a \in Texts /\ LogText(log) = m ++ a /\ m # <<>>
    BY <1>3, LogFirst, AfterFacts, RecordTypes
<1>. HIDE DEF m, a
<1>5. Len(LogText(log)) = Len(m) + Len(a) /\ Len(m) \in Nat /\ Len(a) \in Nat
    BY <1>4, TextsFacts
<1>6. Len(m) # 0
    BY <1>4 DEF Texts
<1>. QED
    BY <1>5, <1>6

\* The position before the end of record i, and that it grows with i.
EndAt(log, i) == Len(LogText(SubSeq(log, 1, i)))

(* The first j records are the first i and those after them.               *)
LEMMA CutInTwo ==
    ASSUME NEW log \in Records, NEW i \in 0 .. Len(log), NEW j \in 0 .. Len(log), i <= j
    PROVE  /\ SubSeq(log, 1, i) \in Records /\ SubSeq(log, i + 1, j) \in Records
           /\ SubSeq(log, 1, j) = SubSeq(log, 1, i) ++ SubSeq(log, i + 1, j)
           /\ i < j => SubSeq(log, i + 1, j) # <<>>
<1> DEFINE a == SubSeq(log, 1, i)  b == SubSeq(log, i + 1, j)  c == SubSeq(log, 1, j)
<1>1. Len(log) \in Nat /\ log \in Seq(LogRecord)
    BY DEF Records
<1>0. i \in Int /\ j \in Int /\ 0 <= i /\ j <= Len(log)
    BY <1>1
<1>7. a \in Seq(LogRecord) /\ Len(a) = i /\ \A k \in 1 .. i : a[k] = log[k]
    BY <1>0, <1>1
<1>8. c \in Seq(LogRecord) /\ Len(c) = j /\ \A k \in 1 .. j : c[k] = log[k]
    BY <1>0, <1>1
<1>9. b \in Seq(LogRecord) /\ Len(b) = j - i
    BY <1>0, <1>1
<1>10. \A k \in 1 .. (j - i) : b[k] = log[i + k]
    BY <1>0, <1>1
<1>. HIDE DEF a, b, c
<1>2. /\ a \in Seq(LogRecord) /\ Len(a) = i /\ \A k \in 1 .. i : a[k] = log[k]
      /\ b \in Seq(LogRecord) /\ Len(b) = j - i /\ \A k \in 1 .. (j - i) : b[k] = log[i + k]
      /\ c \in Seq(LogRecord) /\ Len(c) = j /\ \A k \in 1 .. j : c[k] = log[k]
    BY <1>7, <1>8, <1>9, <1>10
<1>3. a \o b \in Seq(LogRecord) /\ Len(a \o b) = j
    BY <1>0, <1>2
<1>4. \A k \in 1 .. j : (a \o b)[k] = c[k]
    <2> SUFFICES ASSUME NEW k \in 1 .. j PROVE (a \o b)[k] = c[k]
        OBVIOUS
    <2>1. CASE k <= i
        BY <1>0, <1>2, <2>1
    <2>2. CASE k > i
        <3>1. k - i \in 1 .. (j - i) /\ i + (k - i) = k
            BY <1>0, <2>2
        <3>2. (a \o b)[k] = b[k - i]
            BY <1>0, <1>2, <2>2
        <3>. QED
            BY <1>2, <3>1, <3>2
    <2>3. k <= i \/ k > i
        BY <1>0
    <2>. QED
        BY <2>1, <2>2, <2>3
<1>5. a \o b = c
    BY <1>2, <1>3, <1>4, SeqEqual
<1>6. i < j => b # <<>>
    BY <1>1, <1>2
<1>. QED
    BY <1>2, <1>5, <1>6 DEF a, b, c, ++, Records

(* A later record ends later.                                              *)
LEMMA EndsGrow ==
    ASSUME NEW log \in Records, NEW i \in 0 .. Len(log), NEW j \in 0 .. Len(log)
    PROVE  /\ EndAt(log, i) \in Nat
           /\ i <= j => EndAt(log, i) <= EndAt(log, j)
           /\ i < j => EndAt(log, i) < EndAt(log, j)
<1>1. Len(log) \in Nat
    BY DEF Records
<1>2. EndAt(log, i) \in Nat
    <2>1. SubSeq(log, 1, i) \in Records
        BY <1>1, CutInTwo
    <2>. QED
        BY <2>1, LogFacts, TextsFacts DEF EndAt
<1>3. ASSUME i <= j
      PROVE  /\ EndAt(log, i) <= EndAt(log, j)
             /\ i < j => EndAt(log, i) < EndAt(log, j)
    <2> DEFINE a == SubSeq(log, 1, i)  b == SubSeq(log, i + 1, j)  c == SubSeq(log, 1, j)
    <2>1. a \in Records /\ b \in Records /\ c = a ++ b /\ (i < j => b # <<>>)
        BY <1>3, CutInTwo
    <2>. HIDE DEF a, b, c
    <2>2. LogText(a) \in Texts /\ LogText(b) \in Texts /\ LogText(c) = LogText(a) ++ LogText(b)
        BY <2>1, LogFacts
    <2>3. /\ Len(LogText(c)) = Len(LogText(a)) + Len(LogText(b))
          /\ Len(LogText(a)) \in Nat /\ Len(LogText(b)) \in Nat
        BY <2>2, TextsFacts
    <2>4. i < j => Len(LogText(b)) > 0
        BY <2>1, RecordTextLong
    <2>. QED
        BY <2>3, <2>4 DEF EndAt, a, c
<1>. QED
    BY <1>2, <1>3

(* Where the first part of a log ends.                                     *)
LEMMA EndOfFirst ==
    ASSUME NEW a \in Records, NEW b \in Records
    PROVE  /\ Len(a) \in 0 .. Len(a ++ b) /\ SubSeq(a ++ b, 1, Len(a)) = a
           /\ EndAt(a ++ b, Len(a)) = Len(LogText(a))
           /\ \A i \in 1 .. Len(a) : (a ++ b)[i] = a[i]
<1> DEFINE c == a \o b  d == SubSeq(c, 1, Len(a))
<1>1. a \in Seq(LogRecord) /\ b \in Seq(LogRecord) /\ Len(a) \in Nat
    BY DEF Records
<1>2. c \in Seq(LogRecord) /\ Len(c) = Len(a) + Len(b) /\ \A i \in 1 .. Len(a) : c[i] = a[i]
    BY <1>1
<1>3. Len(b) \in Nat /\ Len(a) \in 0 .. Len(c)
    BY <1>1, <1>2
<1>. HIDE DEF c
<1>4. d \in Seq(LogRecord) /\ Len(d) = Len(a) /\ \A i \in 1 .. Len(a) : d[i] = c[i]
    BY <1>1, <1>2, <1>3
<1>. HIDE DEF d
<1>5. d = a
    BY <1>1, <1>2, <1>4, SeqEqual
<1>. QED
    BY <1>2, <1>3, <1>5 DEF c, d, ++, EndAt

(* A text with the end of a record behind it is longer than the records    *)
(* that follow.                                                            *)
LEMMA EndLong ==
    ASSUME NEW later \in Records, NEW z \in Texts
    PROVE  Len(z ++ EndText(later)) > Len(LogText(later)) /\ Len(LogText(later)) \in Nat
<1> DEFINE t == LogText(later)  n == <<"nl">>  c == <<"cr">>
<1>1. t \in Texts /\ n \in Texts /\ c \in Texts /\ Len(n) = 1 /\ Len(c) = 1
    BY LogFacts, SignTexts DEF Signs
<1>2. EndText(later) = c ++ (n ++ t)
    BY DEF EndText
<1>. HIDE DEF t, n, c
<1>3. n ++ t \in Texts /\ Len(n ++ t) = Len(n) + Len(t)
    BY <1>1, TextsFacts
<1> DEFINE u == n ++ t
<1>. HIDE DEF u
<1>4. u \in Texts /\ Len(u) = 1 + Len(t)
    BY <1>1, <1>3 DEF u
<1>5. c ++ u \in Texts /\ Len(c ++ u) = Len(c) + Len(u)
    BY <1>1, <1>4, TextsFacts
<1> DEFINE v == c ++ u
<1>. HIDE DEF v
<1>6. v \in Texts /\ Len(v) = 1 + Len(u)
    BY <1>1, <1>5 DEF v
<1>7. Len(z ++ v) = Len(z) + Len(v)
    BY <1>6, TextsFacts
<1>8. Len(t) \in Nat /\ Len(z) \in Nat
    BY <1>1, TextsFacts
<1>9. Len(z ++ v) > Len(t)
    BY <1>4, <1>6, <1>7, <1>8
<1>. QED
    BY <1>2, <1>8, <1>9 DEF t, u, v

Longer(left, later) == left \in Texts /\ Len(left) > Len(LogText(later))

(* So is a text with a longer one behind it.                               *)
LEMMA LongerBehind ==
    ASSUME NEW later \in Records, NEW z \in Texts, NEW left, Longer(left, later)
    PROVE  Longer(z ++ left, later)
<1>1. left \in Texts /\ Len(left) > Len(LogText(later))
    BY DEF Longer
<1>2. z ++ left \in Texts /\ Len(z ++ left) = Len(z) + Len(left) /\ Len(z) \in Nat /\ Len(left) \in Nat
    BY <1>1, TextsFacts
<1>3. Len(LogText(later)) \in Nat
    BY LogFacts, TextsFacts
<1>. QED
    BY <1>1, <1>2, <1>3 DEF Longer

(* From a property on there is more left than the records after this one.  *)
LEMMA PropertiesLonger ==
    ASSUME NEW later \in Records, NEW ps \in Seq(Property)
    PROVE  Longer(FromProperties(ps, later), later)
<1>1. PropertiesText(ps) \in Texts
    BY PropertiesFacts
<1>. QED
    BY <1>1, EndLong, FromPropertiesFacts DEF Longer, FromProperties

(* The same from a field on.                                               *)
LEMMA AfterLonger ==
    ASSUME NEW r \in LogRecord, NEW later \in Records
    PROVE  \A n \in 1 .. 6 : Longer(After(n, r, later), later)
<1>1. Longer(After(6, r, later), later)
    BY AfterFacts, PropertiesLonger, RecordTypes
<1>2. ASSUME NEW n \in 1 .. 5, Longer(After(n + 1, r, later), later)
      PROVE  Longer(After(n, r, later), later)
    <2> DEFINE sep == <<SepOf[n]>>  field == r[FieldOf[n + 1]]  rest == After(n + 1, r, later)
    <2>1. After(n, r, later) = sep ++ (field ++ rest)
        BY AfterFacts
    <2>2. n + 1 \in 1 .. 6
        OBVIOUS
    <2>3. field \in Texts
        BY <2>2, FieldChars
    <2>4. sep \in Texts
        <3>1. /\ SepOf[1] = ":" /\ SepOf[2] = "." /\ SepOf[3] = "-" /\ SepOf[4] = "," /\ SepOf[5] = ","
            BY DEF SepOf
        <3>2. n = 1 \/ n = 2 \/ n = 3 \/ n = 4 \/ n = 5
            OBVIOUS
        <3>3. SepOf[n] \in Signs
            BY <3>1, <3>2 DEF Signs
        <3>. QED
            BY <3>3, SignTexts
    <2>. HIDE DEF sep, field, rest
    <2>5. Longer(field ++ rest, later)
        BY <1>2, <2>3, LongerBehind DEF rest
    <2>6. Longer(sep ++ (field ++ rest), later)
        BY <2>4, <2>5, LongerBehind
    <2>. QED
        BY <2>1, <2>6
<1>3. Longer(After(5, r, later), later)
    BY <1>1, <1>2
<1>4. Longer(After(4, r, later), later)
    BY <1>2, <1>3
<1>5. Longer(After(3, r, later), later)
    BY <1>2, <1>4
<1>6. Longer(After(2, r, later), later)
    BY <1>2, <1>5
<1>7. Longer(After(1, r, later), later)
    BY <1>2, <1>6
<1>8. \A n \in 1 .. 6 : n = 1 \/ n = 2 \/ n = 3 \/ n = 4 \/ n = 5 \/ n = 6
    OBVIOUS
<1>. QED
    BY <1>1, <1>3, <1>4, <1>5, <1>6, <1>7, <1>8

(* The same from the new line on.                                          *)
LEMMA ReturnLonger ==
    ASSUME NEW later \in Records
    PROVE  Longer(<<"nl">> ++ LogText(later), later)
<1> DEFINE t == LogText(later)
<1>1. t \in Texts /\ <<"nl">> \in Texts /\ Len(<<"nl">>) = 1
    BY LogFacts, SignTexts DEF Signs
<1>. HIDE DEF t
<1>2. <<"nl">> ++ t \in Texts /\ Len(<<"nl">> ++ t) = 1 + Len(t) /\ Len(t) \in Nat
    BY <1>1, TextsFacts
<1>. QED
    BY <1>2 DEF Longer, t

(* Wherever the parser is in a record, there is more left than the records *)
(* after it.                                                               *)
LEMMA InRecordLonger ==
    ASSUME NEW f, NEW left, NEW tx, NEW vs, NEW qs, NEW r \in LogRecord, NEW later \in Records,
           InRecord(f, left, tx, vs, qs, r, later)
    PROVE  Longer(left, later)
<1>1. ASSUME NEW n \in 1 .. 6, AtField(n, left, tx, r, later)
      PROVE  Longer(left, later)
    <2>1. PICK x \in Texts : left = x ++ After(n, r, later)
        BY <1>1 DEF AtField, InField
    <2>. QED
        BY <2>1, AfterLonger, LongerBehind
<1>2. ASSUME NEW p \in Property, NEW ps \in Seq(Property), AtKey(left, tx, p, ps, later)
      PROVE  Longer(left, later)
    <2> DEFINE u == FromProperties(ps, later)  v == ValueText(p[2])  e == <<"=">>
    <2>1. Longer(u, later)
        BY PropertiesLonger
    <2>2. v \in Texts /\ e \in Texts
        BY PropertyFacts, SignTexts DEF Signs
    <2>3. PICK x \in Texts : left = x ++ (e ++ (v ++ u))
        BY <1>2 DEF AtKey
    <2>. HIDE DEF u, v, e
    <2>4. Longer(v ++ u, later)
        BY <2>1, <2>2, LongerBehind
    <2>5. Longer(e ++ (v ++ u), later)
        BY <2>2, <2>4, LongerBehind
    <2>6. Longer(x ++ (e ++ (v ++ u)), later)
        BY <2>5, LongerBehind
    <2>. QED
        BY <2>3, <2>6
<1>3. ASSUME NEW x \in Texts, NEW p, NEW ps \in Seq(Property), InValue(x, left, tx, p, ps, later)
      PROVE  Longer(left, later)
    BY <1>3, PropertiesLonger, LongerBehind DEF InValue
<1>4. ASSUME NEW ps, AfterReturn(left, ps, later)
      PROVE  Longer(left, later)
    BY <1>4, ReturnLonger DEF AfterReturn
<1>5. ASSUME NEW p \in Property, NEW ps \in Seq(Property), AtValue(left, tx, p, ps, later)
      PROVE  Longer(left, later)
    BY <1>3, <1>4, <1>5 DEF AtValue
<1>6. ASSUME NEW p \in Property, NEW ps \in Seq(Property), AtMvalue(left, tx, qs, p, ps, later)
      PROVE  Longer(left, later)
    <2> DEFINE q == p[2].quote
    <2>1. q \in {"'", "dq"}
        BY <1>6 DEF AtMvalue, Quoted
    <2>2. <<q>> \in Texts /\ \A rem \in Texts : Doubled(rem, q) \in Texts
        <3>1. <<q>> \in Texts
            BY <2>1, SignTexts DEF Signs
        <3>2. \A rem \in Texts : Doubled(rem, q) \in Texts
            BY <2>1, DoubledFacts, Zenon
        <3>. QED
            BY <3>1, <3>2
    <2>3. \A rem \in Texts : Doubled(rem, q) ++ <<q>> \in Texts
        BY <2>2, TextsFacts
    <2>4. \A rem \in Texts : <<q>> ++ (Doubled(rem, q) ++ <<q>>) \in Texts
        BY <2>2, <2>3, TextsFacts
    <2>5. <<>> \in Texts
        BY TextsFacts
    <2>6. \/ \E rem \in Texts : InValue(Doubled(rem, q) ++ <<q>>, left, tx, p, ps, later)
          \/ \E rem \in Texts : InValue(<<q>> ++ (Doubled(rem, q) ++ <<q>>), left, tx, p, ps, later)
          \/ InValue(<<>>, left, tx, p, ps, later)
          \/ AfterReturn(left, ps, later)
        BY <1>6 DEF AtMvalue
    <2>. HIDE DEF q
    <2>. QED
        BY <1>3, <1>4, <2>3, <2>4, <2>5, <2>6
<1>7. ASSUME NEW ps \in Seq(Property), AtEndValue(left, tx, ps, later)
      PROVE  Longer(left, later)
    BY <1>7, PropertiesLonger, ReturnLonger DEF AtEndValue
<1>. QED
    BY <1>1, <1>2, <1>5, <1>6, <1>7 DEF InRecord

-----------------------------------------------------------------------------
(* What the parser has handed over. *)

(* As many records are complete as have become events.                     *)
LEMMA CompleteSoFar ==
    ASSUME TypeInv, NEW log \in Records, LogText(log) = input, NEW f, f # "EndEvent",
           NEW before \in Records, Place(f, Left, text, values, quotes, before, log)
    PROVE  /\ Len(before) \in 0 .. Len(log) /\ \A i \in 1 .. Len(before) : log[i] = before[i]
           /\ EndAt(log, Len(before)) + 1 <= ch
           /\ Len(before) < Len(log) => EndAt(log, Len(before) + 1) + 1 > ch
<1> DEFINE n == Len(before)
<1>1. input \in Texts /\ ch \in 1 .. Len(input) + 1
    BY InputTexts DEF TypeInv, TypeOK
<1>2. Len(input) \in Nat /\ ch \in Int /\ n \in Nat
    BY <1>1, TextsFacts, RecordsFacts
<1>3. Len(Left) = Len(input) - ch + 1
    BY <1>1, <1>2 DEF Left, Texts
<1>4. ASSUME NEW rest \in Records, log = before ++ rest
      PROVE  /\ n \in 0 .. Len(log) /\ \A i \in 1 .. n : log[i] = before[i]
             /\ EndAt(log, n) + Len(LogText(rest)) = Len(input)
             /\ EndAt(log, n) \in Nat /\ Len(LogText(rest)) \in Nat
    <2>1. LogText(before) \in Texts /\ LogText(rest) \in Texts
          /\ input = LogText(before) ++ LogText(rest)
        BY <1>4, LogFacts
    <2>2. Len(input) = Len(LogText(before)) + Len(LogText(rest))
          /\ Len(LogText(before)) \in Nat /\ Len(LogText(rest)) \in Nat
        BY <2>1, TextsFacts
    <2>3. n \in 0 .. Len(log) /\ EndAt(log, n) = Len(LogText(before))
          /\ \A i \in 1 .. n : log[i] = before[i]
        BY <1>4, EndOfFirst
    <2>. QED
        BY <2>2, <2>3
<1>5. CASE Between(f, Left, text, values, quotes, before, log)
    <2>1. PICK later \in Records : log = before ++ later /\ Left = LogText(later)
        BY <1>5 DEF Between
    <2>2. /\ n \in 0 .. Len(log) /\ \A i \in 1 .. n : log[i] = before[i]
          /\ EndAt(log, n) + Len(Left) = Len(input) /\ EndAt(log, n) \in Nat
        BY <1>4, <2>1
    <2>3. EndAt(log, n) + 1 = ch
        BY <1>2, <1>3, <2>2
    <2>4. Len(log) \in Nat
        BY RecordsFacts
    <2>5. n < Len(log) => EndAt(log, n) < EndAt(log, n + 1) /\ EndAt(log, n + 1) \in Nat
        <3> SUFFICES ASSUME n < Len(log)
                     PROVE  EndAt(log, n) < EndAt(log, n + 1) /\ EndAt(log, n + 1) \in Nat
            OBVIOUS
        <3>1. n + 1 \in 0 .. Len(log) /\ n < n + 1
            BY <1>2, <2>2, <2>4
        <3>. QED
            BY <2>2, <3>1, EndsGrow
    <2>. QED
        BY <1>2, <2>2, <2>3, <2>5
<1>6. CASE Within(f, Left, text, values, quotes, before, log)
    <2>1. PICK r \in LogRecord, later \in Records :
             /\ log = before ++ (<<r>> ++ later)
             /\ Len(Left) <= Len(LogText(<<r>> ++ later))
             /\ InRecord(f, Left, text, values, quotes, r, later)
        BY <1>6 DEF Within
    <2> DEFINE rest == <<r>> ++ later  next == before ++ <<r>>
    <2>2. rest \in Records /\ next \in Records /\ <<r>> \in Records
          /\ log = next ++ later /\ Len(next) = n + 1
        <3>1. <<r>> \in Records /\ rest \in Records /\ next \in Records
            BY RecordsFacts
        <3>2. log = next ++ later
            BY <2>1, <3>1, RecordsFacts
        <3>3. Len(next) = n + Len(<<r>>) /\ Len(<<r>>) = 1
            BY <3>1, RecordsFacts
        <3>. QED
            BY <3>1, <3>2, <3>3
    <2>3. /\ n \in 0 .. Len(log) /\ \A i \in 1 .. n : log[i] = before[i]
          /\ EndAt(log, n) + Len(LogText(rest)) = Len(input)
          /\ EndAt(log, n) \in Nat /\ Len(LogText(rest)) \in Nat
        BY <1>4, <2>1, <2>2
    <2>4. Longer(Left, later)
        BY <2>1, InRecordLonger
    <2>5. EndAt(log, n + 1) + Len(LogText(later)) = Len(input)
          /\ Len(LogText(later)) \in Nat /\ EndAt(log, n + 1) \in Nat
        <3>1. LogText(next) \in Texts /\ LogText(later) \in Texts
              /\ input = LogText(next) ++ LogText(later)
            BY <2>2, LogFacts
        <3>2. Len(input) = Len(LogText(next)) + Len(LogText(later))
              /\ Len(LogText(next)) \in Nat /\ Len(LogText(later)) \in Nat
            BY <3>1, TextsFacts
        <3>3. EndAt(log, Len(next)) = Len(LogText(next))
            BY <2>2, EndOfFirst
        <3>. QED
            BY <2>2, <3>2, <3>3
    <2>. HIDE DEF rest, next
    <2>6. Len(Left) <= Len(LogText(rest)) /\ Len(Left) > Len(LogText(later))
        BY <2>1, <2>4 DEF Longer, rest
    <2>7. EndAt(log, n) + 1 <= ch
        BY <1>2, <1>3, <2>3, <2>6
    <2>8. EndAt(log, n + 1) + 1 > ch
        BY <1>2, <1>3, <2>5, <2>6
    <2>. QED
        BY <2>3, <2>7, <2>8
<1>. QED
    BY <1>5, <1>6 DEF Place

(* A parser that follows a log has made of it exactly the events of the    *)
(* records that are complete.                                              *)
LEMMA FollowsExact ==
    ASSUME TypeInv, NEW log \in Logs, TextOf[log] = input, Follows(log), pc = "idle"
    PROVE  LET complete == {i \in DOMAIN log : EndOf[log][i] <= ch}
           IN /\ DOMAIN Seen = complete
              /\ \A i \in complete : StandsFor(Seen[i], log[i])
<1> DEFINE complete == {i \in DOMAIN log : EndOf[log][i] <= ch}
<1>1. log \in Records /\ LogText(log) = input
    BY LogOfInput
<1>2. PICK f \in Handlers, before \in Records :
         /\ Stand(Seen, before) /\ f # "EndEvent"
         /\ Place(f, Left, text, values, quotes, before, log)
    BY DEF Follows
<1> DEFINE n == Len(before)
<1>3. /\ n \in 0 .. Len(log) /\ \A i \in 1 .. n : log[i] = before[i]
      /\ EndAt(log, n) + 1 <= ch
      /\ n < Len(log) => EndAt(log, n + 1) + 1 > ch
    BY <1>1, <1>2, CompleteSoFar
<1>4. Len(log) \in Nat /\ DOMAIN log = 1 .. Len(log) /\ n \in Nat /\ ch \in Int
    <2>1. log \in Seq(LogRecord)
        BY <1>1 DEF Records
    <2>. QED
        BY <1>3, <2>1 DEF TypeInv, TypeOK
<1>5. \A i \in 1 .. Len(log) : EndOf[log][i] = EndAt(log, i) + 1
    BY <1>4 DEF EndOf, EndAt
<1>6. \A i \in 1 .. Len(log) : EndOf[log][i] <= ch <=> i <= n
    <2> SUFFICES ASSUME NEW i \in 1 .. Len(log) PROVE EndAt(log, i) + 1 <= ch <=> i <= n
        BY <1>5
    <2>1. i \in 0 .. Len(log) /\ EndAt(log, i) \in Nat /\ EndAt(log, n) \in Nat
        BY <1>1, <1>3, <1>4, EndsGrow
    <2>2. ASSUME i <= n PROVE EndAt(log, i) + 1 <= ch
        <3>1. EndAt(log, i) <= EndAt(log, n)
            BY <1>1, <1>3, <2>1, <2>2, EndsGrow
        <3>. QED
            BY <1>3, <1>4, <2>1, <3>1
    <2>3. ASSUME n < i PROVE EndAt(log, i) + 1 > ch
        <3>1. n + 1 \in 0 .. Len(log) /\ n < Len(log) /\ n + 1 <= i
            BY <1>4, <2>3
        <3>2. EndAt(log, n + 1) <= EndAt(log, i) /\ EndAt(log, n + 1) \in Nat
            BY <1>1, <2>1, <3>1, EndsGrow
        <3>. QED
            BY <1>3, <1>4, <2>1, <3>1, <3>2
    <2>. QED
        BY <1>4, <2>1, <2>2, <2>3
<1>7. complete = 1 .. n
    BY <1>3, <1>4, <1>6
<1>. HIDE DEF complete
<1>8. Seen \in Seq(Parsed)
    BY ConcatFacts DEF Seen, TypeInv, TypeOK
<1>9. DOMAIN Seen = 1 .. n /\ \A i \in 1 .. n : StandsFor(Seen[i], before[i])
    BY <1>2, <1>8 DEF Stand
<1>10. DOMAIN Seen = complete /\ \A i \in complete : StandsFor(Seen[i], log[i])
    BY <1>3, <1>7, <1>9
<1>. QED
    BY <1>10 DEF complete

(* For every log in the format of the server, with any records, values and *)
(* quotes, and however the file is cut into chunks: between two calls of   *)
(* Parse, the events are the complete records, field by field, in order.   *)
THEOREM ExactlyTheCompleteRecordsHolds == Spec => []ExactlyTheCompleteRecords
<1>1. TypeInv /\ LogInv => ExactlyTheCompleteRecords
    <2> SUFFICES ASSUME TypeInv, LogInv, pc = "idle", NEW log \in Logs, TextOf[log] = input
                 PROVE  LET complete == {i \in DOMAIN log : EndOf[log][i] <= ch}
                        IN /\ DOMAIN Seen = complete
                           /\ \A i \in complete : StandsFor(Seen[i], log[i])
        BY DEF ExactlyTheCompleteRecords, Seen
    <2>1. Follows(log)
        BY DEF LogInv
    <2>. QED
        BY <2>1, FollowsExact
<1>. QED
    BY <1>1, InitTypeInv, NextTypeInv, InitLogInv, LogStep, PTL DEF Spec

(* On such a log Parse never throws and never runs past its buffer.        *)
THEOREM NeverDiesHolds == Spec => []NeverDies
<1>1. LogInv => NeverDies
    BY DEF LogInv, NeverDies, Follows
<1>. QED
    BY <1>1, InitTypeInv, NextTypeInv, InitLogInv, LogStep, PTL DEF Spec
=============================================================================
