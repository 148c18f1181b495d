------------------------------- MODULE Parser -------------------------------
(***************************************************************************)
(* The parser of the technological log: parser.cpp.  It is a table-driven  *)
(* automaton that keeps its place between two calls of Parse, because a    *)
(* chunk may end anywhere: the reader hands it whatever the file gained.   *)
(* One step is one call of a handler and the table lookup that follows it. *)
(*                                                                         *)
(* A character is a string ("cr", "nl" and "dq" are carriage return, new   *)
(* line and the double quote).  Numbers are kept as their digits.          *)
(***************************************************************************)
EXTENDS Integers, Sequences

CONSTANTS Char,    \* the characters a log is made of
          Inputs,  \* the contents a log file may come to have, after the BOM
          Known,   \* the keys EventData keeps an index for
          Context  \* the key "Context"

Digits == {"0", "1", "2", "3", "4", "5", "6", "7", "8", "9"}

ASSUME InputAssumption == Inputs \subseteq Seq(Char)

BOM == 3  \* its bytes, where the reader begins

-----------------------------------------------------------------------------
(* Character types and the transition table. *)

TypeChars == {"Digit", "Colon", "Dot", "Minus", "Comma", "CommaInQ", "Equal",
              "Quote", "Dquote", "NewLine", "NewLineInQ", "Char"}

\* (Seeded fault: the quotes stack is not consulted.)
TypeCharNoQuotes(c, stack) ==
    CASE c \in Digits -> "Digit"
      [] c = ":"  -> "Colon"
      [] c = "."  -> "Dot"
      [] c = "-"  -> "Minus"
      [] c = ","  -> "Comma"
      [] c = "="  -> "Equal"
      [] c = "'"  -> "Quote"
      [] c = "dq" -> "Dquote"
      [] c = "nl" -> "NewLine"
      [] OTHER    -> "Char"

\* GetTypeChar: a comma or new line means less inside quotes.
TypeChar(c, stack) ==
    CASE c \in Digits -> "Digit"
      [] c = ":"  -> "Colon"
      [] c = "."  -> "Dot"
      [] c = "-"  -> "Minus"
      [] c = ","  -> IF stack = <<>> THEN "Comma" ELSE "CommaInQ"
      [] c = "="  -> "Equal"
      [] c = "'"  -> "Quote"
      [] c = "dq" -> "Dquote"
      [] c = "nl" -> IF stack = <<>> THEN "NewLine" ELSE "NewLineInQ"
      [] OTHER    -> "Char"

Handlers == {"Start", "Minute", "Second", "Msecond", "Duration", "Event",
             "Level", "Key", "Value", "EndValue", "EndEvent", "Mvalue"}

\* The rows of TransitionTable; what a row does not name is Error.
Row(f) ==
    CASE f = "Start"    -> [Digit |-> "Minute"]
      [] f = "Minute"   -> [Digit |-> "Minute", Colon |-> "Second"]
      [] f = "Second"   -> [Digit |-> "Second", Dot |-> "Msecond"]
      [] f = "Msecond"  -> [Digit |-> "Msecond", Minus |-> "Duration"]
      [] f = "Duration" -> [Digit |-> "Duration", Comma |-> "Event"]
      [] f = "Event"    -> [Comma |-> "Level", Char |-> "Event"]
      [] f = "Level"    -> [Digit |-> "Level", Comma |-> "Key"]
      [] f = "Key"      -> [t \in {"Digit", "Colon", "Dot", "Minus", "Comma",
                                   "Equal", "Char"} |->
                               IF t = "Equal" THEN "Value" ELSE "Key"]
      [] f = "Value"    -> [t \in TypeChars \ {"CommaInQ", "NewLineInQ"} |->
                               CASE t \in {"Comma", "NewLine"} -> "EndValue"
                                 [] t \in {"Quote", "Dquote"}  -> "Mvalue"
                                 [] OTHER                      -> "Value"]
      [] f = "EndValue" -> [Comma |-> "Key", NewLine |-> "EndEvent"]
      [] f = "EndEvent" -> [NewLine |-> "Start"]
      [] f = "Mvalue"   -> [t \in TypeChars |->
                               IF t \in {"Comma", "NewLine"} THEN "EndValue"
                                                             ELSE "Mvalue"]

Lookup(f, t) == IF t \in DOMAIN Row(f) THEN Row(f)[t] ELSE "Error"

-----------------------------------------------------------------------------
(* Events. *)

Fields == {"minute", "second", "msecond", "duration", "name", "level"}

\* The texts of an event, key_temp_ and value_temp_ among them.
NoText == [f \in Fields \cup {"key", "value"} |-> <<>>]
NoIndex == [k \in Known |-> 0]

\* EventData::EndValue: the value ends before a carriage return, and a
\* Context does not begin with an empty line.
Trimmed(v) == IF v # <<>> /\ v[Len(v)] = "cr" THEN SubSeq(v, 1, Len(v) - 1)
                                              ELSE v

Unfolded(k, v) ==
    IF k = Context /\ Len(v) >= 3 /\ SubSeq(v, 1, 3) = <<"'", "cr", "nl">>
    THEN <<v[1]>> \o SubSeq(v, 4, Len(v))
    ELSE v

-----------------------------------------------------------------------------
VARIABLES input,   \* what the file will come to hold
          ch,      \* the position of the next character
          end,     \* the position after the chunk being parsed
          fn,      \* ptr_fcn
          pc,      \* "idle" between calls, "parse" within one
          quotes,  \* stack_quotes, the top last
          text,    \* event_data: the texts collected so far
          values,  \* its values_
          index,   \* its key_index_, 0 where is_key_index_ says no
          start,   \* its offset_start_
          events,  \* events_
          taken,   \* what the caller moved out of events_ (history)
          offset   \* offset_

eventData == <<text, values, index, start>>
vars == <<input, ch, end, fn, pc, quotes, eventData, events, taken, offset>>

Init ==
    /\ input \in Inputs
    /\ ch = 1 /\ end = 1
    /\ fn = "Start" /\ pc = "idle"
    /\ quotes = <<>>
    /\ text = NoText /\ values = <<>> /\ index = NoIndex /\ start = 0
    /\ events = <<>> /\ taken = <<>>
    /\ offset = BOM

Advance(n) == ch' = ch + n /\ offset' = offset + n

\* (Seeded fault: the chunk is taken to end at its last character.)
NextHandlerEarly(stop) ==
    IF ch' = stop - 1
    THEN pc' = "idle" /\ fn' = fn
    ELSE pc' = "parse" /\ fn' = Lookup(fn, TypeChar(input[ch'], quotes'))

\* The lookup that follows every handler, on the character it left.
NextHandler(stop) ==
    IF ch' = stop
    THEN pc' = "idle" /\ fn' = fn
    ELSE pc' = "parse" /\ fn' = Lookup(fn, TypeChar(input[ch'], quotes'))

\* (Seeded faults: the event is not reset; the new line is not counted.)
RestartedNoReset(first) ==
    /\ Advance(IF first = "nl" THEN 1 ELSE 0)
    /\ UNCHANGED <<text, values, index>>
    /\ start' = offset'

RestartedNotCounted(first) ==
    /\ ch' = ch + (IF first = "nl" THEN 1 ELSE 0)
    /\ offset' = offset
    /\ text' = NoText /\ values' = <<>> /\ index' = NoIndex
    /\ start' = offset'

\* Start: a new event, and the new line that ended the one before.
Restarted(first) ==
    /\ Advance(IF first = "nl" THEN 1 ELSE 0)
    /\ text' = NoText /\ values' = <<>> /\ index' = NoIndex
    /\ start' = offset'

\* Parse(chunk, n).  When Start swallows all there is of the chunk, ch is
\* past the character the first loop waits for, and the loop runs away.
BeginParse(n) ==
    /\ pc = "idle"
    /\ end' = ch + n
    /\ IF fn = "Start" THEN Restarted(input[ch])
                       ELSE UNCHANGED <<ch, eventData, offset>>
    /\ IF ch' = end' THEN pc' = "overrun" /\ fn' = fn
                     ELSE pc' = "parse"
                          /\ fn' = Lookup(fn, TypeChar(input[ch'], quotes))
    /\ UNCHANGED <<input, quotes, events, taken>>

Handler(f) == pc = "parse" /\ fn = f

Start ==
    /\ Handler("Start")
    /\ Restarted(input[ch])
    /\ UNCHANGED <<input, end, quotes, events, taken>>
    /\ NextHandler(end)

\* The handler of field f collects the character, unless it separates.
Collect(f, field, separators) ==
    /\ Handler(f)
    /\ text' = IF input[ch] \in separators THEN text
               ELSE [text EXCEPT ![field] = Append(@, input[ch])]
    /\ Advance(1)
    /\ UNCHANGED <<input, end, quotes, values, index, start, events, taken>>
    /\ NextHandler(end)

\* (Seeded fault: the comma before a key is not consumed.)
KeyHolding == IF Handler("Key") /\ input[ch] = "," THEN UNCHANGED vars
              ELSE Collect("Key", "key", {","})

Minute   == Collect("Minute", "minute", {})
Second   == Collect("Second", "second", {":"})
Msecond  == Collect("Msecond", "msecond", {"."})
Duration == Collect("Duration", "duration", {"-"})
Event    == Collect("Event", "name", {","})
Level    == Collect("Level", "level", {","})
Key      == Collect("Key", "key", {","})
Value    == Collect("Value", "value", {"=", "cr"})

\* (Seeded fault: a key seen before keeps its index.)
EndValueKeepIndex ==
    /\ Handler("EndValue")
    /\ LET k == text["key"]
           v == Trimmed(Unfolded(k, text["value"]))
       IN /\ values' = Append(values, <<k, v>>)
          /\ index' = [n \in Known |-> IF n = k /\ index[n] = 0
                                       THEN Len(values) + 1 ELSE index[n]]
    /\ text' = [text EXCEPT !["key"] = <<>>, !["value"] = <<>>]
    /\ UNCHANGED <<input, ch, end, quotes, start, events, taken, offset>>
    /\ NextHandler(end)

EndValue ==
    /\ Handler("EndValue")
    /\ LET k == text["key"]
           v == Trimmed(Unfolded(k, text["value"]))
       IN /\ values' = Append(values, <<k, v>>)
          /\ index' = [n \in Known |-> IF n = k THEN Len(values) + 1
                                                ELSE index[n]]
    /\ text' = [text EXCEPT !["key"] = <<>>, !["value"] = <<>>]
    /\ UNCHANGED <<input, ch, end, quotes, start, events, taken, offset>>
    /\ NextHandler(end)

\* The event is moved out; Start makes a new one before it is used again.
EndEvent ==
    /\ Handler("EndEvent")
    /\ events' = Append(events, [text |-> text, values |-> values,
                                 index |-> index, start |-> start,
                                 stop |-> offset])
    /\ UNCHANGED <<input, ch, end, quotes, eventData, taken, offset>>
    /\ NextHandler(end)

\* (Seeded fault: any other quote opens another level.)
MvalueNested ==
    /\ Handler("Mvalue")
    /\ quotes' = IF input[ch] \notin {"'", "dq"} THEN quotes
                 ELSE IF quotes # <<>> /\ quotes[Len(quotes)] = input[ch]
                      THEN SubSeq(quotes, 1, Len(quotes) - 1)
                 ELSE Append(quotes, input[ch])
    /\ text' = [text EXCEPT !["value"] = Append(@, input[ch])]
    /\ Advance(1)
    /\ UNCHANGED <<input, end, values, index, start, events, taken>>
    /\ NextHandler(end)

Mvalue ==
    /\ Handler("Mvalue")
    /\ quotes' = IF input[ch] \notin {"'", "dq"} THEN quotes
                 ELSE IF quotes = <<>> THEN <<input[ch]>>
                 ELSE IF quotes[Len(quotes)] = input[ch]
                      THEN SubSeq(quotes, 1, Len(quotes) - 1)
                 ELSE quotes
    /\ text' = [text EXCEPT !["value"] = Append(@, input[ch])]
    /\ Advance(1)
    /\ UNCHANGED <<input, end, values, index, start, events, taken>>
    /\ NextHandler(end)

\* Error throws, and nobody catches.
Error ==
    /\ Handler("Error")
    /\ pc' = "dead"
    /\ UNCHANGED <<input, ch, end, fn, quotes, eventData, events, taken,
                   offset>>

\* The caller's MoveEvents(), which leaves events_ empty.
MoveEvents ==
    /\ pc = "idle" /\ events # <<>>
    /\ taken' = taken \o events
    /\ events' = <<>>
    /\ UNCHANGED <<input, ch, end, fn, pc, quotes, eventData, offset>>

Handle == \/ Start \/ Minute \/ Second \/ Msecond \/ Duration \/ Event
          \/ Level \/ Key \/ Value \/ EndValue \/ EndEvent \/ Mvalue \/ Error

Next == \/ \E n \in 1 .. Len(input) - ch + 1 : BeginParse(n)
        \/ Handle
        \/ MoveEvents

Spec == Init /\ [][Next]_vars

\* A call of Parse, once made, runs.
FairSpec == Spec /\ WF_vars(Handle)

-----------------------------------------------------------------------------
(* Properties for any input whatever, well formed or not. *)

Text == [Fields \cup {"key", "value"} -> Seq(Char)]
Values == Seq(Seq(Char) \X Seq(Char))
Parsed == [text : Text, values : Values, index : [Known -> Nat],
           start : Nat, stop : Nat]

(* The variables keep their types.                                         *)
TypeOK ==
    /\ input \in Inputs
    /\ ch \in 1 .. Len(input) + 1 /\ end \in 1 .. Len(input) + 1
    /\ fn \in Handlers \cup {"Error"}
    /\ pc \in {"idle", "parse", "dead", "overrun"}
    /\ quotes \in Seq({"'", "dq"})
    /\ text \in Text /\ values \in Values /\ index \in [Known -> Nat]
    /\ start \in Nat /\ offset \in Nat
    /\ events \in Seq(Parsed) /\ taken \in Seq(Parsed)

(* Parse never reads outside the chunk it was given, other than in the one *)
(* way BeginParse shows, and never looks up the row of Error, which the    *)
(* table does not have.  The loops of Parse rest on handlers that consume  *)
(* one character or none.                                                  *)
InBounds ==
    /\ pc = "parse" => ch < end
    /\ pc = "idle" => ch = end /\ fn # "Error"

(* The quotes stack holds one quote at most, and only inside a quoted      *)
(* value: whatever comes, no event begins with the commas and new lines of *)
(* another one's quotes switched off.                                      *)
QuoteDiscipline ==
    /\ Len(quotes) <= 1
    /\ quotes # <<>> => fn = "Mvalue"

(* offset_ is the place in the file, for any way the file is cut into      *)
(* chunks, and the events cover disjoint ranges of it, in order.           *)
OffsetsInOrder ==
    /\ offset = BOM + ch - 1
    /\ LET all == taken \o events
       IN \A i \in DOMAIN all :
            /\ all[i].start < all[i].stop /\ all[i].stop <= offset
            /\ i > 1 => all[i - 1].stop < all[i].start

(* The index of an event agrees with its list of values: the entry         *)
(* of a key is the place of its last occurrence (GetProperty never         *)
(* answers with another key's value or from beyond the list).              *)
IndexSound ==
    LET all == taken \o events
    IN \A i \in DOMAIN all : \A k \in Known :
         LET e  == all[i]
             at == {j \in DOMAIN e.values : e.values[j][1] = k}
         IN IF at = {} THEN e.index[k] = 0
            ELSE e.index[k] \in at /\ \A j \in at : j <= e.index[k]

(* Every call of Parse comes to an end, although EndValue and EndEvent     *)
(* consume nothing.                                                        *)
ParseReturns == (pc = "parse") ~> (pc # "parse")
=============================================================================
