----------------------------- MODULE ParsedLog ------------------------------
(***************************************************************************)
(* What the parser promises about a log as the 1C server writes it: the    *)
(* events it yields are those that were written, however the file was cut  *)
(* into chunks.  The format is the server's and not in this repository;    *)
(* it is the one the states of the parser are made for: a value is quoted  *)
(* when it has a comma, a quote, an equals sign or a new line, and a quote *)
(* like those around it is doubled.                                        *)
(***************************************************************************)
EXTENDS Parser, SequencesExt

CONSTANT Logs  \* what the server may have written, sequences of records

\* A key has no character that ends it or begins a quoted value.
LogKey == Seq(Char \ {",", "=", "'", "dq", "nl"})

\* A value has its quote ("none", "'" or "dq") and its characters.
LogValue ==
    [quote : {"none"}, chars : Seq(Char \ {",", "=", "'", "dq", "cr", "nl"})]
    \cup [quote : {"'", "dq"}, chars : Seq(Char)]

Letters == {c \in Char : TypeChar(c, <<>>) = "Char"}

\* A record has a text for each field, and a property at least.
LogRecord ==
    [minute : Seq(Digits) \ {<<>>}, second : Seq(Digits), msecond : Seq(Digits),
     duration : Seq(Digits), name : Seq(Letters), level : Seq(Digits),
     properties : Seq(LogKey \X LogValue) \ {<<>>}]

ASSUME LogAssumption == Logs \subseteq Seq(LogRecord)

-----------------------------------------------------------------------------
Doubled(t, quote) ==
    FlattenSeq([i \in DOMAIN t |->
                    IF t[i] = quote THEN <<quote, quote>> ELSE <<t[i]>>])

ValueText(v) ==
    IF v.quote = "none" THEN v.chars
    ELSE <<v.quote>> \o Doubled(v.chars, v.quote) \o <<v.quote>>

PropertyText(p) == <<",">> \o p[1] \o <<"=">> \o ValueText(p[2])

\* The properties of a record are a sequence of pairs: a key and a value.
RecordText(r) ==
    r.minute \o <<":">> \o r.second \o <<".">> \o r.msecond \o <<"-">>
    \o r.duration \o <<",">> \o r.name \o <<",">> \o r.level
    \o FlattenSeq([i \in DOMAIN r.properties |->
                       PropertyText(r.properties[i])])
    \o <<"cr", "nl">>

LogText(log) == FlattenSeq([i \in DOMAIN log |-> RecordText(log[i])])

-----------------------------------------------------------------------------
(* What a record should become. *)

\* A value as it is written, but that a Context loses an empty first line.
Shown(p) ==
    IF /\ p[1] = Context /\ p[2].quote = "'"
       /\ IsPrefix(<<"cr", "nl">>, p[2].chars)
    THEN ValueText([p[2] EXCEPT !.chars = SubSeq(@, 3, Len(@))])
    ELSE ValueText(p[2])

\* Event e of the parser stands for record r.
StandsFor(e, r) ==
    /\ \A f \in Fields : e.text[f] = r[f]
    /\ e.values = [i \in DOMAIN r.properties |->
                      <<r.properties[i][1], Shown(r.properties[i])>>]

\* EndOf[log][i]: the position after record i.
EndOf == [log \in Logs |->
            [i \in DOMAIN log |-> Len(LogText(SubSeq(log, 1, i))) + 1]]

TextOf == [log \in Logs |-> LogText(log)]

-----------------------------------------------------------------------------
(* Between two calls, the events are exactly the records the file held in  *)
(* full up to there, field by field and in order: nothing is made of half  *)
(* a record, nothing complete is withheld until more is written, and where *)
(* the chunks ended makes no difference.                                   *)
ExactlyTheCompleteRecords ==
    pc = "idle" =>
      \A log \in Logs : TextOf[log] = input =>
        LET all == taken \o events
            complete == {i \in DOMAIN log : EndOf[log][i] <= ch}
        IN /\ DOMAIN all = complete
           /\ \A i \in complete : StandsFor(all[i], log[i])

(* A log the server wrote never makes the parser throw (which would end    *)
(* the process: nobody catches) or run past its buffer, whatever the       *)
(* values hold and wherever the chunks end.                                *)
NeverDies == (\E log \in Logs : TextOf[log] = input)
                 => pc \notin {"dead", "overrun"}
=============================================================================
