---------------------------- MODULE ReportLedger ----------------------------
(***************************************************************************)
(* What the monitoring loop promises about the events of the technological *)
(* log, whatever its timing, its crashes and its restarts: an item (an     *)
(* event in one section of a report) is published in at most one report,   *)
(* and is not published once it was discarded.  Worker.tla implements it.  *)
(***************************************************************************)
EXTENDS Naturals, Sequences

CONSTANTS Event,    \* the events a log can hold
          Section,  \* the sections of a report
          Routed    \* Routed[s]: the events that belong to section s

VARIABLES written,    \* the events the log holds
          published,  \* the reports, each a function from Section to sets
          lost        \* lost[s]: the events section s will never show

ledger == <<written, published, lost>>

\* The events section s has shown so far.
Shown(s) == UNION {published[i][s] : i \in DOMAIN published}

\* The events of section s that are neither published nor given up.
Pending(s) == (written \cap Routed[s]) \ (Shown(s) \cup lost[s])

Init ==
    /\ written = {}
    /\ published = <<>>
    /\ lost = [s \in Section |-> {}]

Log(new) ==
    /\ new \cap written = {}
    /\ written' = written \cup new
    /\ UNCHANGED <<published, lost>>

Publish ==
    /\ Len(published') = Len(published) + 1
    /\ published' = Append(published, published'[Len(published) + 1])
    /\ \A s \in Section :
          published'[Len(published) + 1][s] \subseteq Pending(s)
    /\ UNCHANGED <<written, lost>>

GiveUp ==
    /\ \A s \in Section :
          /\ lost[s] \subseteq lost'[s]
          /\ lost'[s] \ lost[s] \subseteq Pending(s)
    /\ UNCHANGED <<written, published>>

Next == (\E new \in SUBSET Event : Log(new)) \/ Publish \/ GiveUp

Spec == Init /\ [][Next]_ledger
=============================================================================
