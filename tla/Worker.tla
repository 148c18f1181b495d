------------------------------- MODULE Worker -------------------------------
(***************************************************************************)
(* The monitoring thread of Yellow Watcher: WorkerThread in                *)
(* yellow-watcher.cpp with the aggregators and accumulators it owns.  Each *)
(* iteration reads what the log files gained, files every event under the  *)
(* sections its kind belongs to, and, once a minute and only after the     *)
(* grace period, turns the previous minute into a report.                  *)
(*                                                                         *)
(* The directory watcher is reduced here to what one ExecuteStep delivers, *)
(* and the log to the files it has found: DirectoryWatcher.tla has the     *)
(* files, Pipeline.tla puts them in this place and implements this module. *)
(* Wall-clock time is a pair of a minute and a second, as tm has them.     *)
(***************************************************************************)
EXTENDS Naturals, Sequences, FiniteSets

CONSTANTS Event,      \* the events the log may come to hold
          KindOf,     \* KindOf[e]: what the dispatch of the loop makes of e
          SecPerMin,  \* seconds in a minute (60)
          Grace,      \* the report waits until tm_sec exceeds this (10)
          MaxLag,     \* bound: minutes an event may reach the log late
          MaxMinute,  \* bound: the last minute of the clock
          MaxStarts   \* bound: how often the thread is started

Kinds == {"TTIMEOUT", "TDEADLOCK", "TLOCK", "LONG_REQUEST", "MS_SQL_EXCP",
          "OTHER"}

ASSUME KindOfAssumption == KindOf \in [Event -> Kinds]
ASSUME TimeAssumption ==
    /\ SecPerMin \in Nat
    /\ Grace \in Nat
    /\ Grace + 1 < SecPerMin
ASSUME BoundAssumption ==
    /\ MaxLag \in Nat
    /\ MaxMinute \in Nat
    /\ MaxStarts \in Nat

-----------------------------------------------------------------------------
(* Sections of a report: by minute (EventAggregator), or everything since  *)
(* the last report (EventAccumulator).                                     *)

Aggregators == {"ttimeout", "tdeadlock", "tlock"}
Accumulators == {"managed_locks", "long_request", "ms_sql_excp"}
Section == Aggregators \cup Accumulators

SectionsOf(kind) ==
    CASE kind = "TTIMEOUT"     -> {"ttimeout", "managed_locks"}
      [] kind = "TDEADLOCK"    -> {"tdeadlock", "managed_locks"}
      [] kind = "TLOCK"        -> {"tlock"}
      [] kind = "LONG_REQUEST" -> {"long_request"}
      [] kind = "MS_SQL_EXCP"  -> {"ms_sql_excp"}
      [] OTHER                 -> {}

\* The events of E that section s is made of.
RoutedTo(s, E) == {e \in E : s \in SectionsOf(KindOf[e])}

NoEvents == [s \in Section |-> {}]

-----------------------------------------------------------------------------
(* Time. *)

Time == [min : Nat, sec : 0 .. SecPerMin - 1]

Leq(t, u) == \/ t.min < u.min
             \/ t.min = u.min /\ t.sec <= u.sec

MinuteStart(m) == [min |-> m, sec |-> 0]

\* The last second at which the report of minute m still waits.
Deadline(m) == [min |-> m + 1, sec |-> Grace]

\* No more than SecPerMin - Grace - 1 seconds (49) from t to u.
Prompt(t, u) ==
    \/ u.min = t.min /\ u.sec + Grace + 1 <= t.sec + SecPerMin
    \/ u.min = t.min + 1 /\ u.sec + Grace + 1 <= t.sec

-----------------------------------------------------------------------------
VARIABLES now,         \* the wall clock
          written,     \* the events of the files the watcher came to know
          unread,      \* those the watcher has not delivered
          stamp,       \* stamp[e]: the minute e carries, once written
          late,        \* those that missed the grace period (history)
          pc,          \* where the thread is
          prevMinute,  \* prevMinute of the loop
          curTime,     \* curTime of the loop
          isNew,       \* is_new_minute of the loop
          batch,       \* dw.GetEvents()
          held,        \* held[s]: aggregator or accumulator s
          reports,     \* the reports handed to a sending thread (history)
          lost,        \* lost[s]: dropped before any report (history)
          stop,        \* the stop event is set
          starts,      \* how often the thread was started
          sampled,     \* when the loop last looked at the clock (history)
          slow         \* an iteration was not Prompt (history)

clockVars == <<now>>
logVars == <<written, unread, stamp, late>>
loopVars == <<pc, prevMinute, curTime, isNew>>
dataVars == <<batch, held, reports, lost>>
ctlVars == <<stop, starts>>
histVars == <<sampled, slow>>
vars == <<clockVars, logVars, loopVars, dataVars, ctlVars, histVars>>

Labels == {"start", "init", "check", "read", "dispatch", "report", "pace",
           "exited", "crashed"}
Running == Labels \ {"exited", "crashed"}

Report == [date : Nat, body : [Section -> SUBSET Event]]

Init ==
    /\ now = MinuteStart(0)
    /\ written = {} /\ unread = {}
    /\ stamp = [e \in Event |-> 0] /\ late = {}
    /\ pc = "start"
    /\ prevMinute = 0 /\ curTime = MinuteStart(0) /\ isNew = FALSE
    /\ batch = {} /\ held = NoEvents /\ reports = <<>> /\ lost = NoEvents
    /\ stop = FALSE /\ starts = 1
    /\ sampled = MinuteStart(0) /\ slow = FALSE

-----------------------------------------------------------------------------
(* The environment: the clock, the 1C server that writes the log, the      *)
(* service manager.                                                        *)

Tick ==
    /\ \/ /\ now.sec + 1 < SecPerMin
          /\ now' = [min |-> now.min, sec |-> now.sec + 1]
       \/ /\ now.sec + 1 = SecPerMin
          /\ now.min < MaxMinute
          /\ now' = MinuteStart(now.min + 1)
    /\ UNCHANGED <<logVars, loopVars, dataVars, ctlVars, histVars>>

\* Events reach the log, each of a minute at[e], possibly an earlier one: one
\* is written to a file that is watched, or a file that has some is found.
Write(new, at) ==
    /\ new # {} /\ new \cap written = {}
    /\ \A e \in new : at[e] <= now.min /\ now.min <= at[e] + MaxLag
    /\ written' = written \cup new
    /\ unread' = unread \cup new
    /\ stamp' = [e \in Event |-> IF e \in new THEN at[e] ELSE stamp[e]]
    /\ late' = late \cup {e \in new : ~Leq(now, Deadline(at[e]))}
    /\ UNCHANGED <<clockVars, loopVars, dataVars, ctlVars, histVars>>

RequestStop ==
    /\ pc \in Running /\ ~stop
    /\ stop' = TRUE
    /\ UNCHANGED <<clockVars, logVars, loopVars, dataVars, starts, histVars>>

\* Everything the process holds in memory goes with it.
DropAll ==
    /\ lost' = [s \in Section |-> lost[s] \cup held[s] \cup RoutedTo(s, batch)]
    /\ held' = NoEvents
    /\ batch' = {}

\* The process dies: an exception nobody catches, ExitProcess, power loss.
Crash ==
    /\ pc \in Running
    /\ pc' = "crashed"
    /\ DropAll
    /\ UNCHANGED <<clockVars, logVars, prevMinute, curTime, isNew, reports,
                   ctlVars, histVars>>

\* The service manager starts the process again.
Restart ==
    /\ pc \in {"exited", "crashed"}
    /\ starts < MaxStarts
    /\ starts' = starts + 1
    /\ stop' = FALSE
    /\ pc' = "start"
    /\ UNCHANGED <<clockVars, logVars, prevMinute, curTime, isNew, dataVars,
                   histVars>>

-----------------------------------------------------------------------------
(* The thread. *)

\* prevMinute = NowMinute(), curTime = ToTm(prevMinute): seconds are cut off.
StartLoop ==
    /\ pc = "start"
    /\ prevMinute' = now.min
    /\ curTime' = MinuteStart(now.min)
    /\ isNew' = FALSE
    /\ sampled' = now /\ slow' = FALSE
    /\ pc' = "init"
    /\ UNCHANGED <<clockVars, logVars, dataVars, ctlVars>>

\* dw.Init() moves past what the files hold and clears what that yielded;
\* what is written to a file after its turn stays.
DwInit ==
    /\ pc = "init"
    /\ \E passed \in SUBSET unread :
          /\ unread' = unread \ passed
          /\ lost' = [s \in Section |-> lost[s] \cup RoutedTo(s, passed)]
    /\ pc' = "check"
    /\ UNCHANGED <<clockVars, written, stamp, late, prevMinute, curTime,
                   isNew, batch, held, reports, ctlVars, histVars>>

\* The stop event is set: the loop ends and its locals are destroyed.
Exit ==
    /\ pc = "check" /\ stop
    /\ pc' = "exited"
    /\ DropAll
    /\ UNCHANGED <<clockVars, logVars, prevMinute, curTime, isNew, reports,
                   ctlVars, histVars>>

NewIteration ==
    /\ pc = "check" /\ ~stop
    /\ isNew' = (prevMinute # curTime.min)
    /\ pc' = "read"
    /\ UNCHANGED <<clockVars, logVars, prevMinute, curTime, dataVars, ctlVars,
                   histVars>>

\* What was in time, and had its time before this iteration began.
Due == {e \in unread \ late : ~Leq(curTime, Deadline(stamp[e]))}

\* (Seeded fault: a step that may leave out what it finds.)
DeliveredInPart == SUBSET unread

\* What ExecuteStep may deliver: what reaches a file after its turn is left
\* for the next step, or for none when the file is let go.
Delivered == {events \in SUBSET unread : Due \subseteq events}

\* dw.ExecuteStep(is_new_minute).
ExecuteStep ==
    /\ pc = "read"
    /\ \E events \in Delivered :
          /\ batch' = events
          /\ unread' = unread \ events
    /\ pc' = "dispatch"
    /\ UNCHANGED <<clockVars, written, stamp, late, prevMinute, curTime,
                   isNew, held, reports, lost, ctlVars, histVars>>

\* The dispatch on event.Name(), then dw.ClearEvents().
Dispatch ==
    /\ pc = "dispatch"
    /\ held' = [s \in Section |-> held[s] \cup RoutedTo(s, batch)]
    /\ batch' = {}
    /\ pc' = "report"
    /\ UNCHANGED <<clockVars, logVars, prevMinute, curTime, isNew, reports,
                   lost, ctlVars, histVars>>

\* (Seeded fault: no grace period.)
ReportDueAtOnce == isNew

\* (Seeded fault: a second more than the iterations leave room for.)
ReportDueLater == isNew /\ curTime.sec > Grace + 1

ReportDue == isNew /\ curTime.sec > Grace

\* (Seeded fault: an aggregator gives everything it has.)
TakenAll(s) == held[s]

\* Find(event_time) in an aggregator, everything in an accumulator.
Taken(s) == IF s \in Aggregators THEN {e \in held[s] : stamp[e] = prevMinute}
                                 ELSE held[s]

\* (Seeded faults: the sections are sent and not emptied; prevMinute is set
\* from the clock instead of from curTime.)
SendReportKept ==
    /\ pc = "report" /\ ReportDue
    /\ reports' = Append(reports, [date |-> prevMinute,
                                   body |-> [s \in Section |-> Taken(s)]])
    /\ prevMinute' = curTime.min
    /\ pc' = "pace"
    /\ UNCHANGED <<clockVars, logVars, curTime, isNew, batch, held, lost,
                   ctlVars, histVars>>

SendReportNowMinute ==
    /\ pc = "report" /\ ReportDue
    /\ reports' = Append(reports, [date |-> prevMinute,
                                   body |-> [s \in Section |-> Taken(s)]])
    /\ held' = [s \in Section |-> held[s] \ Taken(s)]
    /\ prevMinute' = now.min
    /\ pc' = "pace"
    /\ UNCHANGED <<clockVars, logVars, curTime, isNew, batch, lost, ctlVars,
                   histVars>>

SendReport ==
    /\ pc = "report" /\ ReportDue
    /\ reports' = Append(reports, [date |-> prevMinute,
                                   body |-> [s \in Section |-> Taken(s)]])
    /\ held' = [s \in Section |-> held[s] \ Taken(s)]
    /\ prevMinute' = curTime.min
    /\ pc' = "pace"
    /\ UNCHANGED <<clockVars, logVars, curTime, isNew, batch, lost, ctlVars,
                   histVars>>

NoReport ==
    /\ pc = "report" /\ ~ReportDue
    /\ pc' = "pace"
    /\ UNCHANGED <<clockVars, logVars, prevMinute, curTime, isNew, dataVars,
                   ctlVars, histVars>>

\* The sleep of 500 ms when nothing was read, then curTime = GetTime().
Pace ==
    /\ pc = "pace"
    /\ curTime' = now
    /\ sampled' = now
    /\ slow' = (slow \/ ~Prompt(sampled, now))
    /\ pc' = "check"
    /\ UNCHANGED <<clockVars, logVars, prevMinute, isNew, dataVars, ctlVars>>

Loop == \/ StartLoop \/ DwInit \/ Exit \/ NewIteration \/ ExecuteStep
        \/ Dispatch \/ SendReport \/ NoReport \/ Pace

Environment == \/ Tick \/ RequestStop \/ Crash \/ Restart
               \/ \E new \in SUBSET (Event \ written) :
                     \E at \in [new -> 0 .. now.min] : Write(new, at)

Next == Loop \/ Environment

Spec == Init /\ [][Next]_vars

\* The thread keeps running, time passes: nothing else is owed.  Where the
\* clock stops at its bound is no part of this: see HeldIsSent.
FairSpec == Spec /\ WF_vars(Loop) /\ WF_vars(Tick)

-----------------------------------------------------------------------------
(* Properties. *)

(* Every variable keeps its type, deliveries come from the log, and the    *)
(* reading buffer is empty outside the dispatch (yellow-watcher.cpp 489).  *)
TypeOK ==
    /\ now \in Time /\ curTime \in Time /\ sampled \in Time
    /\ written \subseteq Event /\ unread \subseteq written
    /\ stamp \in [Event -> Nat] /\ late \subseteq written
    /\ pc \in Labels
    /\ prevMinute \in Nat
    /\ isNew \in BOOLEAN /\ stop \in BOOLEAN /\ slow \in BOOLEAN
    /\ batch \subseteq written
    /\ held \in [Section -> SUBSET written]
    /\ lost \in [Section -> SUBSET written]
    /\ reports \in Seq(Report)
    /\ starts \in Nat

\* The events section s has shown.
Shown(s) == UNION {reports[i].body[s] : i \in DOMAIN reports}

Partition(W, A, B, C, D) ==
    /\ W = A \cup B \cup C \cup D
    /\ A \cap B = {} /\ A \cap C = {} /\ A \cap D = {}
    /\ B \cap C = {} /\ B \cap D = {} /\ C \cap D = {}

(* Where an event of the log is: not filed yet, held, reported or dropped. *)
(* Nothing read is forgotten while the process lives, and nothing that was *)
(* reported or dropped stays behind to be reported again by a later minute *)
(* or by the next process.                                                 *)
Conservation ==
    \A s \in Section :
        Partition(RoutedTo(s, written), RoutedTo(s, unread \cup batch),
                  held[s], Shown(s), lost[s])

(* Reports go out in the order of their minutes, at most one per minute,   *)
(* each after the grace period of its minute, across crashes and restarts  *)
(* (prevMinute is set anew by every start).                                *)
ReportsOrdered ==
    /\ \A i \in DOMAIN reports :
          ~Leq(now, Deadline(reports[i].date))
    /\ \A i, j \in DOMAIN reports :
          i < j => reports[i].date < reports[j].date

(* The grace period is long enough: an event that was in the log by the    *)
(* end of it is in the report of its minute, if there is such a report,    *)
(* unless a start or a crash dropped it.  This is why the files are read   *)
(* after the clock and before the report.                                  *)
OnTimeEventsReported ==
    \A i \in DOMAIN reports : \A s \in Aggregators :
        \A e \in RoutedTo(s, written) :
            stamp[e] = reports[i].date /\ e \notin late
            => e \in reports[i].body[s] \cup lost[s]

(* The per-minute sections of a report show its minute and no other.       *)
OwnMinuteOnly ==
    \A i \in DOMAIN reports : \A s \in Aggregators :
        \A e \in reports[i].body[s] : stamp[e] = reports[i].date

(* As long as no iteration of the loop takes more than 49 seconds, no      *)
(* minute is left without its report: the condition on tm_sec cannot make  *)
(* the loop step over one.                                                 *)
ConsecutiveReports ==
    [][Len(reports') > Len(reports) /\ ~slow
          => prevMinute' = prevMinute + 1]_vars

(* The loop implements the ledger: an item is shown in one report at most, *)
(* never after it was dropped, and no step drops what it also shows.       *)
Ledger == INSTANCE ReportLedger WITH
    Routed <- [s \in Section |-> RoutedTo(s, Event)],
    published <- [i \in DOMAIN reports |-> reports[i].body]

AtMostOnce == Ledger!Spec

(* What an accumulator holds, and what an aggregator holds of the minute   *)
(* the loop is in, goes out in the report of that minute, and this within  *)
(* the next minute, or is dropped: unless an iteration takes more than 49  *)
(* seconds, the loop cannot miss the seconds after the grace period in     *)
(* which yellow-watcher.cpp 499 sends.  Minutes whose next minute the      *)
(* clock does not end are left out: its bound has no part in this.         *)
SentInReportOf(s, e, m) ==
    \E i \in DOMAIN reports : reports[i].date = m /\ e \in reports[i].body[s]

HeldIsSent ==
    \A e \in Event, m \in 0 .. MaxMinute - 2 : \A s \in SectionsOf(KindOf[e]) :
        (/\ e \in held[s] /\ prevMinute = m
         /\ s \in Aggregators => stamp[e] = m)
            ~> \/ SentInReportOf(s, e, m) /\ curTime.min = m + 1
               \/ slow \/ e \in lost[s]
=============================================================================
