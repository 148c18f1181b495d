---------------------------- MODULE WorkerProofs ----------------------------
(***************************************************************************)
(* Proofs of the safety properties of Worker, for every set of events and  *)
(* every value of the constants.                                           *)
(***************************************************************************)
EXTENDS Worker, SequenceTheorems, TLAPS

\* The loop is between StartLoop and its end.
Active == pc \in {"init", "check", "read", "dispatch", "report", "pace"}

\* The loop's clock sample is not ahead of the clock, its minute not ahead
\* of the sample, and what was reported is behind it.
ClockInv ==
    Active => /\ Leq(curTime, now)
              /\ prevMinute <= curTime.min
              /\ \A i \in DOMAIN reports : reports[i].date < prevMinute

\* Between the computation of is_new_minute and the report, the locals it
\* was computed from do not change.
IsNewInv ==
    pc \in {"read", "dispatch", "report"} => isNew = (prevMinute # curTime.min)

\* Once the read that precedes a report is done, what is left unread of the
\* reported minute missed the grace period.
ReadInv ==
    pc \in {"dispatch", "report"} /\ isNew /\ ~Leq(curTime, Deadline(prevMinute))
        => \A e \in unread : stamp[e] = prevMinute => e \in late

BufferInv == /\ batch # {} => pc = "dispatch"
             /\ batch \cap unread = {}

\* A prompt loop is at most one minute ahead of its last report.
SampleInv ==
    Active =>
      /\ sampled.min = curTime.min
      /\ curTime = sampled \/ curTime.min = prevMinute
      /\ pc = "pace" => prevMinute = curTime.min \/ curTime.sec <= Grace
      /\ ~slow => curTime.min <= prevMinute + 1

IInv ==
    /\ TypeOK
    /\ ClockInv /\ IsNewInv /\ ReadInv /\ BufferInv /\ SampleInv
    /\ Conservation /\ ReportsOrdered /\ OwnMinuteOnly /\ OnTimeEventsReported

-----------------------------------------------------------------------------
(* Facts about the operators of Worker. *)

(* The routing of the dispatch selects: it invents no event, and what it   *)
(* makes of a union is the union of what it makes of the parts.            *)
LEMMA RoutedFacts ==
    ASSUME NEW s, NEW E, NEW F
    PROVE  /\ RoutedTo(s, E) \subseteq E
           /\ RoutedTo(s, E \cup F) = RoutedTo(s, E) \cup RoutedTo(s, F)
           /\ E \subseteq F => RoutedTo(s, E) = RoutedTo(s, F) \cap E
           /\ E = {} => RoutedTo(s, E) = {}
    BY DEF RoutedTo

(* The clock never runs back. *)
LEMMA TickForward ==
    ASSUME TypeOK, Tick
    PROVE  now' \in Time /\ Leq(now, now') /\ now.min <= now'.min
    BY TimeAssumption, BoundAssumption DEF TypeOK, Tick, Time, Leq, MinuteStart

(* The order of times is transitive.                                       *)
LEMMA LeqTransitive ==
    ASSUME NEW t \in Time, NEW u \in Time, NEW v \in Time, Leq(t, u), Leq(u, v)
    PROVE  Leq(t, v)
    BY DEF Time, Leq

-----------------------------------------------------------------------------
(* The variables keep their types: the first conjunct of the invariant.    *)

(* The start of a minute is a time.                                        *)
LEMMA MinuteStartType == \A m \in Nat : MinuteStart(m) \in Time
    BY TimeAssumption DEF MinuteStart, Time

(* The initial state is well typed.                                        *)
LEMMA InitType == Init => TypeOK
<1> SUFFICES ASSUME Init PROVE TypeOK
    OBVIOUS
<1>1. now \in Time /\ curTime \in Time /\ sampled \in Time
    BY MinuteStartType DEF Init
<1>2. held \in [Section -> SUBSET written] /\ lost \in [Section -> SUBSET written]
    BY DEF Init, NoEvents
<1>3. reports \in Seq(Report)
    BY DEF Init
<1>4. QED
    BY <1>1, <1>2, <1>3 DEF Init, TypeOK, Labels

(* A new start of the loop, which resets its locals, keeps the types.      *)
LEMMA StartLoopType == TypeOK /\ StartLoop => TypeOK'
<1> SUFFICES ASSUME TypeOK, StartLoop PROVE TypeOK'
    OBVIOUS
<1>1. now.min \in Nat
    BY DEF TypeOK, Time
<1>2. curTime' \in Time /\ prevMinute' \in Nat /\ sampled' \in Time
    BY <1>1, MinuteStartType DEF StartLoop, TypeOK
<1>3. UNCHANGED <<clockVars, logVars, dataVars, ctlVars>>
      /\ pc' \in Labels /\ isNew' \in BOOLEAN /\ slow' \in BOOLEAN
    BY DEF StartLoop, Labels
<1>4. QED
    BY <1>2, <1>3 DEF TypeOK, clockVars, logVars, dataVars, ctlVars

(* Every step, of the loop or of its environment, keeps the types.         *)
LEMMA NextType == TypeOK /\ [Next]_vars => TypeOK'
<1> SUFFICES ASSUME TypeOK, [Next]_vars PROVE TypeOK'
    OBVIOUS
<1> USE DEF TypeOK
<1>1. CASE Tick
    <2>1. now' \in Time
        BY <1>1, TickForward
    <2>2. UNCHANGED <<logVars, loopVars, dataVars, ctlVars, histVars>>
        BY <1>1 DEF Tick
    <2>3. QED
        BY <2>1, <2>2 DEF logVars, loopVars, dataVars, ctlVars, histVars
<1>2. ASSUME NEW new \in SUBSET (Event \ written),
             NEW at \in [new -> 0 .. now.min], Write(new, at)
      PROVE  TypeOK'
    <2>1. written' \subseteq Event /\ unread' \subseteq written' /\ written \subseteq written'
          /\ late' \subseteq written'
        BY <1>2 DEF Write
    <2>2. \A e \in new : at[e] \in Nat
        BY DEF Time
    <2>3. stamp' \in [Event -> Nat]
        BY <1>2, <2>2 DEF Write
    <2>4. UNCHANGED <<clockVars, loopVars, dataVars, ctlVars, histVars>>
        BY <1>2 DEF Write
    <2>5. held' \in [Section -> SUBSET written'] /\ lost' \in [Section -> SUBSET written']
        BY <2>1, <2>4 DEF dataVars
    <2>6. QED
        BY <2>1, <2>3, <2>4, <2>5 DEF clockVars, loopVars, dataVars, ctlVars, histVars
<1>3. CASE RequestStop
    BY <1>3 DEF RequestStop, clockVars, logVars, loopVars, dataVars, histVars
<1>4. CASE Crash \/ Exit
    <2>1. \A s \in Section : RoutedTo(s, batch) \subseteq written
        BY RoutedFacts
    <2>2. QED
        BY <1>4, <2>1 DEF Crash, Exit, DropAll, NoEvents, clockVars, logVars, ctlVars,
           histVars, Labels
<1>5. CASE Restart
    <2>1. starts' \in Nat
        BY <1>5 DEF Restart
    <2>2. UNCHANGED <<clockVars, logVars, prevMinute, curTime, isNew, dataVars, histVars>>
          /\ pc' \in Labels /\ stop' \in BOOLEAN
        BY <1>5 DEF Restart, Labels
    <2>3. QED
        BY <2>1, <2>2 DEF clockVars, logVars, dataVars, histVars
<1>6. CASE StartLoop
    BY <1>6, StartLoopType
<1>7. CASE DwInit
    <2>1. PICK passed \in SUBSET unread :
              /\ unread' = unread \ passed
              /\ lost' = [s \in Section |-> lost[s] \cup RoutedTo(s, passed)]
        BY <1>7 DEF DwInit
    <2>2. \A s \in Section : RoutedTo(s, passed) \subseteq written
        BY RoutedFacts
    <2>3. QED
        BY <1>7, <2>1, <2>2 DEF DwInit, clockVars, ctlVars, histVars, Labels
<1>8. CASE NewIteration
    BY <1>8 DEF NewIteration, clockVars, logVars, dataVars, ctlVars, histVars, Labels
<1>9. CASE ExecuteStep
    BY <1>9 DEF ExecuteStep, Delivered, clockVars, ctlVars, histVars, Labels
<1>10. CASE Dispatch
    <2>1. \A s \in Section : RoutedTo(s, batch) \subseteq written
        BY RoutedFacts
    <2>2. QED
        BY <1>10, <2>1 DEF Dispatch, clockVars, logVars, ctlVars, histVars, Labels
<1>11. CASE SendReport
    <2>1. \A s \in Section : Taken(s) \subseteq held[s]
        BY DEF Taken
    <2>2. [s \in Section |-> Taken(s)] \in [Section -> SUBSET Event]
        BY <2>1
    <2>3. reports' \in Seq(Report)
        BY <1>11, <2>2 DEF SendReport, Report
    <2>4. prevMinute' \in Nat
        BY <1>11 DEF SendReport, Time
    <2>5. QED
        BY <1>11, <2>1, <2>3, <2>4 DEF SendReport, clockVars, logVars, ctlVars, histVars, Labels
<1>12. CASE NoReport
    BY <1>12 DEF NoReport, clockVars, logVars, dataVars, ctlVars, histVars, Labels
<1>13. CASE Pace
    BY <1>13 DEF Pace, clockVars, logVars, dataVars, ctlVars, Labels
<1>14. CASE UNCHANGED vars
    BY <1>14 DEF vars, clockVars, logVars, loopVars, dataVars, ctlVars, histVars
<1>15. QED
    BY <1>1, <1>2, <1>3, <1>4, <1>5, <1>6, <1>7, <1>8, <1>9, <1>10, <1>11, <1>12,
       <1>13, <1>14 DEF Next, Loop, Environment

(* Every reachable state of the monitoring loop is well typed.             *)
THEOREM TypeCorrect == Spec => []TypeOK
    BY InitType, NextType, PTL DEF Spec

-----------------------------------------------------------------------------
(* Sending a report appends to the reports and shows what it takes.        *)

(* Sending a report leaves the earlier ones as they were, and adds one for *)
(* the minute prevMinute.                                                  *)
LEMMA ReportAppended ==
    ASSUME TypeOK, SendReport
    PROVE  /\ DOMAIN reports' = DOMAIN reports \cup {Len(reports) + 1}
           /\ \A i \in DOMAIN reports : i < Len(reports) + 1 /\ reports'[i] = reports[i]
           /\ reports'[Len(reports) + 1].date = prevMinute
           /\ \A s \in Section : reports'[Len(reports) + 1].body[s] = Taken(s)
           /\ DOMAIN reports \subseteq Nat /\ Len(reports) \in Nat
<1> DEFINE r == [date |-> prevMinute, body |-> [s \in Section |-> Taken(s)]]
<1>1. \A s \in Section : Taken(s) \subseteq Event
    BY DEF Taken, TypeOK
<1>2. reports \in Seq(Report) /\ r \in Report
    BY <1>1 DEF TypeOK, Report
<1>3. reports' = Append(reports, r)
    BY DEF SendReport
<1> HIDE DEF r
<1>4. /\ Len(reports) \in Nat
      /\ DOMAIN reports = 1 .. Len(reports)
      /\ DOMAIN reports' = 1 .. Len(reports) + 1
      /\ \A i \in 1 .. Len(reports) : reports'[i] = reports[i]
      /\ reports'[Len(reports) + 1] = r
    BY <1>2, <1>3
<1>5. r.date = prevMinute /\ \A s \in Section : r.body[s] = Taken(s)
    BY DEF r
<1>6. QED
    BY <1>4, <1>5

(* The events a section has shown are those of before and those of the new *)
(* report.                                                                 *)
LEMMA ShownGrows ==
    ASSUME TypeOK, SendReport, NEW s \in Section
    PROVE  Shown(s)' = Shown(s) \cup Taken(s)
BY ReportAppended DEF Shown

-----------------------------------------------------------------------------
(* Conservation: each step moves events between the places that partition  *)
(* the log, and creates or forgets none.                                   *)

(* New events join the first part of a partition. *)
LEMMA PartitionAdd ==
    ASSUME NEW W, NEW A, NEW B, NEW C, NEW D, NEW N,
           Partition(W, A, B, C, D), N \cap W = {}
    PROVE  Partition(W \cup N, A \cup N, B, C, D)
BY DEF Partition

(* What is read or held is dropped. *)
LEMMA PartitionDrop ==
    ASSUME NEW W, NEW A, NEW B, NEW C, NEW D, NEW X,
           Partition(W, A \cup X, B, C, D), A \cap X = {}
    PROVE  Partition(W, A, {}, C, (D \cup B) \cup X)
BY DEF Partition

(* The batch is filled only between ExecuteStep and the dispatch, and      *)
(* shares nothing with what is unread.                                     *)
LEMMA BufferStep ==
    ASSUME TypeOK, BufferInv, [Next]_vars
    PROVE  BufferInv'
<1>1. CASE Tick \/ RequestStop \/ Restart \/ StartLoop \/ NewIteration \/ SendReport
           \/ NoReport \/ Pace \/ UNCHANGED vars
    BY <1>1 DEF BufferInv, Tick, RequestStop, Restart, StartLoop, NewIteration,
       SendReport, NoReport, Pace, vars, logVars, dataVars, loopVars
<1>2. ASSUME NEW new \in SUBSET (Event \ written),
             NEW at \in [new -> 0 .. now.min], Write(new, at)
      PROVE  BufferInv'
    BY <1>2 DEF BufferInv, Write, dataVars, loopVars, TypeOK
<1>3. CASE Crash \/ Exit \/ DwInit \/ Dispatch
    BY <1>3 DEF BufferInv, Crash, Exit, DropAll, DwInit, Dispatch, TypeOK
<1>4. CASE ExecuteStep
    BY <1>4 DEF BufferInv, ExecuteStep
<1>5. QED
    BY <1>1, <1>2, <1>3, <1>4 DEF Next, Loop, Environment

(* Every step moves an event of a section from one place to one other, or  *)
(* leaves it.                                                              *)
LEMMA ConservationStep ==
    ASSUME TypeOK, BufferInv, Conservation, [Next]_vars
    PROVE  Conservation'
<1> SUFFICES ASSUME NEW s \in Section
             PROVE  Partition(RoutedTo(s, written'), RoutedTo(s, (unread \cup batch)'),
                              held'[s], Shown(s)', lost'[s])
    BY DEF Conservation
<1>0. Partition(RoutedTo(s, written), RoutedTo(s, unread \cup batch),
                held[s], Shown(s), lost[s])
    BY DEF Conservation
<1>1. CASE UNCHANGED <<written, unread, batch, held, lost, reports>>
    BY <1>0, <1>1 DEF Shown
<1>2. ASSUME NEW new \in SUBSET (Event \ written),
             NEW at \in [new -> 0 .. now.min], Write(new, at)
      PROVE  Conservation'
    <2>1. /\ written' = written \cup new /\ (unread \cup batch)' = (unread \cup batch) \cup new
          /\ new \cap written = {}
          /\ UNCHANGED <<held, lost, reports>>
        BY <1>2 DEF Write, dataVars
    <2>2. SUFFICES ASSUME NEW t \in Section
                   PROVE  Partition(RoutedTo(t, written'), RoutedTo(t, (unread \cup batch)'),
                                    held'[t], Shown(t)', lost'[t])
        BY DEF Conservation
    <2>3. /\ RoutedTo(t, written') = RoutedTo(t, written) \cup RoutedTo(t, new)
          /\ RoutedTo(t, (unread \cup batch)') = RoutedTo(t, unread \cup batch) \cup RoutedTo(t, new)
          /\ RoutedTo(t, new) \cap RoutedTo(t, written) = {}
        BY <2>1 DEF RoutedTo
    <2>4. Shown(t)' = Shown(t)
        BY <2>1 DEF Shown
    <2>5. Partition(RoutedTo(t, written), RoutedTo(t, unread \cup batch),
                    held[t], Shown(t), lost[t])
        BY DEF Conservation
    <2>6. Partition(RoutedTo(t, written) \cup RoutedTo(t, new),
                    RoutedTo(t, unread \cup batch) \cup RoutedTo(t, new),
                    held[t], Shown(t), lost[t])
        BY <2>3, <2>5, PartitionAdd
    <2>7. QED
        BY <2>1, <2>3, <2>4, <2>6
<1>3. CASE Crash \/ Exit
    <2>1. held'[s] = {} /\ lost'[s] = lost[s] \cup held[s] \cup RoutedTo(s, batch)
          /\ batch' = {} /\ UNCHANGED <<written, unread, reports>>
        BY <1>3 DEF Crash, Exit, DropAll, NoEvents, logVars
    <2>2. RoutedTo(s, unread \cup batch) = RoutedTo(s, unread) \cup RoutedTo(s, batch)
          /\ RoutedTo(s, unread) \cap RoutedTo(s, batch) = {}
        BY DEF RoutedTo, BufferInv
    <2>3. RoutedTo(s, (unread \cup batch)') = RoutedTo(s, unread) /\ Shown(s)' = Shown(s)
        BY <2>1 DEF Shown
    <2>4. Partition(RoutedTo(s, written), RoutedTo(s, unread), {}, Shown(s),
                    (lost[s] \cup held[s]) \cup RoutedTo(s, batch))
        BY <1>0, <2>2, PartitionDrop
    <2>5. QED
        BY <2>1, <2>3, <2>4
<1>4. CASE DwInit
    <2>1. PICK passed \in SUBSET unread :
              /\ unread' = unread \ passed
              /\ lost' = [t \in Section |-> lost[t] \cup RoutedTo(t, passed)]
        BY <1>4 DEF DwInit
    <2>2. UNCHANGED <<written, batch, held, reports>> /\ batch = {}
        BY <1>4 DEF DwInit, BufferInv
    <2>3. RoutedTo(s, unread \cup batch) = RoutedTo(s, unread') \cup RoutedTo(s, passed)
          /\ RoutedTo(s, unread') \cap RoutedTo(s, passed) = {}
        BY <2>1, <2>2 DEF RoutedTo
    <2>4. Partition(RoutedTo(s, written), RoutedTo(s, unread') \cup RoutedTo(s, passed),
                    held[s], Shown(s), lost[s])
        BY <1>0, <2>3
    <2>5. RoutedTo(s, (unread \cup batch)') = RoutedTo(s, unread') /\ Shown(s)' = Shown(s)
          /\ lost'[s] = lost[s] \cup RoutedTo(s, passed)
        BY <2>1, <2>2 DEF Shown
    <2>6. QED
        BY <2>2, <2>3, <2>4, <2>5 DEF Partition
<1>5. CASE ExecuteStep
    <2>1. (unread \cup batch)' = unread \cup batch
          /\ UNCHANGED <<written, held, reports, lost>>
        BY <1>5 DEF ExecuteStep, Delivered, BufferInv
    <2>2. QED
        BY <1>0, <2>1 DEF Shown
<1>6. CASE Dispatch
    <2>1. held'[s] = held[s] \cup RoutedTo(s, batch) /\ batch' = {}
          /\ UNCHANGED <<written, unread, reports, lost>>
        BY <1>6 DEF Dispatch, logVars
    <2>2. RoutedTo(s, unread \cup batch) = RoutedTo(s, unread) \cup RoutedTo(s, batch)
          /\ RoutedTo(s, unread) \cap RoutedTo(s, batch) = {}
        BY DEF RoutedTo, BufferInv
    <2>3. RoutedTo(s, (unread \cup batch)') = RoutedTo(s, unread) /\ Shown(s)' = Shown(s)
        BY <2>1 DEF Shown
    <2>4. QED
        BY <1>0, <2>1, <2>2, <2>3 DEF Partition
<1>7. CASE SendReport
    <2>1. held'[s] = held[s] \ Taken(s)
          /\ UNCHANGED <<written, unread, batch, lost>>
        BY <1>7 DEF SendReport, logVars
    <2>2. Shown(s)' = Shown(s) \cup Taken(s) /\ Taken(s) \subseteq held[s]
        BY <1>7, ShownGrows DEF Taken
    <2>3. QED
        BY <1>0, <2>1, <2>2 DEF Partition
<1>8. CASE Tick \/ RequestStop \/ Restart \/ StartLoop \/ NewIteration \/ NoReport \/ Pace
           \/ UNCHANGED vars
    BY <1>1, <1>8 DEF Tick, RequestStop, Restart, StartLoop, NewIteration, NoReport, Pace,
       vars, logVars, dataVars
<1>9. ASSUME Conservation' PROVE Partition(RoutedTo(s, written'), RoutedTo(s, (unread \cup batch)'),
                                           held'[s], Shown(s)', lost'[s])
    BY <1>9 DEF Conservation
<1>10. QED
    BY <1>2, <1>3, <1>4, <1>5, <1>6, <1>7, <1>8, <1>9 DEF Next, Loop, Environment

-----------------------------------------------------------------------------
(* The clock, the loop's sample of it and the minutes reported.            *)

\* Past the deadline of a minute, that minute is over.
LEMMA PastDeadline ==
    ASSUME NEW t \in Time, NEW m \in Nat, ~Leq(t, Deadline(m))
    PROVE  m < t.min
BY TimeAssumption DEF Time, Leq, Deadline

\* Once past the deadline of a minute, always past it.
LEMMA DeadlineStays ==
    ASSUME NEW t \in Time, NEW u \in Time, NEW m \in Nat, Leq(t, u), ~Leq(t, Deadline(m))
    PROVE  ~Leq(u, Deadline(m))
BY TimeAssumption DEF Time, Leq, Deadline

\* The condition of the report: the sample is past the deadline of prevMinute.
LEMMA DueIsPast ==
    ASSUME TypeOK, ClockInv, IsNewInv, pc = "report", ReportDue
    PROVE  /\ ~Leq(curTime, Deadline(prevMinute))
           /\ ~Leq(now, Deadline(prevMinute))
           /\ prevMinute < curTime.min
<1>1. curTime \in Time /\ now \in Time /\ prevMinute \in Nat /\ Leq(curTime, now)
    BY DEF TypeOK, ClockInv, Active
<1>2. prevMinute # curTime.min /\ prevMinute <= curTime.min /\ Grace < curTime.sec
    BY TimeAssumption, <1>1 DEF IsNewInv, ClockInv, Active, ReportDue, Time
<1>3. prevMinute < curTime.min
    BY <1>1, <1>2 DEF Time
<1>4. ~Leq(curTime, Deadline(prevMinute))
    BY <1>1, <1>2, <1>3, TimeAssumption DEF Leq, Deadline, Time
<1>5. QED
    BY <1>1, <1>3, <1>4, DeadlineStays

(* A report has a minute for its date and sets of events for its sections. *)
LEMMA DateType ==
    ASSUME TypeOK, NEW i \in DOMAIN reports
    PROVE  reports[i].date \in Nat /\ reports[i].body \in [Section -> SUBSET Event]
<1>1. reports \in Seq(Report)
    BY DEF TypeOK
<1>2. reports[i] \in Report
    BY <1>1
<1>3. QED
    BY <1>2 DEF Report

(* The sample of the clock stays behind the clock, and the reports behind  *)
(* the loop.                                                               *)
LEMMA ClockStep ==
    ASSUME TypeOK, TypeOK', ClockInv, IsNewInv, ReportsOrdered, [Next]_vars
    PROVE  ClockInv'
<1>0. /\ now \in Time /\ curTime \in Time /\ prevMinute \in Nat
      /\ now' \in Time /\ curTime' \in Time /\ prevMinute' \in Nat
    BY DEF TypeOK
<1>1. CASE Tick
    <2>1. UNCHANGED <<pc, prevMinute, curTime, reports>>
        BY <1>1 DEF Tick, loopVars, dataVars
    <2>2. Leq(curTime, now) => Leq(curTime, now')
        BY <1>0, <1>1, TickForward, LeqTransitive
    <2>3. QED
        BY <2>1, <2>2 DEF ClockInv, Active
<1>2. CASE UNCHANGED <<now, prevMinute, curTime, reports>> /\ (Active' => Active)
    BY <1>2 DEF ClockInv
<1>3. CASE StartLoop
    <2>1. now' = now /\ prevMinute' = now.min /\ curTime' = MinuteStart(now.min)
          /\ reports' = reports
        BY <1>3 DEF StartLoop, clockVars, dataVars
    <2>2. \A i \in DOMAIN reports : reports[i].date < now.min
        BY <1>0, DateType, PastDeadline DEF ReportsOrdered
    <2>3. Leq(curTime', now') /\ prevMinute' <= curTime'.min
        BY <2>1, <1>0, TimeAssumption DEF Leq, MinuteStart, Time
    <2>4. QED
        BY <2>1, <2>2, <2>3 DEF ClockInv
<1>4. CASE SendReport
    <2>1. prevMinute < curTime.min /\ Leq(curTime, now)
          /\ \A i \in DOMAIN reports : reports[i].date < prevMinute
        BY <1>4, DueIsPast DEF SendReport, ClockInv, Active
    <2>2. now' = now /\ curTime' = curTime /\ prevMinute' = curTime.min
        BY <1>4 DEF SendReport, clockVars
    <2>3. \A i \in DOMAIN reports' : reports'[i].date < curTime.min
        BY <1>0, <1>4, <2>1, ReportAppended, DateType DEF Time
    <2>4. QED
        BY <2>1, <2>2, <2>3, <1>0 DEF ClockInv, Time
<1>5. CASE Pace
    <2>1. now' = now /\ curTime' = now /\ prevMinute' = prevMinute /\ reports' = reports
        BY <1>5 DEF Pace, clockVars, dataVars
    <2>2. Active
        BY <1>5 DEF Pace, Active
    <2>3. prevMinute <= now.min /\ Leq(now, now)
        BY <1>0, <2>2 DEF ClockInv, Leq, Time
    <2>4. QED
        BY <2>1, <2>2, <2>3 DEF ClockInv
<1>6. CASE RequestStop \/ Crash \/ Restart \/ DwInit \/ Exit \/ NewIteration
           \/ ExecuteStep \/ Dispatch \/ NoReport \/ UNCHANGED vars
           \/ (\E new \in SUBSET (Event \ written) :
                  \E at \in [new -> 0 .. now.min] : Write(new, at))
    BY <1>2, <1>6 DEF RequestStop, Crash, Restart, DwInit, Exit, NewIteration, ExecuteStep,
       Dispatch, NoReport, Write, DropAll, Active, vars, clockVars, loopVars, dataVars
<1>7. QED
    BY <1>1, <1>3, <1>4, <1>5, <1>6 DEF Next, Loop, Environment

(* is_new_minute stays what it was computed from up to the report.         *)
LEMMA IsNewStep ==
    ASSUME TypeOK, IsNewInv, [Next]_vars
    PROVE  IsNewInv'
<1>1. CASE Tick \/ RequestStop \/ UNCHANGED vars \/ ExecuteStep \/ Dispatch
           \/ (\E new \in SUBSET (Event \ written) :
                  \E at \in [new -> 0 .. now.min] : Write(new, at))
    <2>1. UNCHANGED <<prevMinute, curTime, isNew>>
          /\ (pc' \in {"read", "dispatch", "report"} => pc \in {"read", "dispatch", "report"})
        BY <1>1 DEF Tick, Write, RequestStop, ExecuteStep, Dispatch, vars, loopVars
    <2>2. QED
        BY <2>1 DEF IsNewInv
<1>2. CASE NewIteration
    BY <1>2 DEF IsNewInv, NewIteration
<1>3. CASE Crash \/ Restart \/ StartLoop \/ DwInit \/ Exit \/ SendReport \/ NoReport \/ Pace
    <2>1. pc' \notin {"read", "dispatch", "report"}
        BY <1>3 DEF Crash, Restart, StartLoop, DwInit, Exit, SendReport, NoReport, Pace
    <2>2. QED
        BY <2>1 DEF IsNewInv
<1>4. QED
    BY <1>1, <1>2, <1>3 DEF Next, Loop, Environment

(* Sending a report keeps the reports in order, each after its grace       *)
(* period.                                                                 *)
LEMMA OrderStep ==
    ASSUME TypeOK, TypeOK', ClockInv, IsNewInv, ReportsOrdered, [Next]_vars
    PROVE  ReportsOrdered'
<1>0. now \in Time /\ now' \in Time /\ prevMinute \in Nat
    BY DEF TypeOK
<1>1. CASE Tick
    <2>1. reports' = reports
        BY <1>1 DEF Tick, dataVars
    <2>2. \A i \in DOMAIN reports : ~Leq(now', Deadline(reports[i].date))
        BY <1>0, <1>1, TickForward, DeadlineStays, DateType DEF ReportsOrdered
    <2>3. QED
        BY <2>1, <2>2 DEF ReportsOrdered
<1>2. CASE SendReport
    <2>1. now' = now /\ ~Leq(now, Deadline(prevMinute))
          /\ \A i \in DOMAIN reports : reports[i].date < prevMinute
        BY <1>2, DueIsPast DEF SendReport, clockVars, ClockInv, Active
    <2>2. \A i \in DOMAIN reports' : ~Leq(now', Deadline(reports'[i].date))
        BY <1>2, <2>1, ReportAppended DEF ReportsOrdered
    <2>3. \A i, j \in DOMAIN reports' : i < j => reports'[i].date < reports'[j].date
        BY <1>2, <2>1, ReportAppended DEF ReportsOrdered
    <2>4. QED
        BY <2>2, <2>3 DEF ReportsOrdered
<1>3. CASE UNCHANGED <<now, reports>>
    BY <1>3 DEF ReportsOrdered
<1>4. CASE RequestStop \/ Crash \/ Restart \/ StartLoop \/ DwInit \/ Exit \/ NewIteration
           \/ ExecuteStep \/ Dispatch \/ NoReport \/ Pace \/ UNCHANGED vars
           \/ (\E new \in SUBSET (Event \ written) :
                  \E at \in [new -> 0 .. now.min] : Write(new, at))
    BY <1>3, <1>4 DEF RequestStop, Crash, Restart, StartLoop, DwInit, Exit, NewIteration,
       ExecuteStep, Dispatch, NoReport, Pace, Write, vars, clockVars, dataVars
<1>5. QED
    BY <1>1, <1>2, <1>4 DEF Next, Loop, Environment

-----------------------------------------------------------------------------
(* The report of a minute holds what was on time for it.                   *)

(* After the read that precedes a report, only late events of its minute   *)
(* are unread.                                                             *)
LEMMA ReadStep ==
    ASSUME TypeOK, TypeOK', ClockInv, IsNewInv, ReadInv, [Next]_vars
    PROVE  ReadInv'
<1>0. now \in Time /\ curTime \in Time /\ prevMinute \in Nat
    BY DEF TypeOK
<1>1. CASE UNCHANGED <<pc, isNew, curTime, prevMinute, unread, stamp, late>>
    BY <1>1 DEF ReadInv
<1>2. ASSUME NEW new \in SUBSET (Event \ written),
             NEW at \in [new -> 0 .. now.min], Write(new, at),
             pc \in {"dispatch", "report"}, isNew, ~Leq(curTime, Deadline(prevMinute))
      PROVE  \A f \in unread' : stamp'[f] = prevMinute => f \in late'
    <2>1. ~Leq(now, Deadline(prevMinute))
        BY <1>0, <1>2, DeadlineStays DEF ClockInv, Active
    <2>2. \A f \in unread : stamp'[f] = stamp[f]
        BY <1>2 DEF Write, TypeOK
    <2>3. \A f \in unread : stamp'[f] = prevMinute => f \in late'
        BY <1>2, <2>2 DEF ReadInv, Write
    <2>4. \A f \in new : stamp'[f] = at[f]
        BY <1>2 DEF Write, TypeOK
    <2>5. \A f \in new : stamp'[f] = prevMinute => f \in late'
        BY <1>2, <2>1, <2>4 DEF Write
    <2>6. QED
        BY <1>2, <2>3, <2>5 DEF Write
<1>3. ASSUME NEW new \in SUBSET (Event \ written),
             NEW at \in [new -> 0 .. now.min], Write(new, at)
      PROVE  ReadInv'
    <2>1. UNCHANGED <<pc, isNew, curTime, prevMinute>>
        BY <1>3 DEF Write, loopVars
    <2>2. QED
        BY <1>2, <1>3, <2>1 DEF ReadInv
<1>4. CASE ExecuteStep
    <2>1. PICK events \in Delivered : unread' = unread \ events
        BY <1>4 DEF ExecuteStep
    <2>2. UNCHANGED <<isNew, curTime, prevMinute, stamp, late>>
        BY <1>4 DEF ExecuteStep
    <2>3. Due \cap unread' = {}
        BY <2>1 DEF Delivered
    <2>4. ASSUME ~Leq(curTime, Deadline(prevMinute)),
                 NEW e \in unread', stamp[e] = prevMinute
          PROVE  e \in late
        BY <2>1, <2>3, <2>4 DEF Due
    <2>5. QED
        BY <2>2, <2>4 DEF ReadInv
<1>5. CASE Dispatch
    <2>1. UNCHANGED <<isNew, curTime, prevMinute, unread, stamp, late>> /\ pc = "dispatch"
        BY <1>5 DEF Dispatch, logVars
    <2>2. QED
        BY <2>1 DEF ReadInv
<1>6. CASE Tick \/ RequestStop \/ UNCHANGED vars
    BY <1>1, <1>6 DEF Tick, RequestStop, vars, loopVars, logVars
<1>7. CASE Crash \/ Restart \/ StartLoop \/ DwInit \/ Exit \/ NewIteration \/ SendReport
           \/ NoReport \/ Pace
    <2>1. pc' \notin {"dispatch", "report"}
        BY <1>7 DEF Crash, Restart, StartLoop, DwInit, Exit, NewIteration, SendReport,
           NoReport, Pace
    <2>2. QED
        BY <2>1 DEF ReadInv
<1>8. QED
    BY <1>3, <1>4, <1>5, <1>6, <1>7 DEF Next, Loop, Environment

(* What was reported was written to the log.                               *)
LEMMA ShownWritten ==
    ASSUME Conservation, NEW s \in Section, NEW i \in DOMAIN reports
    PROVE  reports[i].body[s] \subseteq RoutedTo(s, written)
BY DEF Conservation, Partition, Shown

(* The aggregated sections of the reports keep to their minutes.           *)
LEMMA OwnMinuteStep ==
    ASSUME TypeOK, Conservation, OwnMinuteOnly, [Next]_vars
    PROVE  OwnMinuteOnly'
<1>1. CASE UNCHANGED <<reports, stamp>>
    BY <1>1 DEF OwnMinuteOnly
<1>2. ASSUME NEW new \in SUBSET (Event \ written),
             NEW at \in [new -> 0 .. now.min], Write(new, at)
      PROVE  OwnMinuteOnly'
    <2>1. \A s \in Aggregators : \A i \in DOMAIN reports :
              reports[i].body[s] \subseteq written
        BY ShownWritten, RoutedFacts DEF Section
    <2>2. \A f \in written : stamp'[f] = stamp[f]
        BY <1>2 DEF Write, TypeOK
    <2>3. reports' = reports
        BY <1>2 DEF Write, dataVars
    <2>4. QED
        BY <2>1, <2>2, <2>3 DEF OwnMinuteOnly
<1>3. CASE SendReport
    <2>1. stamp' = stamp
        BY <1>3 DEF SendReport, logVars
    <2>2. \A s \in Aggregators : \A e \in Taken(s) : stamp[e] = prevMinute
        BY DEF Taken
    <2>3. QED
        BY <1>3, <2>1, <2>2, ReportAppended DEF OwnMinuteOnly, Section
<1>4. CASE Tick \/ RequestStop \/ Crash \/ Restart \/ StartLoop \/ DwInit \/ Exit
           \/ NewIteration \/ ExecuteStep \/ Dispatch \/ NoReport \/ Pace \/ UNCHANGED vars
    BY <1>1, <1>4 DEF Tick, RequestStop, Crash, Restart, StartLoop, DwInit, Exit,
       NewIteration, ExecuteStep, Dispatch, NoReport, Pace, vars, logVars, dataVars
<1>5. QED
    BY <1>2, <1>3, <1>4 DEF Next, Loop, Environment

(* The event that was on time is in the report of its minute: the step     *)
(* that sends it takes all that ReadInv and Conservation leave nowhere     *)
(* else.                                                                   *)
LEMMA OnTimeStep ==
    ASSUME TypeOK, ClockInv, IsNewInv, ReadInv, BufferInv, Conservation, Conservation',
           ReportsOrdered, OwnMinuteOnly, OnTimeEventsReported, [Next]_vars
    PROVE  OnTimeEventsReported'
<1>1. CASE /\ UNCHANGED <<reports, stamp, late, written>>
           /\ \A s \in Section : lost[s] \subseteq lost'[s]
    BY <1>1 DEF OnTimeEventsReported, Section
<1>2. ASSUME NEW new \in SUBSET (Event \ written),
             NEW at \in [new -> 0 .. now.min], Write(new, at)
      PROVE  OnTimeEventsReported'
    <2>1. /\ UNCHANGED <<reports, lost>> /\ written' = written \cup new /\ new \cap written = {}
          /\ late \subseteq late' /\ \A f \in new : stamp'[f] = at[f]
          /\ \A f \in written : stamp'[f] = stamp[f]
        BY <1>2 DEF Write, dataVars, TypeOK
    <2>2. SUFFICES ASSUME NEW i \in DOMAIN reports, NEW s \in Aggregators,
                          NEW f \in RoutedTo(s, written'),
                          stamp'[f] = reports[i].date, f \notin late'
                   PROVE  f \in reports[i].body[s] \cup lost[s]
        BY <2>1 DEF OnTimeEventsReported
    <2>3. CASE f \in new
        <3>1. ~Leq(now, Deadline(at[f]))
            BY <2>1, <2>2, <2>3 DEF ReportsOrdered
        <3>2. QED
            BY <1>2, <2>2, <2>3, <3>1 DEF Write
    <2>4. CASE f \notin new
        BY <2>1, <2>2, <2>4 DEF OnTimeEventsReported, RoutedTo
    <2>5. QED
        BY <2>3, <2>4
<1>3. CASE SendReport
    <2>1. UNCHANGED <<stamp, late, written, unread, batch, lost>> /\ batch = {}
        BY <1>3 DEF SendReport, logVars, BufferInv
    <2>2. ASSUME NEW s \in Aggregators, NEW e \in RoutedTo(s, written),
                 stamp[e] = prevMinute, e \notin late
          PROVE  e \in Taken(s) \cup lost[s]
        <3>1. s \in Section
            BY DEF Section
        <3>2. e \notin unread
            BY <1>3, <2>2, DueIsPast DEF ReadInv, SendReport, ReportDue
        <3>3. e \notin RoutedTo(s, unread \cup batch)
            BY <2>1, <3>2 DEF RoutedTo
        <3>4. \A i \in DOMAIN reports : e \notin reports[i].body[s]
            <4>1. ASSUME NEW i \in DOMAIN reports, e \in reports[i].body[s]
                  PROVE  FALSE
                <5>1. reports[i].date = prevMinute
                    BY <2>2, <4>1 DEF OwnMinuteOnly
                <5>2. reports[i].date < prevMinute
                    BY <1>3 DEF ClockInv, Active, SendReport
                <5>3. QED
                    BY <5>1, <5>2, DateType
            <4>2. QED
                BY <4>1
        <3>5. e \in held[s] \cup lost[s]
            BY <2>2, <3>1, <3>3, <3>4 DEF Conservation, Partition, Shown
        <3>6. QED
            BY <2>2, <3>5 DEF Taken
    <2>3. QED
        BY <1>3, <2>1, <2>2, ReportAppended DEF OnTimeEventsReported, Section
<1>4. CASE Crash \/ Exit \/ DwInit
    <2>1. UNCHANGED <<reports, stamp, late, written>>
        BY <1>4 DEF Crash, Exit, DwInit, logVars
    <2>2. \A s \in Section : lost[s] \subseteq lost'[s]
        BY <1>4 DEF Crash, Exit, DwInit, DropAll
    <2>3. QED
        BY <1>1, <2>1, <2>2
<1>5. CASE Tick \/ RequestStop \/ Restart \/ StartLoop \/ NewIteration \/ ExecuteStep
           \/ Dispatch \/ NoReport \/ Pace \/ UNCHANGED vars
    BY <1>1, <1>5 DEF Tick, RequestStop, Restart, StartLoop, NewIteration, ExecuteStep,
       Dispatch, NoReport, Pace, vars, logVars, dataVars
<1>6. QED
    BY <1>2, <1>3, <1>4, <1>5 DEF Next, Loop, Environment

-----------------------------------------------------------------------------
(* How far the loop can be ahead of its last report.                       *)

(* A loop whose iterations are prompt stays within a minute of its last    *)
(* report.                                                                 *)
LEMMA SampleStep ==
    ASSUME TypeOK, TypeOK', ClockInv, IsNewInv, SampleInv, [Next]_vars
    PROVE  SampleInv'
<1>0. /\ now \in Time /\ curTime \in Time /\ sampled \in Time /\ prevMinute \in Nat
    BY DEF TypeOK
<1>1. CASE /\ UNCHANGED <<prevMinute, curTime, sampled, slow>>
           /\ (Active' => Active) /\ (pc' = "pace" => pc = "pace")
    BY <1>1 DEF SampleInv
<1>2. CASE StartLoop
    <2>1. /\ prevMinute' = now.min /\ curTime' = MinuteStart(now.min) /\ sampled' = now
          /\ pc' = "init"
        BY <1>2 DEF StartLoop
    <2>2. QED
        BY <1>0, <2>1 DEF SampleInv, MinuteStart, Time
<1>3. CASE SendReport
    <2>1. /\ prevMinute' = curTime.min /\ UNCHANGED <<curTime, sampled, slow>> /\ Active
        BY <1>3 DEF SendReport, histVars, Active
    <2>2. QED
        BY <1>0, <2>1 DEF SampleInv, Time
<1>4. CASE NoReport
    <2>1. /\ UNCHANGED <<prevMinute, curTime, sampled, slow>> /\ Active
          /\ ~(isNew /\ curTime.sec > Grace)
          /\ isNew = (prevMinute # curTime.min)
        BY <1>4 DEF NoReport, histVars, Active, ReportDue, IsNewInv
    <2>2. ASSUME prevMinute # curTime.min PROVE curTime.sec <= Grace
        <3>1. ~(curTime.sec > Grace)
            BY <2>1, <2>2
        <3>2. curTime.sec \in Nat /\ Grace \in Nat
            BY <1>0, TimeAssumption DEF Time
        <3>3. QED
            BY <3>1, <3>2
    <2>3. QED
        BY <2>1, <2>2 DEF SampleInv
<1>5. CASE Pace
    <2>1. /\ prevMinute' = prevMinute /\ curTime' = now /\ sampled' = now
          /\ slow' = (slow \/ ~Prompt(sampled, now)) /\ pc = "pace" /\ pc' = "check"
        BY <1>5 DEF Pace
    <2>2. /\ sampled.min = curTime.min
          /\ curTime = sampled \/ curTime.min = prevMinute
          /\ prevMinute = curTime.min \/ curTime.sec <= Grace
          /\ ~slow => curTime.min <= prevMinute + 1
          /\ prevMinute <= curTime.min
        BY <2>1 DEF SampleInv, ClockInv, Active
    <2>3. ASSUME ~slow'
          PROVE  now.min <= prevMinute + 1
        <3>1. Prompt(sampled, now) /\ ~slow
            BY <2>1, <2>3
        <3>2. CASE now.min = sampled.min
            BY <1>0, <2>2, <3>1, <3>2 DEF Time
        <3>3. CASE /\ now.min = sampled.min + 1
                   /\ now.sec + Grace + 1 <= sampled.sec
            <4>1. Grace < sampled.sec
                BY <1>0, <3>3, TimeAssumption DEF Time
            <4>2. prevMinute = curTime.min
                BY <1>0, <2>2, <4>1, TimeAssumption DEF Time
            <4>3. QED
                BY <1>0, <2>2, <3>3, <4>2 DEF Time
        <3>4. QED
            BY <3>1, <3>2, <3>3 DEF Prompt
    <2>4. QED
        BY <2>1, <2>3 DEF SampleInv
<1>6. CASE Tick \/ RequestStop \/ Crash \/ Restart \/ DwInit \/ Exit \/ NewIteration
           \/ ExecuteStep \/ Dispatch \/ UNCHANGED vars
           \/ (\E new \in SUBSET (Event \ written) :
                  \E at \in [new -> 0 .. now.min] : Write(new, at))
    BY <1>1, <1>6 DEF Tick, RequestStop, Crash, Restart, DwInit, Exit, NewIteration,
       ExecuteStep, Dispatch, Write, Active, vars, loopVars, histVars
<1>7. QED
    BY <1>2, <1>3, <1>4, <1>5, <1>6 DEF Next, Loop, Environment

-----------------------------------------------------------------------------
(* The inductive invariant.                                                *)

(* The inductive invariant holds initially.                                *)
LEMMA InitInv == Init => IInv
<1> SUFFICES ASSUME Init PROVE IInv
    OBVIOUS
<1>1. TypeOK
    BY InitType
<1>2. ClockInv /\ IsNewInv /\ ReadInv /\ BufferInv /\ SampleInv
    BY DEF Init, ClockInv, Active, IsNewInv, ReadInv, BufferInv, SampleInv
<1>3. ReportsOrdered /\ OwnMinuteOnly /\ OnTimeEventsReported
    BY DEF Init, ReportsOrdered, OwnMinuteOnly, OnTimeEventsReported
<1>4. Conservation
    BY DEF Init, Conservation, Partition, Shown, RoutedTo, NoEvents
<1>5. QED
    BY <1>1, <1>2, <1>3, <1>4 DEF IInv

(* The inductive invariant is kept by every step, by the lemmas above.     *)
LEMMA NextInv == IInv /\ [Next]_vars => IInv'
<1> SUFFICES ASSUME IInv, [Next]_vars PROVE IInv'
    OBVIOUS
<1>1. TypeOK'
    BY NextType DEF IInv
<1>2. BufferInv' /\ Conservation'
    BY BufferStep, ConservationStep DEF IInv
<1>3. ClockInv' /\ IsNewInv' /\ ReportsOrdered'
    BY <1>1, ClockStep, IsNewStep, OrderStep DEF IInv
<1>4. ReadInv' /\ SampleInv'
    BY <1>1, ReadStep, SampleStep DEF IInv
<1>5. OwnMinuteOnly' /\ OnTimeEventsReported'
    BY <1>2, OwnMinuteStep, OnTimeStep DEF IInv
<1>6. QED
    BY <1>1, <1>2, <1>3, <1>4, <1>5 DEF IInv

(* The inductive invariant, from which the properties below follow, holds  *)
(* in every reachable state.                                               *)
THEOREM Invariance == Spec => []IInv
    BY InitInv, NextInv, PTL DEF Spec

(* No event is lost without a trace or counted twice: at any moment each   *)
(* event is, for each section it belongs to, in one place only.            *)
THEOREM ConservationHolds == Spec => []Conservation
<1>1. IInv => Conservation
    BY DEF IInv
<1>2. QED
    BY <1>1, Invariance, PTL

(* At most one report per minute, in order, after the grace period.        *)
THEOREM ReportsOrderedHolds == Spec => []ReportsOrdered
<1>1. IInv => ReportsOrdered
    BY DEF IInv
<1>2. QED
    BY <1>1, Invariance, PTL

(* The aggregated sections show the minute of the report only.             *)
THEOREM OwnMinuteOnlyHolds == Spec => []OwnMinuteOnly
<1>1. IInv => OwnMinuteOnly
    BY DEF IInv
<1>2. QED
    BY <1>1, Invariance, PTL

(* What reaches the log within the grace period of its minute is in the    *)
(* report of that minute.                                                  *)
THEOREM OnTimeEventsReportedHolds == Spec => []OnTimeEventsReported
<1>1. IInv => OnTimeEventsReported
    BY DEF IInv
<1>2. QED
    BY <1>1, Invariance, PTL

(* Iterations of at most SecPerMin - Grace - 1 seconds step over no minute. *)
THEOREM ConsecutiveReportsHolds == Spec => ConsecutiveReports
<1>1. ASSUME IInv, [Next]_vars
      PROVE  [Len(reports') > Len(reports) /\ ~slow => prevMinute' = prevMinute + 1]_vars
    <2>1. SUFFICES ASSUME Next, Len(reports') > Len(reports), ~slow
                   PROVE  prevMinute' = prevMinute + 1
        BY <1>1
    <2>2. Len(reports) \in Nat
        BY <1>1 DEF IInv, TypeOK
    <2>3. CASE SendReport
        <3>1. prevMinute < curTime.min /\ prevMinute' = curTime.min
            BY <1>1, <2>3, DueIsPast DEF SendReport, IInv
        <3>2. curTime.min <= prevMinute + 1
            BY <1>1, <2>1, <2>3 DEF SendReport, IInv, SampleInv, Active
        <3>3. prevMinute \in Nat /\ curTime.min \in Nat
            BY <1>1 DEF IInv, TypeOK, Time
        <3>4. QED
            BY <3>1, <3>2, <3>3
    <2>4. CASE ~SendReport
        <3>1. reports' = reports
            BY <2>1, <2>4 DEF Next, Loop, Environment, Tick, Write, RequestStop, Crash, Restart,
               StartLoop, DwInit, Exit, NewIteration, ExecuteStep, Dispatch, NoReport,
               Pace, dataVars
        <3>2. QED
            BY <2>1, <2>2, <3>1
    <2>5. QED
        BY <2>3, <2>4
<1>2. QED
    BY <1>1, Invariance, PTL DEF Spec, ConsecutiveReports

-----------------------------------------------------------------------------
(* The loop implements the ledger.                                         *)

Bodies(R) == [i \in DOMAIN R |-> R[i].body]

(* The bodies of a log of reports are a sequence of the same length.       *)
LEMMA BodiesType ==
    ASSUME NEW R \in Seq(Report)
    PROVE  /\ Bodies(R) \in Seq([Section -> SUBSET Event])
           /\ Len(Bodies(R)) = Len(R) /\ DOMAIN Bodies(R) = DOMAIN R
           /\ Len(R) \in Nat /\ DOMAIN R = 1 .. Len(R)
<1>1. Len(R) \in Nat /\ DOMAIN R = 1 .. Len(R)
    OBVIOUS
<1>2. \A i \in 1 .. Len(R) : R[i].body \in [Section -> SUBSET Event]
    <2>1. \A i \in 1 .. Len(R) : R[i] \in Report
        BY <1>1
    <2>2. QED
        BY <2>1 DEF Report
<1>3. Bodies(R) = [i \in 1 .. Len(R) |-> R[i].body]
    BY <1>1 DEF Bodies
<1>4. Bodies(R) \in Seq([Section -> SUBSET Event])
    BY <1>1, <1>2, <1>3
<1>5. QED
    BY <1>1, <1>3, <1>4

\* The bodies of a longer log of reports are those of the log and one more.
LEMMA BodiesAppend ==
    ASSUME NEW R \in Seq(Report), NEW r \in Report
    PROVE  Bodies(Append(R, r)) = Append(Bodies(R), r.body)
<1> DEFINE T == [Section -> SUBSET Event]
           A == Append(R, r)
<1>1. A \in Seq(Report) /\ Len(A) = Len(R) + 1
    OBVIOUS
<1>2. /\ \A i \in 1 .. Len(R) : A[i] = R[i]
      /\ A[Len(R) + 1] = r
    OBVIOUS
<1> HIDE DEF A
<1>3. /\ Bodies(A) \in Seq(T) /\ Len(Bodies(A)) = Len(R) + 1
      /\ DOMAIN A = 1 .. Len(R) + 1
    BY <1>1, BodiesType
<1>4. /\ Bodies(R) \in Seq(T) /\ Len(Bodies(R)) = Len(R)
      /\ DOMAIN R = 1 .. Len(R) /\ Len(R) \in Nat
    BY BodiesType
<1>5. r.body \in T
    BY DEF Report
<1>6. Append(Bodies(R), r.body) \in Seq(T)
      /\ Len(Append(Bodies(R), r.body)) = Len(R) + 1
    BY <1>4, <1>5
<1>7. ASSUME NEW i \in 1 .. Len(R) + 1
      PROVE  Bodies(A)[i] = Append(Bodies(R), r.body)[i]
    <2>1. Bodies(A)[i] = A[i].body
        BY <1>3, <1>7 DEF Bodies
    <2>2. CASE i = Len(R) + 1
        BY <1>2, <1>4, <1>5, <2>1, <2>2
    <2>3. CASE i # Len(R) + 1
        <3>1. i \in 1 .. Len(R)
            BY <1>4, <1>7, <2>3
        <3>2. Append(Bodies(R), r.body)[i] = Bodies(R)[i]
            BY <1>4, <1>5, <3>1
        <3>3. Bodies(R)[i] = R[i].body
            BY <1>4, <3>1 DEF Bodies
        <3>4. QED
            BY <1>2, <2>1, <3>1, <3>2, <3>3
    <2>4. QED
        BY <2>2, <2>3
<1>8. Bodies(A) = Append(Bodies(R), r.body)
    BY <1>3, <1>6, <1>7, SeqEqual
<1>9. QED
    BY <1>8 DEF A

(* What the ledger calls pending is what is unread, in the batch or held.  *)
LEMMA PendingIs ==
    ASSUME TypeOK, NEW s \in Section
    PROVE  Ledger!Pending(s) = RoutedTo(s, written) \ (Shown(s) \cup lost[s])
<1>1. Ledger!Shown(s) = Shown(s)
    BY DEF Ledger!Shown, Shown
<1>2. written \cap RoutedTo(s, Event) = RoutedTo(s, written)
    BY DEF TypeOK, RoutedTo
<1>3. QED
    BY <1>1, <1>2 DEF Ledger!Pending

(* Sending a report is the step Publish of the ledger.                     *)
LEMMA PublishStep ==
    ASSUME TypeOK, Conservation, SendReport
    PROVE  Ledger!Publish
<1> DEFINE body == [s \in Section |-> Taken(s)]
           r == [date |-> prevMinute, body |-> body]
<1>1. body \in [Section -> SUBSET Event]
    BY DEF Taken, TypeOK
<1>2. reports \in Seq(Report) /\ r \in Report
    BY <1>1 DEF TypeOK, Report
<1>3. reports' = Append(reports, r)
    BY DEF SendReport
<1>4. Bodies(reports') = Append(Bodies(reports), body)
    BY <1>2, <1>3, BodiesAppend
<1>5. Bodies(reports) \in Seq([Section -> SUBSET Event])
    BY <1>2, BodiesType
<1>6. \A s \in Section : body[s] \subseteq Ledger!Pending(s)
    BY PendingIs DEF Taken, Conservation, Partition
<1> HIDE DEF body, r
<1>7. Bodies(reports')[Len(Bodies(reports)) + 1] = body
      /\ Len(Bodies(reports')) = Len(Bodies(reports)) + 1
    BY <1>1, <1>4, <1>5
<1>8. UNCHANGED <<written, lost>>
    BY DEF SendReport, logVars
<1>9. QED
    BY <1>4, <1>6, <1>7, <1>8 DEF Ledger!Publish, Bodies

(* Init, a stop and a crash are the step GiveUp of the ledger.             *)
LEMMA GiveUpStep ==
    ASSUME TypeOK, BufferInv, Conservation, Crash \/ Exit \/ DwInit
    PROVE  Ledger!GiveUp
<1>1. /\ UNCHANGED <<written, reports>>
      /\ \A s \in Section :
            /\ lost[s] \subseteq lost'[s]
            /\ lost'[s] \subseteq lost[s] \cup held[s] \cup RoutedTo(s, batch)
                                 \cup RoutedTo(s, unread)
    <2>1. CASE Crash \/ Exit
        BY <2>1 DEF Crash, Exit, DropAll, logVars
    <2>2. CASE DwInit
        BY <2>2, RoutedFacts DEF DwInit, RoutedTo
    <2>3. QED
        BY <2>1, <2>2
<1>2. \A s \in Section : lost'[s] \ lost[s] \subseteq Ledger!Pending(s)
    <2>1. TAKE s \in Section
    <2>2. Partition(RoutedTo(s, written), RoutedTo(s, unread) \cup RoutedTo(s, batch),
                    held[s], Shown(s), lost[s])
        <3>1. RoutedTo(s, unread \cup batch) = RoutedTo(s, unread) \cup RoutedTo(s, batch)
            BY RoutedFacts
        <3>2. QED
            BY <3>1 DEF Conservation
    <2>3. QED
        BY <1>1, <2>2, PendingIs DEF Partition
<1>3. QED
    BY <1>1, <1>2 DEF Ledger!GiveUp

(* The loop, with its crashes and restarts, implements the ledger: an item *)
(* is shown in at most one report and never after it was dropped.          *)
THEOREM Refinement == Spec => AtMostOnce
<1>1. Init => Ledger!Init
    BY DEF Init, Ledger!Init, NoEvents
<1>2. IInv /\ [Next]_vars => [Ledger!Next]_(Ledger!ledger)
    <2>1. SUFFICES ASSUME IInv, [Next]_vars
                   PROVE  Ledger!Next \/ UNCHANGED <<written, reports, lost>>
        BY DEF Ledger!ledger
    <2>2. CASE SendReport
        BY <2>1, <2>2, PublishStep DEF IInv, Ledger!Next
    <2>3. CASE Crash \/ Exit \/ DwInit
        BY <2>1, <2>3, GiveUpStep DEF IInv, Ledger!Next
    <2>4. ASSUME NEW new \in SUBSET (Event \ written),
             NEW at \in [new -> 0 .. now.min], Write(new, at)
          PROVE  Ledger!Next
        BY <2>4 DEF Write, dataVars, Ledger!Next, Ledger!Log
    <2>5. CASE Tick \/ RequestStop \/ Restart \/ StartLoop \/ NewIteration \/ ExecuteStep
               \/ Dispatch \/ NoReport \/ Pace \/ UNCHANGED vars
        BY <2>5 DEF Tick, RequestStop, Restart, StartLoop, NewIteration, ExecuteStep,
           Dispatch, NoReport, Pace, vars, logVars, dataVars
    <2>6. QED
        BY <2>1, <2>2, <2>3, <2>4, <2>5 DEF Next, Loop, Environment
<1>3. QED
    BY <1>1, <1>2, Invariance, PTL DEF Spec, AtMostOnce, Ledger!Spec
=============================================================================
