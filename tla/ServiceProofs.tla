--------------------------- MODULE ServiceProofs ----------------------------
(***************************************************************************)
(* Proofs about Service, for any number of controls: what the main thread  *)
(* and the handler report through the structure they share is in order,    *)
(* and the stop event outlives the worker and the handler.                 *)
(***************************************************************************)
EXTENDS Service, TLAPS

Starting == {"register", "pending", "create", "running"}
Ending == {"close", "setStopped", "reportStopped", "returned", "exited"}

\* What has been reported while the service runs, stops, and has stopped.
SaidRunning == <<"START_PENDING", "RUNNING">>
SaidPending == <<"START_PENDING", "RUNNING", "STOP_PENDING">>
SaidStopped == <<"START_PENDING", "RUNNING", "STOP_PENDING", "STOPPED">>

At(places) == \E c \in Controls : handler[c] \in places

TypeOK ==
    /\ mode \in {"service", "console"} /\ hThread \in BOOLEAN
    /\ signaled \in BOOLEAN
    /\ handler \in [Controls ->
                    {"none", "status", "report", "signal", "return", "done"}]

\* Before the service says that it runs, nobody sends a control.
BeforeRunning ==
    main \in Starting =>
        /\ worker = "none" /\ ~hThread /\ ~signaled /\ ~At({"status", "report", "signal", "return"})
        /\ reported = IF main \in {"register", "pending"} THEN <<>>
                      ELSE <<"START_PENDING">>
        /\ main = "running" => stopEvent = "open"

\* The handler of one control at a time reports STOP_PENDING before it signals.
Answering ==
    /\ \A c, d \in Controls :
           handler[c] \notin {"none", "done"} /\ handler[d] \notin {"none", "done"} => c = d
    /\ reported \in {SaidRunning, SaidPending, SaidStopped}
    /\ reported = SaidRunning =>
           /\ ~signaled /\ ~At({"signal", "return"})
           /\ ~At({"report"}) => status = "RUNNING"
    /\ At({"report"}) => status = "STOP_PENDING"
    /\ reported # SaidRunning => ~At({"status", "report"})
    /\ signaled => ~At({"signal"})

\* The worker leaves for the signal only, and the main thread waits for it.
Leaving ==
    /\ main \notin Starting
    /\ main = "thread" => worker = "none"
    /\ main \in {"thread", "wait", "close"} => stopEvent = "open"
    /\ worker \in {"leave", "done"} => signaled
    /\ main \in Ending => worker = "done"
    /\ main = "reportStopped" => status = "STOPPED"
    /\ reported = SaidStopped <=> main \in {"returned", "exited"}
    /\ main \in {"thread", "wait"} \cup Ending

Console ==
    /\ reported = <<>> /\ ~At({"status", "report"})
    /\ main \notin {"pending", "running", "setStopped", "reportStopped"}

IInv ==
    /\ TypeOK
    /\ mode = "console" => Console
    /\ mode = "service" =>
           /\ BeforeRunning
           /\ (main = "thread" \/ hThread) => Answering /\ Leaving

-----------------------------------------------------------------------------
LEMMA SameSequence ==
  ASSUME NEW S, NEW s \in Seq(S), NEW t \in Seq(S), Len(s) = Len(t),
         \A i \in 1 .. Len(s) : s[i] = t[i]
  PROVE  s = t
  OBVIOUS

(* Saying one thing more, to one, two and three said.                      *)
LEMMA Say2 ==
  ASSUME NEW a, NEW b
  PROVE  Append(<<a>>, b) = <<a, b>>
<1> DEFINE S == {a, b}
           s == Append(<<a>>, b)
           t == <<a, b>>
<1>1. s \in Seq(S) /\ t \in Seq(S) /\ Len(s) = 2 /\ Len(t) = 2
  OBVIOUS
<1>2. s[1] = t[1] /\ s[2] = t[2]
  OBVIOUS
<1> HIDE DEF s, t
<1>3. s = t
  BY <1>1, <1>2, SameSequence
<1> QED
  BY <1>3 DEF s, t

LEMMA Say3 ==
  ASSUME NEW a, NEW b, NEW c
  PROVE  Append(<<a, b>>, c) = <<a, b, c>>
<1> DEFINE S == {a, b, c}
           s == Append(<<a, b>>, c)
           t == <<a, b, c>>
<1>1. s \in Seq(S) /\ t \in Seq(S) /\ Len(s) = 3 /\ Len(t) = 3
  OBVIOUS
<1>2. s[1] = t[1] /\ s[2] = t[2] /\ s[3] = t[3]
  OBVIOUS
<1> HIDE DEF s, t
<1>3. s = t
  BY <1>1, <1>2, SameSequence
<1> QED
  BY <1>3 DEF s, t

LEMMA Say4 ==
  ASSUME NEW a, NEW b, NEW c, NEW d
  PROVE  Append(<<a, b, c>>, d) = <<a, b, c, d>>
<1> DEFINE S == {a, b, c, d}
           s == Append(<<a, b, c>>, d)
           t == <<a, b, c, d>>
<1>1. s \in Seq(S) /\ t \in Seq(S) /\ Len(s) = 4 /\ Len(t) = 4
  OBVIOUS
<1>2. s[1] = t[1] /\ s[2] = t[2] /\ s[3] = t[3] /\ s[4] = t[4]
  OBVIOUS
<1> HIDE DEF s, t
<1>3. s = t
  BY <1>1, <1>2, SameSequence
<1> QED
  BY <1>3 DEF s, t

LEMMA Sayings ==
    /\ SaidRunning # SaidPending /\ SaidRunning # SaidStopped /\ SaidPending # SaidStopped
    /\ SaidRunning[Len(SaidRunning)] = "RUNNING"
    /\ SaidPending[Len(SaidPending)] # "RUNNING"
    /\ SaidStopped[Len(SaidStopped)] # "RUNNING"
    /\ Append(<<"START_PENDING">>, "RUNNING") = SaidRunning
    /\ Append(SaidRunning, "STOP_PENDING") = SaidPending
    /\ Append(SaidPending, "STOPPED") = SaidStopped
<1> USE DEF SaidRunning, SaidPending, SaidStopped
<1>1. Len(SaidRunning) = 2 /\ Len(SaidPending) = 3 /\ Len(SaidStopped) = 4
  OBVIOUS
<1>2. /\ SaidRunning[2] = "RUNNING" /\ SaidPending[3] = "STOP_PENDING"
      /\ SaidStopped[4] = "STOPPED"
  OBVIOUS
<1>3. SaidRunning # SaidPending /\ SaidRunning # SaidStopped /\ SaidPending # SaidStopped
  <2> HIDE DEF SaidRunning, SaidPending, SaidStopped
  <2> QED
    BY <1>1
<1>4. Append(<<"START_PENDING">>, "RUNNING") = SaidRunning
  BY Say2
<1>5. Append(SaidRunning, "STOP_PENDING") = SaidPending
  BY Say3
<1>6. Append(SaidPending, "STOPPED") = SaidStopped
  BY Say4
<1> HIDE DEF SaidRunning, SaidPending, SaidStopped
<1> QED
  BY <1>1, <1>2, <1>3, <1>4, <1>5, <1>6

LEMMA NoneSaid ==
    /\ Append(<<>>, "START_PENDING") = <<"START_PENDING">>
    /\ <<"START_PENDING">> # <<>>
    /\ <<"START_PENDING">>[Len(<<"START_PENDING">>)] # "RUNNING"
  OBVIOUS

(* The process starts with nothing reported and nobody else running.       *)
LEMMA Initial == Init => IInv
<1> SUFFICES ASSUME Init PROVE IInv
  OBVIOUS
<1>1. TypeOK
  BY DEF Init, TypeOK
<1>2. ~At({"status", "report"}) /\ ~At({"status", "report", "signal", "return"})
  BY DEF Init, At
<1>3. Console /\ BeforeRunning /\ main # "thread" /\ ~hThread
  BY <1>2 DEF Init, Console, BeforeRunning, Starting
<1> QED
  BY <1>1, <1>3 DEF IInv

LEMMA TypeStep == TypeOK /\ [Next]_vars => TypeOK'
<1> SUFFICES ASSUME TypeOK, [Next]_vars PROVE TypeOK'
  OBVIOUS
<1> USE DEF TypeOK, handles, state
<1>1. CASE MainThread
  BY <1>1 DEF MainThread, Register, StartPending, CreateStopEvent, ReportRunning,
              CreateWorker, WaitForStop, CloseStopEvent, SetStopped, ReportStopped,
              Invalidate, CreateThreadStop, WaitForWorker, CloseThreadStop, ExitMain
<1>2. CASE WorkerThread
  BY <1>2 DEF WorkerThread, ReadSettings, Poll, Body, Leave
<1>3. ASSUME NEW c \in Controls, Control(c) \/ HandlerThread(c) PROVE TypeOK'
  BY <1>3 DEF Control, HandlerThread, SetStopPending, ReportPending, Signal, Return, Handling
<1>4. CASE UNCHANGED vars
  BY <1>4 DEF vars
<1> QED
  BY <1>1, <1>2, <1>3, <1>4 DEF Next

(* The console reports nothing.                                            *)
LEMMA ConsoleStep ==
  ASSUME TypeOK, mode = "console", Console, [Next]_vars
  PROVE  Console'
<1> USE DEF TypeOK, Console, At, handles, state, Main
<1>1. CASE MainThread
  BY <1>1 DEF MainThread, Register, StartPending, CreateStopEvent, ReportRunning,
              CreateWorker, WaitForStop, CloseStopEvent, SetStopped, ReportStopped,
              Invalidate, CreateThreadStop, WaitForWorker, CloseThreadStop, ExitMain
<1>2. CASE WorkerThread
  BY <1>2 DEF WorkerThread, ReadSettings, Poll, Body, Leave
<1>3. ASSUME NEW c \in Controls, Control(c) \/ HandlerThread(c) PROVE Console'
  BY <1>3 DEF Control, HandlerThread, SetStopPending, ReportPending, Signal, Return, Handling
<1>4. CASE UNCHANGED vars
  BY <1>4 DEF vars
<1> QED
  BY <1>1, <1>2, <1>3, <1>4 DEF Next

ServiceInv == BeforeRunning /\ ((main = "thread" \/ hThread) => Answering /\ Leaving)

(* The main thread of a service.                                           *)
LEMMA MainStep ==
  ASSUME TypeOK, mode = "service", ServiceInv, MainThread
  PROVE  ServiceInv'
<1> USE Sayings, NoneSaid
        DEF TypeOK, ServiceInv, BeforeRunning, Answering, Leaving, At, Starting, Ending,
            handles, state, Main, Report
<1>1. CASE Register
  BY <1>1 DEF Register
<1>10. CASE StartPending
  BY <1>10 DEF StartPending
<1>11. CASE CreateStopEvent
  BY <1>11 DEF CreateStopEvent
<1>2. CASE ReportRunning
  BY <1>2 DEF ReportRunning
<1>3. CASE CreateWorker
  BY <1>3 DEF CreateWorker
<1>4. CASE WaitForStop
  BY <1>4 DEF WaitForStop
<1>5. CASE CloseStopEvent
  BY <1>5 DEF CloseStopEvent
<1>6. CASE SetStopped
  BY <1>6 DEF SetStopped
<1>7. CASE ReportStopped
  BY <1>7 DEF ReportStopped
<1>8. CASE ExitMain
  BY <1>8 DEF ExitMain
<1>9. CASE Invalidate \/ CreateThreadStop \/ WaitForWorker \/ CloseThreadStop
  BY <1>9 DEF Invalidate, CreateThreadStop, WaitForWorker, CloseThreadStop
<1> QED
  BY <1>1, <1>2, <1>3, <1>4, <1>5, <1>6, <1>7, <1>8, <1>9, <1>10, <1>11
     DEF MainThread

LEMMA WorkerStep ==
  ASSUME TypeOK, mode = "service", ServiceInv, WorkerThread
  PROVE  ServiceInv'
<1> USE DEF TypeOK, ServiceInv, BeforeRunning, Answering, Leaving, At, Starting, Ending,
            handles, state, Working
<1>1. CASE ReadSettings \/ Body
  BY <1>1 DEF ReadSettings, Body
<1>2. CASE Poll
  BY <1>2 DEF Poll, Verdicts
<1>3. CASE Leave
  BY <1>3 DEF Leave
<1> QED
  BY <1>1, <1>2, <1>3 DEF WorkerThread

LEMMA HandlerStep ==
  ASSUME TypeOK, mode = "service", ServiceInv, NEW c \in Controls,
         Control(c) \/ HandlerThread(c)
  PROVE  ServiceInv'
<1> USE Sayings, NoneSaid
        DEF TypeOK, ServiceInv, BeforeRunning, Answering, Leaving, At, Starting, Ending,
            handles, state, Handling, Report
<1>1. CASE Control(c)
  <2>1. /\ reported # <<>> /\ reported[Len(reported)] = "RUNNING"
        /\ \A d \in Controls : handler[d] \in {"none", "done"}
        /\ UNCHANGED <<mode, main, worker, hThread, stopEvent, signaled, status, reported>>
    BY <1>1 DEF Control, Accepting
  <2>2. main \notin Starting
    BY <2>1
  <2>3. CASE ~(main = "thread" \/ hThread)
    BY <2>1, <2>2, <2>3
  <2>4. CASE main = "thread" \/ hThread
    <3>1. reported = SaidRunning /\ status = "RUNNING"
      BY <2>1, <2>4
    <3>2. handler' = [handler EXCEPT ![c] = "status"]
      BY <1>1, <3>1 DEF Control
    <3> QED
      BY <2>1, <2>2, <2>4, <3>1, <3>2
  <2> QED
    BY <2>3, <2>4
<1>2. CASE SetStopPending(c)
  BY <1>2 DEF SetStopPending
<1>3. CASE ReportPending(c)
  BY <1>3 DEF ReportPending
<1>4. CASE Signal(c)
  BY <1>4 DEF Signal
<1>5. CASE Return(c)
  BY <1>5 DEF Return
<1> QED
  BY <1>1, <1>2, <1>3, <1>4, <1>5 DEF HandlerThread

(* What each kind of thread does keeps the invariant.                      *)
LEMMA Invariance == IInv /\ [Next]_vars => IInv'
<1> SUFFICES ASSUME IInv, [Next]_vars PROVE IInv'
  OBVIOUS
<1>1. mode' = mode
  BY DEF Next, vars, handles, state, MainThread, Register, StartPending, CreateStopEvent,
         ReportRunning, CreateWorker, WaitForStop, CloseStopEvent, SetStopped,
         ReportStopped, Invalidate, CreateThreadStop, WaitForWorker, CloseThreadStop,
         ExitMain, WorkerThread, ReadSettings, Poll, Body, Leave, Control,
         HandlerThread, SetStopPending, ReportPending, Signal, Return
<1>2. ASSUME mode = "service" PROVE ServiceInv'
  <2>1. CASE UNCHANGED vars
    BY <1>2, <2>1 DEF IInv, ServiceInv, vars, handles, state, BeforeRunning, Answering,
                      Leaving, At
  <2> QED
    BY <1>2, <2>1, MainStep, WorkerStep, HandlerStep DEF IInv, ServiceInv, Next
<1> QED
  BY <1>1, <1>2, TypeStep, ConsoleStep DEF IInv, ServiceInv, TypeOK

(* What the service manager is told is in order, STOPPED last.             *)
THEOREM StatusInOrderHolds == Spec => []StatusInOrder
<1>1. IInv => StatusInOrder
  BY DEF IInv, TypeOK, Console, Answering, StatusInOrder, Legal, SaidRunning,
         SaidPending, SaidStopped
<1> QED
  BY <1>1, Initial, Invariance, PTL DEF Spec

(* Neither the worker nor the handler of a service uses the stop event     *)
(* after it was closed, and STOPPED finds the worker done.                 *)
THEOREM EventOutlivesUsersHolds == Spec => []EventOutlivesUsers
<1>1. IInv => EventOutlivesUsers
  BY Sayings DEF IInv, TypeOK, Answering, Leaving, Ending, At, EventOutlivesUsers
<1> QED
  BY <1>1, Initial, Invariance, PTL DEF Spec

=============================================================================
