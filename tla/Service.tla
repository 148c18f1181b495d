------------------------------ MODULE Service -------------------------------
(***************************************************************************)
(* The life of the process: RunConsole with HandlerRoutine, or ServiceMain *)
(* with ServiceCtrlHandler, around WorkerThread (yellow-watcher.cpp).      *)
(* Three kinds of threads share the two event handles and, in service      *)
(* mode, the structure g_ServiceStatus, without a lock: the main thread,   *)
(* the worker, and the threads on which the system calls the handler.      *)
(* What the worker does between two looks at the stop event is Worker.tla. *)
(***************************************************************************)
EXTENDS Naturals, Sequences

CONSTANTS Controls,  \* the controls that may come: stop requests or Ctrl keys
          KindOf     \* KindOf[c]: "stop" (service, Ctrl+C, Ctrl+Break) or
                     \* "close" (console close, logoff, shutdown)

ASSUME KindAssumption == KindOf \in [Controls -> {"stop", "close"}]

VARIABLES mode,       \* how wmain was called: "service" or "console"
          main,       \* where RunConsole or ServiceMain is
          worker,     \* where WorkerThread is
          handler,    \* handler[c]: where the handler of control c is
          proc,       \* the process: "up", "exited" or "died"
          hThread,    \* CreateThread gave a thread
          stopEvent,  \* g_ServiceStopEvent: what the handle in it is worth
          signaled,   \* the stop event is set
          threadStop, \* g_ServiceThreadStop, likewise
          stopped,    \* that event is set
          status,     \* g_ServiceStatus.dwCurrentState
          reported    \* what SetServiceStatus reported (history)

handles == <<stopEvent, signaled, threadStop, stopped>>
state == <<status, reported>>
vars == <<mode, main, worker, handler, proc, hThread, handles, state>>

Init ==
    /\ mode \in {"service", "console"}
    /\ main = "register" /\ worker = "none"
    /\ handler = [c \in Controls |-> "none"]
    /\ proc = "up" /\ hThread = FALSE
    /\ stopEvent = "invalid" /\ signaled = FALSE
    /\ threadStop = "invalid" /\ stopped = FALSE
    /\ status = "none" /\ reported = <<>>

Up == proc = "up"

\* SetServiceStatus takes the structure as it is.
Report(s) == reported' = Append(reported, s)

-----------------------------------------------------------------------------
(* The main thread. *)

Main(from, to) == Up /\ main = from /\ main' = to

\* RegisterServiceCtrlHandler, or SetConsoleCtrlHandler.  Without a handler
\* ServiceMain returns, and the dispatcher waits for a status in vain.
Register ==
    /\ \/ Main("register", IF mode = "service" THEN "pending" ELSE "create")
       \/ mode = "service" /\ Main("register", "returned")
    /\ UNCHANGED <<mode, worker, handler, proc, hThread, handles, state>>

StartPending ==
    /\ Main("pending", "create")
    /\ status' = "START_PENDING" /\ Report("START_PENDING")
    /\ UNCHANGED <<mode, worker, handler, proc, hThread, handles>>

\* CreateEvent; when it fails, a service reports that it has stopped, and
\* the console goes on to its second event.
CreateStopEvent ==
    /\ \/ /\ Main("create", IF mode = "service" THEN "running" ELSE "thread")
          /\ stopEvent' = "open"
          /\ UNCHANGED state
       \/ /\ mode = "service" /\ Main("create", "returned")
          /\ stopEvent' = "null"
          /\ status' = "STOPPED" /\ Report("STOPPED")
       \/ /\ mode = "console" /\ Main("create", "createStopped")
          /\ stopEvent' = "null"
          /\ UNCHANGED state
    /\ UNCHANGED <<mode, worker, handler, proc, hThread, signaled, threadStop,
                   stopped>>

ReportRunning ==
    /\ Main("running", "thread")
    /\ status' = "RUNNING" /\ Report("RUNNING")
    /\ UNCHANGED <<mode, worker, handler, proc, hThread, handles>>

\* CreateThread; ServiceMain does not look at the result.
CreateWorker ==
    /\ \/ Main("thread", "wait") /\ worker' = "settings" /\ hThread' = TRUE
       \/ /\ Main("thread", IF mode = "service" THEN "wait" ELSE "invalidate")
          /\ UNCHANGED <<worker, hThread>>
    /\ UNCHANGED <<mode, handler, proc, handles, state>>

\* Seeded fault: the service, too, waits for the event instead of the thread.
WaitForStopEvent ==
    /\ Main("wait", "close") /\ (signaled \/ ~hThread)
    /\ UNCHANGED <<mode, worker, handler, proc, hThread, handles, state>>

\* WaitForSingleObject: on the thread in service mode (a null handle fails
\* at once), on the stop event in console mode.
WaitForStop ==
    /\ Main("wait", "close")
    /\ IF mode = "service" THEN worker = "done" \/ ~hThread ELSE signaled
    /\ UNCHANGED <<mode, worker, handler, proc, hThread, handles, state>>

CloseStopEvent ==
    /\ Main("close", IF mode = "service" THEN "setStopped" ELSE "invalidate")
    /\ stopEvent' = "closed"
    /\ UNCHANGED <<mode, worker, handler, proc, hThread, signaled, threadStop,
                   stopped, state>>

SetStopped ==
    /\ Main("setStopped", "reportStopped")
    /\ status' = "STOPPED"
    /\ UNCHANGED <<mode, worker, handler, proc, hThread, handles, reported>>

ReportStopped ==
    /\ Main("reportStopped", "returned")
    /\ Report(status)
    /\ UNCHANGED <<mode, worker, handler, proc, hThread, handles, status>>

Invalidate ==
    /\ Main("invalidate", "createStopped")
    /\ stopEvent' = "invalid"
    /\ UNCHANGED <<mode, worker, handler, proc, hThread, signaled, threadStop,
                   stopped, state>>

\* The event by which the worker is to say that it is done is created when
\* the worker may be done already.
CreateThreadStop ==
    /\ \/ Main("createStopped", "waitStopped") /\ threadStop' = "open"
       \/ Main("createStopped", "returned") /\ threadStop' = "null"
    /\ UNCHANGED <<mode, worker, handler, proc, hThread, stopEvent, signaled,
                   stopped, state>>

WaitForWorker ==
    /\ Main("waitStopped", "closeStopped")
    /\ UNCHANGED <<mode, worker, handler, proc, hThread, handles, state>>

CloseThreadStop ==
    /\ Main("closeStopped", "returned")
    /\ threadStop' = "closed"
    /\ UNCHANGED <<mode, worker, handler, proc, hThread, stopEvent, signaled,
                   stopped, state>>

\* wmain returns: from RunConsole, or from the dispatcher, which waits until
\* the service has said that it has stopped.
ExitMain ==
    /\ Main("returned", "exited")
    /\ mode = "service" => reported # <<>> /\ reported[Len(reported)] = "STOPPED"
    /\ proc' = "exited"
    /\ UNCHANGED <<mode, worker, handler, hThread, handles, state>>

MainThread ==
    \/ Register \/ StartPending \/ CreateStopEvent \/ ReportRunning
    \/ CreateWorker \/ WaitForStop \/ CloseStopEvent \/ SetStopped
    \/ ReportStopped \/ Invalidate \/ CreateThreadStop \/ WaitForWorker
    \/ CloseThreadStop \/ ExitMain

-----------------------------------------------------------------------------
(* The worker. *)

Working(from, to) == Up /\ worker = from /\ worker' = to

\* The settings can be read, or else ExitProcess(1).
ReadSettings ==
    /\ \/ Working("settings", "poll") /\ UNCHANGED proc
       \/ Working("settings", "settings") /\ proc' = "died"
    /\ UNCHANGED <<mode, main, handler, hThread, handles, state>>

\* Seeded fault: an event that the first successful wait on it resets.
PollAutoReset ==
    /\ Working("poll", IF stopEvent = "open" /\ ~signaled THEN "body" ELSE "leave")
    /\ signaled' = FALSE
    /\ UNCHANGED <<mode, main, handler, proc, hThread, stopEvent, threadStop, stopped,
                   state>>

\* Seeded fault: only the value of the handle ends the loop.
PollHandleOnly ==
    /\ Working("poll", IF stopEvent = "invalid" THEN "leave" ELSE "body")
    /\ UNCHANGED <<mode, main, handler, proc, hThread, handles, state>>

\* What the loop makes of the stop event: it leaves on INVALID_HANDLE_VALUE,
\* and when a wait on the event with timeout 0 does anything but time out.
\* On a closed handle the wait fails, or meets what the handle was given to.
Verdicts ==
    CASE stopEvent = "open"    -> IF signaled THEN {"leave"} ELSE {"body"}
      [] stopEvent = "closed"  -> {"leave", "body"}
      [] OTHER                 -> {"leave"}

Poll ==
    /\ \E to \in Verdicts : Working("poll", to)
    /\ UNCHANGED <<mode, main, handler, proc, hThread, handles, state>>

\* An iteration of the loop; an exception out of it ends the process.
Body ==
    /\ \/ Working("body", "poll") /\ UNCHANGED proc
       \/ Working("body", "body") /\ proc' = "died"
    /\ UNCHANGED <<mode, main, handler, hThread, handles, state>>

\* SetEvent(g_ServiceThreadStop), if there is a handle in it.
Leave ==
    /\ Working("leave", "done")
    /\ stopped' = (stopped \/ threadStop = "open")
    /\ UNCHANGED <<mode, main, handler, proc, hThread, stopEvent, signaled,
                   threadStop, state>>

WorkerThread == ReadSettings \/ Poll \/ Body \/ Leave

-----------------------------------------------------------------------------
(* The handler, called on a thread of the system.  The service manager     *)
(* sends one control at a time, and only to a service that accepts it;     *)
(* consoles send what the user presses, each on a thread of its own.       *)

Handling(c, from, to) ==
    Up /\ handler[c] = from /\ handler' = [handler EXCEPT ![c] = to]

Accepting ==
    IF mode = "service"
    THEN /\ reported # <<>> /\ reported[Len(reported)] = "RUNNING"
         /\ \A c \in Controls : handler[c] \in {"none", "done"}
    ELSE main # "register"

\* The handler begins, and looks whether there is anything to stop.  When
\* HandlerRoutine declines, the system's own ends the process.
Control(c) ==
    /\ Accepting
    /\ IF mode = "service"
       THEN /\ Handling(c, "none", IF status = "RUNNING" THEN "status" ELSE "done")
            /\ UNCHANGED proc
       ELSE /\ Handling(c, "none", IF stopEvent = "null" THEN "done" ELSE "signal")
            /\ proc' = IF stopEvent = "null" THEN "died" ELSE proc
    /\ UNCHANGED <<mode, main, worker, hThread, handles, state>>

\* Seeded fault: the event is set before the status is reported.
SetStopPendingAndSignal(c) ==
    /\ Handling(c, "status", "report")
    /\ status' = "STOP_PENDING"
    /\ signaled' = (signaled \/ stopEvent = "open")
    /\ UNCHANGED <<mode, main, worker, proc, hThread, stopEvent, threadStop, stopped,
                   reported>>

SetStopPending(c) ==
    /\ Handling(c, "status", "report")
    /\ status' = "STOP_PENDING"
    /\ UNCHANGED <<mode, main, worker, proc, hThread, handles, reported>>

ReportPending(c) ==
    /\ Handling(c, "report", "signal")
    /\ Report(status)
    /\ UNCHANGED <<mode, main, worker, proc, hThread, handles, status>>

\* SetEvent(g_ServiceStopEvent): fails where there is no event.
Signal(c) ==
    /\ Handling(c, "signal", "return")
    /\ signaled' = (signaled \/ stopEvent = "open")
    /\ UNCHANGED <<mode, main, worker, proc, hThread, stopEvent, threadStop, stopped,
                   state>>

\* After a close the system ends the process as soon as the handler returns.
Return(c) ==
    /\ Handling(c, "return", "done")
    /\ proc' = IF mode = "console" /\ KindOf[c] = "close" THEN "died" ELSE proc
    /\ UNCHANGED <<mode, main, worker, hThread, handles, state>>

HandlerThread(c) ==
    SetStopPending(c) \/ ReportPending(c) \/ Signal(c) \/ Return(c)

Next == \/ MainThread \/ WorkerThread
        \/ \E c \in Controls : Control(c) \/ HandlerThread(c)

Spec == Init /\ [][Next]_vars

\* Every thread of the process is scheduled.
FairSpec == /\ Spec
            /\ WF_vars(MainThread) /\ WF_vars(WorkerThread)
            /\ \A c \in Controls : WF_vars(HandlerThread(c))

-----------------------------------------------------------------------------
(* Properties. *)

\* The service manager may be told these, in this order.
Legal == {<<>>, <<"START_PENDING">>, <<"START_PENDING", "STOPPED">>,
          <<"START_PENDING", "RUNNING">>,
          <<"START_PENDING", "RUNNING", "STOP_PENDING">>,
          <<"START_PENDING", "RUNNING", "STOP_PENDING", "STOPPED">>}

(* What the two threads that share g_ServiceStatus report is in order, and *)
(* STOPPED is last, provided the worker thread could be created: the main  *)
(* thread gets to its report only after the handler has made its own.      *)
StatusInOrder == hThread => reported \in Legal

(* In service mode neither the worker nor the handler ever uses the stop   *)
(* event after it was closed; and STOPPED, which is reported later still   *)
(* and lets the manager end the process, finds the worker done.            *)
EventOutlivesUsers ==
    mode = "service" /\ hThread /\ stopEvent # "open"
        => /\ worker = "done"
           /\ \A c \in Controls : handler[c] \notin {"status", "report", "signal"}

(* A stop the service accepted ends with STOPPED, unless the process dies. *)
StopIsAnswered ==
    \A c \in Controls :
        (mode = "service" /\ hThread /\ handler[c] = "status")
            ~> (proc = "died" \/ \E i \in DOMAIN reported : reported[i] = "STOPPED")

(* Ctrl+C ends the program once the stop event exists, whoever else is     *)
(* closing the handles at that time.                                       *)
CtrlCEnds ==
    \A c \in Controls :
        (mode = "console" /\ handler[c] = "signal" /\ stopEvent = "open")
            ~> (proc # "up")
=============================================================================
