------------------------------- MODULE Sender -------------------------------
(***************************************************************************)
(* Sending the reports (sender.cpp, Send of yellow-watcher.cpp): one       *)
(* detached thread and one HTTP session per report, with the timer of      *)
(* beast::tcp_stream, against a server that may refuse, be late or never   *)
(* answer.  The threads use the object `sender` that lives on the stack of *)
(* WorkerThread, which waits for none of them.                             *)
(***************************************************************************)
EXTENDS Naturals

CONSTANT Report   \* the reports, each with the thread that sends it

VARIABLES at,       \* where the session of each report is
          timer,    \* the timer of the stream: "off" or "set"
          host,     \* what the session took for its host
          logged,   \* the errors the session wrote to the log
          wire,     \* requests on their way to the server
          accepted, \* requests the server answered with 200
          answer,   \* the answer on its way back, a response code
          worker,   \* the worker: in its "loop", or "left"
          proc      \* the process: "up", "exited" or "crashed"

network == <<wire, accepted, answer>>
vars == <<at, timer, host, logged, network, worker, proc>>

Init ==
    /\ at = [r \in Report |-> "none"] /\ timer = [r \in Report |-> "off"]
    /\ host = [r \in Report |-> "none"] /\ logged = [r \in Report |-> {}]
    /\ wire = [r \in Report |-> 0] /\ accepted = [r \in Report |-> 0]
    /\ answer = [r \in Report |-> "none"]
    /\ worker = "loop" /\ proc = "up"

Session(r, from, to) ==
    proc = "up" /\ at[r] = from /\ at' = [at EXCEPT ![r] = to]

\* fail: the error is logged, and nothing more is asked of the stream.
Fail(r, what) == logged' = [logged EXCEPT ![r] = @ \cup {what}]

Timer(r, to) == timer' = [timer EXCEPT ![r] = to]

-----------------------------------------------------------------------------
(* The worker. *)

\* The thread gets its own report and the address of `sender`.
Spawn(r) ==
    /\ worker = "loop"
    /\ Session(r, "none", "thread")
    /\ UNCHANGED <<timer, host, logged, network, worker, proc>>

\* A stop ends the loop and with it the block.
LeaveLoop ==
    /\ proc = "up" /\ worker = "loop"
    /\ worker' = "left"
    /\ UNCHANGED <<at, timer, host, logged, network, proc>>

\* The main thread returns after the worker, or five seconds before it.
ExitProcess ==
    /\ proc = "up"
    /\ proc' = "exited"
    /\ UNCHANGED <<at, timer, host, logged, network, worker>>

-----------------------------------------------------------------------------
(* The session. *)

\* Send: the session copies host, port, user and password, and asks for the
\* address.  After the worker left its block these strings are dead: they
\* may still be whole, be something else, or end the process.
Construct(r) ==
    \/ /\ Session(r, "thread", "resolve")
       /\ \E h \in IF worker = "loop" THEN {"right"} ELSE {"right", "wrong"} :
              host' = [host EXCEPT ![r] = h]
       /\ UNCHANGED <<timer, logged, network, worker, proc>>
    \/ /\ worker = "left"
       /\ Session(r, "thread", "done")
       /\ proc' = "crashed"
       /\ UNCHANGED <<timer, host, logged, network, worker>>

\* The resolver has no timer of its own.
OnResolve(r) ==
    \/ /\ Session(r, "resolve", "connect")
       /\ Timer(r, "set")
       /\ UNCHANGED <<host, logged, network, worker, proc>>
    \/ /\ Session(r, "resolve", "done")
       /\ Fail(r, "resolve")
       /\ UNCHANGED <<timer, host, network, worker, proc>>

\* Seeded fault: the timer ends with the connect.
OnConnectTimerOff(r) ==
    \/ /\ Session(r, "connect", "write")
       /\ Timer(r, "off")
       /\ wire' = [wire EXCEPT ![r] = @ + 1]
       /\ UNCHANGED <<host, logged, accepted, answer, worker, proc>>
    \/ /\ Session(r, "connect", "done")
       /\ Fail(r, "connect")
       /\ UNCHANGED <<timer, host, network, worker, proc>>

\* Connected, the request goes out, with the timer set again.
OnConnect(r) ==
    \/ /\ Session(r, "connect", "write")
       /\ Timer(r, "set")
       /\ wire' = [wire EXCEPT ![r] = @ + 1]
       /\ UNCHANGED <<host, logged, accepted, answer, worker, proc>>
    \/ /\ Session(r, "connect", "done")
       /\ Fail(r, "connect")
       /\ UNCHANGED <<timer, host, network, worker, proc>>

\* The same timer goes on for the answer.
OnWrite(r) ==
    \/ /\ Session(r, "write", "read")
       /\ UNCHANGED <<timer, host, logged, network, worker, proc>>
    \/ /\ Session(r, "write", "done")
       /\ Fail(r, "write")
       /\ UNCHANGED <<timer, host, network, worker, proc>>

\* Seeded fault: any answer will do.
OnReadAnyCode(r) ==
    \/ /\ Session(r, "read", "done")
       /\ answer[r] # "none"
       /\ UNCHANGED <<timer, host, logged, network, worker, proc>>
    \/ /\ Session(r, "read", "done")
       /\ Fail(r, "read")
       /\ UNCHANGED <<timer, host, network, worker, proc>>

\* Seeded fault: a request without an answer is sent once more.
OnReadRetry(r) ==
    \/ /\ Session(r, "read", "done")
       /\ answer[r] = "200"
       /\ UNCHANGED <<timer, host, logged, network, worker, proc>>
    \/ /\ Session(r, "read", "resolve")
       /\ wire[r] + accepted[r] < 2
       /\ Fail(r, "read")
       /\ UNCHANGED <<timer, host, network, worker, proc>>

\* An answer: a code other than 200 is logged; so is an error of the
\* shutdown that follows.
OnRead(r) ==
    \/ /\ Session(r, "read", "done")
       /\ answer[r] # "none"
       /\ \E shutdown \in SUBSET {"shutdown"} :
              logged' = [logged EXCEPT ![r] = @ \cup shutdown \cup
                            IF answer[r] = "200" THEN {} ELSE {"response"}]
       /\ UNCHANGED <<timer, host, network, worker, proc>>
    \/ /\ Session(r, "read", "done")
       /\ Fail(r, "read")
       /\ UNCHANGED <<timer, host, network, worker, proc>>

\* The timer closes the socket, and the operation under way fails.
Expire(r) ==
    /\ timer[r] = "set"
    /\ \E op \in {"connect", "write", "read"} :
           Session(r, op, "done") /\ Fail(r, op)
    /\ UNCHANGED <<timer, host, network, worker, proc>>

-----------------------------------------------------------------------------
(* The server: it may handle a request after the session has given up, and *)
(* after the program has ended.                                            *)

Serve(r) ==
    /\ wire[r] > 0
    /\ wire' = [wire EXCEPT ![r] = @ - 1]
    /\ \/ /\ accepted' = [accepted EXCEPT ![r] = @ + IF host[r] = "right" THEN 1 ELSE 0]
          /\ answer' = [answer EXCEPT ![r] = "200"]
       \/ /\ answer' = [answer EXCEPT ![r] = "other"]
          /\ UNCHANGED accepted
    /\ UNCHANGED <<at, timer, host, logged, worker, proc>>

Step(r) == Construct(r) \/ OnResolve(r) \/ Expire(r)

Next ==
    \/ LeaveLoop \/ ExitProcess
    \/ \E r \in Report :
          Spawn(r) \/ Step(r) \/ OnConnect(r) \/ OnWrite(r) \/ OnRead(r) \/ Serve(r)

Spec == Init /\ [][Next]_vars

\* Threads run, the resolver ends, a timer that is set expires.  The server
\* and the network owe nothing.
FairSpec == Spec /\ \A r \in Report : WF_vars(Step(r))

-----------------------------------------------------------------------------
(* Properties. *)

(* A session that ends without a word in the log has delivered its report: *)
(* refusals, errors and timeouts are all logged.                           *)
SilenceMeansAccepted ==
    \A r \in Report :
        at[r] = "done" /\ logged[r] = {} /\ host[r] = "right"
            => accepted[r] > 0

(* The server accepts a report at most once, late answers and sessions     *)
(* that gave up included: nothing is sent again.                           *)
AcceptedAtMostOnce == \A r \in Report : wire[r] + accepted[r] <= 1

(* Every report is also sent while the worker runs on, and the thread that *)
(* sends it ends: a server that accepts connections and never answers does *)
(* not hold the threads.                                                   *)
SessionsEnd ==
    \A r \in Report : at[r] = "thread" ~> (at[r] = "done" \/ proc # "up")
=============================================================================
