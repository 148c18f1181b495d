---------------------------- MODULE SenderProofs ----------------------------
(***************************************************************************)
(* Proofs about Sender, for any number of reports: what the log does not   *)
(* mention was accepted, and nothing is accepted twice.                    *)
(***************************************************************************)
EXTENDS Sender, TLAPS

Errors == {"resolve", "connect", "write", "read", "response", "shutdown"}

TypeOK ==
    /\ at \in [Report -> {"none", "thread", "resolve", "connect", "write", "read", "done"}]
    /\ timer \in [Report -> {"off", "set"}]
    /\ host \in [Report -> {"none", "right", "wrong"}]
    /\ logged \in [Report -> SUBSET Errors]
    /\ wire \in [Report -> Nat] /\ accepted \in [Report -> Nat]
    /\ answer \in [Report -> {"none", "200", "other"}]

\* Before the request is written there is nothing of it anywhere.
NotYetSent(r) ==
    at[r] \in {"none", "thread", "resolve", "connect"}
        => wire[r] = 0 /\ accepted[r] = 0 /\ answer[r] = "none"

\* Only a session that was constructed has a host.
HostKnown(r) == at[r] \in {"none", "thread"} => host[r] = "none"

\* What the right host answers with 200 it has accepted.
AnswerTrue(r) == answer[r] = "200" /\ host[r] = "right" => accepted[r] > 0

Silent(r) ==
    at[r] = "done" /\ logged[r] = {} /\ host[r] = "right" => accepted[r] > 0

SessionInv(r) ==
    /\ NotYetSent(r) /\ HostKnown(r) /\ AnswerTrue(r) /\ Silent(r)
    /\ wire[r] + accepted[r] <= 1

IInv == TypeOK /\ \A r \in Report : SessionInv(r)

-----------------------------------------------------------------------------
(* Nothing is anywhere before a session is made.                           *)
LEMMA Initial == Init => IInv
  BY DEF Init, IInv, TypeOK, SessionInv, NotYetSent, HostKnown, AnswerTrue, Silent, Errors

(* A session whose operation fails, its error logged, ends as it should,   *)
(* and the others are what they were.                                      *)
LEMMA Failing ==
  ASSUME NEW r \in Report, NEW op \in {"resolve", "connect", "write", "read"}, IInv,
         Session(r, op, "done"), Fail(r, op), UNCHANGED <<timer, host, network>>
  PROVE  IInv'
<1>1. /\ at' = [at EXCEPT ![r] = "done"]
      /\ logged' = [logged EXCEPT ![r] = @ \cup {op}]
      /\ at[r] = op
      /\ UNCHANGED <<timer, host, wire, accepted, answer>>
  BY DEF Session, Fail, network
<1>2. logged[r] \cup {op} \in SUBSET Errors /\ logged[r] \cup {op} # {}
  BY DEF IInv, TypeOK, Errors
<1>3. TypeOK'
  BY <1>1, <1>2 DEF IInv, TypeOK
<1>4. ASSUME NEW s \in Report PROVE SessionInv(s)'
  <2>1. CASE s = r
    <3>1. at'[s] = "done" /\ logged'[s] # {}
      BY <1>1, <1>2, <2>1 DEF IInv, TypeOK
    <3> QED
      BY <1>1, <3>1 DEF IInv, SessionInv, NotYetSent, HostKnown, AnswerTrue, Silent
  <2>2. CASE s # r
    <3>1. at'[s] = at[s] /\ logged'[s] = logged[s]
      BY <1>1, <2>2 DEF IInv, TypeOK
    <3> QED
      BY <1>1, <3>1 DEF IInv, SessionInv, NotYetSent, HostKnown, AnswerTrue, Silent
  <2> QED
    BY <2>1, <2>2
<1> QED
  BY <1>3, <1>4 DEF IInv

(* Every action of a session and every answer of the server keeps the      *)
(* invariant: of the session it is about, and of the others.               *)
LEMMA Step_Inv == IInv /\ [Next]_vars => IInv'
<1> SUFFICES ASSUME IInv, [Next]_vars PROVE IInv'
  OBVIOUS
<1> USE DEF IInv, TypeOK, Errors, SessionInv, NotYetSent, HostKnown, AnswerTrue, Silent,
            network, Session, Fail, Timer
<1>1. CASE LeaveLoop
  BY <1>1 DEF LeaveLoop
<1>2. CASE ExitProcess
  BY <1>2 DEF ExitProcess
<1>3. ASSUME NEW r \in Report, Spawn(r) PROVE IInv'
  BY <1>3 DEF Spawn
<1>4. ASSUME NEW r \in Report, Construct(r) PROVE IInv'
  <2>1. ASSUME NEW h \in {"right", "wrong"}, Session(r, "thread", "resolve"),
               host' = [host EXCEPT ![r] = h],
               UNCHANGED <<timer, logged, network, worker, proc>>
        PROVE  IInv'
    BY <2>1
  <2>2. CASE Session(r, "thread", "done")
             /\ UNCHANGED <<timer, host, logged, network, worker>>
    BY <2>2
  <2> QED
    BY <1>4, <2>1, <2>2 DEF Construct
<1>5. ASSUME NEW r \in Report, OnResolve(r) PROVE IInv'
  <2>1. CASE Session(r, "resolve", "connect") /\ Timer(r, "set")
             /\ UNCHANGED <<host, logged, network, worker, proc>>
    BY <2>1
  <2>2. CASE Session(r, "resolve", "done") /\ Fail(r, "resolve")
             /\ UNCHANGED <<timer, host, network, worker, proc>>
    BY <2>2, Failing
  <2> QED
    BY <1>5, <2>1, <2>2 DEF OnResolve
<1>6. ASSUME NEW r \in Report, OnConnect(r) PROVE IInv'
  <2>1. CASE Session(r, "connect", "write") /\ Timer(r, "set")
             /\ wire' = [wire EXCEPT ![r] = @ + 1]
             /\ UNCHANGED <<host, logged, accepted, answer, worker, proc>>
    BY <2>1
  <2>2. CASE Session(r, "connect", "done") /\ Fail(r, "connect")
             /\ UNCHANGED <<timer, host, network, worker, proc>>
    BY <2>2, Failing
  <2> QED
    BY <1>6, <2>1, <2>2 DEF OnConnect
<1>7. ASSUME NEW r \in Report, OnWrite(r) PROVE IInv'
  <2>1. CASE Session(r, "write", "read")
             /\ UNCHANGED <<timer, host, logged, network, worker, proc>>
    BY <2>1
  <2>2. CASE Session(r, "write", "done") /\ Fail(r, "write")
             /\ UNCHANGED <<timer, host, network, worker, proc>>
    BY <2>2, Failing
  <2> QED
    BY <1>7, <2>1, <2>2 DEF OnWrite
<1>8. ASSUME NEW r \in Report, OnRead(r) PROVE IInv'
  <2>1. ASSUME NEW shutdown \in SUBSET {"shutdown"}, Session(r, "read", "done"),
               answer[r] # "none",
               logged' = [logged EXCEPT ![r] = @ \cup shutdown \cup
                              IF answer[r] = "200" THEN {} ELSE {"response"}],
               UNCHANGED <<timer, host, network, worker, proc>>
        PROVE  IInv'
    <3> DEFINE what == shutdown \cup IF answer[r] = "200" THEN {} ELSE {"response"}
    <3>1. /\ logged' = [logged EXCEPT ![r] = @ \cup what]
          /\ logged[r] \cup what \in SUBSET Errors
          /\ logged[r] \cup what = {} => answer[r] = "200"
      BY <2>1
    <3> HIDE DEF what
    <3>2. TypeOK'
      BY <2>1, <3>1
    <3>3. ASSUME NEW s \in Report PROVE SessionInv(s)'
      <4>1. CASE s = r
        BY <2>1, <3>1, <4>1
      <4>2. CASE s # r
        BY <2>1, <3>1, <4>2
      <4> QED
        BY <4>1, <4>2
    <3> QED
      BY <3>2, <3>3
  <2>2. CASE Session(r, "read", "done") /\ Fail(r, "read")
             /\ UNCHANGED <<timer, host, network, worker, proc>>
    BY <2>2, Failing
  <2> QED
    BY <1>8, <2>1, <2>2 DEF OnRead
<1>9. ASSUME NEW r \in Report, Expire(r) PROVE IInv'
  <2>1. PICK op \in {"connect", "write", "read"} :
            Session(r, op, "done") /\ Fail(r, op)
    BY <1>9 DEF Expire
  <2>2. UNCHANGED <<timer, host, network>>
    BY <1>9 DEF Expire
  <2> HIDE DEF IInv, Session, Fail, network
  <2> QED
    BY <2>1, <2>2, Failing
<1>10. ASSUME NEW r \in Report, Serve(r) PROVE IInv'
  BY <1>10 DEF Serve
<1>11. CASE UNCHANGED vars
  BY <1>11 DEF vars
<1> QED
  BY <1>1, <1>2, <1>3, <1>4, <1>5, <1>6, <1>7, <1>8, <1>9, <1>10, <1>11 DEF Next, Step

(* Types and what relates the place of a session to the network.           *)
THEOREM Invariance == Spec => []IInv
  BY Initial, Step_Inv, PTL DEF Spec

(* A session that ends without a word in the log has delivered its report. *)
THEOREM SilenceMeansAcceptedHolds == Spec => []SilenceMeansAccepted
<1>1. IInv => SilenceMeansAccepted
  BY DEF IInv, SessionInv, Silent, SilenceMeansAccepted
<1> QED
  BY <1>1, Invariance, PTL

(* The server accepts a report at most once.                               *)
THEOREM AcceptedAtMostOnceHolds == Spec => []AcceptedAtMostOnce
<1>1. IInv => AcceptedAtMostOnce
  BY DEF IInv, SessionInv, AcceptedAtMostOnce
<1> QED
  BY <1>1, Invariance, PTL
=============================================================================
