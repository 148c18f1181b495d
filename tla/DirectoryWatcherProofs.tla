----------------------- MODULE DirectoryWatcherProofs -----------------------
(***************************************************************************)
(* Proofs about DirectoryWatcher, for any files, hours, periods, failures  *)
(* and crashes: the variables keep their types, no record between two      *)
(* readings is passed over, and no file is overlooked between two readings *)
(* of the directory.                                                       *)
(***************************************************************************)
EXTENDS WatcherHistory, FiniteSetTheorems, TLAPS

\* A file that is watched and not open yet will be read from its beginning;
\* the file at which ReadFiles is, is one of files_.
Fresh ==
    /\ \A f \in watched \ opened : pos[f] = 0
    /\ pc = "check" => current \in watched /\ todo \subseteq watched

IInv == TypeOK /\ Fresh /\ NothingPassedOver

Position == -1 .. Piece * MaxRecords

-----------------------------------------------------------------------------
LEMMA Division ==
  ASSUME NEW n \in Int
  PROVE  n \div 3 \in Int /\ 3 * (n \div 3) <= n /\ n < 3 * (n \div 3) + 3
  OBVIOUS

LEMMA Sequences ==
  ASSUME NEW S, NEW s \in Seq(S), NEW t \in Seq(S)
  PROVE  s \o t \in Seq(S) /\ <<>> \in Seq(S)
  OBVIOUS

LEMMA Positions ==
  ASSUME NEW p \in Position
  PROVE  /\ p \div Piece \in Int /\ p \div Piece <= MaxRecords
         /\ p # -1 => p \div Piece >= 0
  BY BoundAssumption, Division DEF Position, Piece

LEMMA StartInFile ==
  ASSUME NEW s \in 0 .. Piece * MaxRecords
  PROVE  StartPosition(s) \in Position
<1> DEFINE k == (s + 1) \div Piece
<1>1. k \in Nat /\ 3 * k <= s + 1
  BY BoundAssumption, Division DEF Piece
<1> HIDE DEF k
<1>2. CASE k = 0
  BY <1>2, BoundAssumption DEF StartPosition, BeforeBOM, Position, Piece, k
<1>3. CASE k # 0
  <2>1. Piece * (k - 1) \in Position
    BY <1>1, <1>3, BoundAssumption DEF Position, Piece
  <2> QED
    BY <1>3, <2>1 DEF StartPosition, k
<1> QED
  BY <1>2, <1>3

LEMMA RecordsAreEvents ==
  ASSUME NEW f \in File, NEW p \in Position
  PROVE  Records(f, p) \subseteq Event
<1>1. \A k \in 1 .. p \div Piece : k \in 1 .. MaxRecords
  BY Positions, BoundAssumption
<1> QED
  BY <1>1 DEF Records, Event

\* What a reading completes.
LEMMA ParsedRecords ==
  ASSUME NEW f \in File, NEW p \in Position, NEW q \in Position, p # BeforeBOM
  PROVE  /\ Parsed(f, p, q) \in Seq(Event)
         /\ Records(f, q) \subseteq Records(f, p)
              \cup {Parsed(f, p, q)[i] : i \in DOMAIN Parsed(f, p, q)}
<1> DEFINE a == p \div Piece
           b == q \div Piece
           s == [i \in 1 .. b - a |-> <<f, a + i>>]
<1>1. a \in Nat /\ b \in Int /\ b <= MaxRecords
  BY Positions DEF BeforeBOM
<1>2. s = Parsed(f, p, q)
  BY DEF Parsed
<1> HIDE DEF a, b
<1>3. \A i \in 1 .. b - a : <<f, a + i>> \in Event
  BY <1>1, BoundAssumption DEF Event
<1>4. s \in Seq(Event)
  <2>1. CASE b - a \in Nat
    BY <1>3, <2>1
  <2>2. CASE b - a < 0
    <3>1. 1 .. b - a = 1 .. 0
      BY <1>1, <2>2
    <3>2. s = [i \in 1 .. 0 |-> <<f, a + i>>]
      BY <3>1
    <3>3. \A i \in 1 .. 0 : <<f, a + i>> \in Event
      OBVIOUS
    <3> HIDE DEF s
    <3> QED
      BY <3>2, <3>3
  <2> QED
    BY <1>1, <2>1, <2>2
<1>5. ASSUME NEW k \in 1 .. b PROVE k \in 1 .. a \/ \E i \in DOMAIN s : s[i] = <<f, k>>
  <2>1. CASE k > a
    <3>1. k - a \in 1 .. b - a /\ a + (k - a) = k
      BY <1>1, <2>1
    <3> QED
      BY <3>1
  <2> QED
    BY <1>1, <2>1
<1>6. Records(f, q) = {<<f, k>> : k \in 1 .. b} /\ Records(f, p) = {<<f, k>> : k \in 1 .. a}
  BY DEF Records, a, b
<1> HIDE DEF s
<1>7. \A e \in Records(f, q) : e \in Records(f, p) \/ \E i \in DOMAIN s : s[i] = e
  BY <1>5, <1>6
<1> QED
  BY <1>2, <1>4, <1>7

(* The watcher starts down, with no file.                                  *)
LEMMA Initial == Init => IInv
<1> SUFFICES ASSUME Init PROVE IInv
  OBVIOUS
<1>1. -1 \in Position /\ 0 \in Position
  BY BoundAssumption DEF Position, Piece
<1>2. /\ size \in [File -> Position] /\ onTime \in [File -> Position]
      /\ pos \in [File -> Position] /\ Exists = {}
  BY <1>1 DEF Init, Exists
<1>4. TypeOK
  <2>1. <<>> \in Seq(Event)
    OBVIOUS
  <2>2. /\ now = 0 /\ pc = "down" /\ starting = FALSE /\ curTime = 0 /\ lastRead = 0
        /\ todo = {} /\ current = "none" /\ failures = 0 /\ crashes = 0
        /\ watched = {} /\ opened = {} /\ stale = {}
        /\ events = <<>> /\ delivered = <<>> /\ skipped = {}
    BY DEF Init
  <2> QED
    BY <1>2, <2>1, <2>2 DEF TypeOK, Position
<1>3. Fresh /\ NothingPassedOver
  BY DEF Init, Fresh, NothingPassedOver
<1> QED
  BY <1>3, <1>4 DEF IInv

-----------------------------------------------------------------------------
(* Types and Fresh, action by action.                                      *)
LEMMA TypeStep == TypeOK /\ Fresh /\ [Next]_vars => TypeOK' /\ Fresh'
<1> SUFFICES ASSUME TypeOK, Fresh, [Next]_vars PROVE TypeOK' /\ Fresh'
  OBVIOUS
<1> USE DEF TypeOK, Fresh, Exists, envVars, loopVars, fileVars, dataVars
<1>1. CASE Tick
  BY <1>1 DEF Tick
<1>2. ASSUME NEW f \in File, Write(f) PROVE TypeOK' /\ Fresh'
  <2>1. size[f] + 1 \in -1 .. Piece * MaxRecords
    BY <1>2, BoundAssumption DEF Write, Piece
  <2> QED
    BY <1>2, <2>1 DEF Write
<1>3. ASSUME Die, UNCHANGED envVars, failures' \in Nat, crashes' \in Nat
      PROVE  TypeOK' /\ Fresh'
  <2>1. InMemory \subseteq Event
    BY DEF InMemory
  <2>2. skipped' \subseteq Event /\ events' \in Seq(Event)
    BY <1>3, <2>1 DEF Die
  <2>3. TypeOK'
    BY <1>3, <2>2 DEF Die
  <2>4. Fresh'
    BY <1>3 DEF Die
  <2> QED
    BY <2>3, <2>4
<1>4. CASE Crash
  <2>1. Die /\ UNCHANGED envVars /\ failures' \in Nat /\ crashes' \in Nat
    BY <1>4 DEF Crash
  <2> QED
    BY ONLY <1>3, <2>1
<1>5. CASE Start
  BY <1>5 DEF Start, BeginScan
<1>6. ASSUME NEW anyway \in BOOLEAN, ExecuteStep(anyway) PROVE TypeOK' /\ Fresh'
  BY <1>6 DEF ExecuteStep, BeginScan, BeginRead
<1>7. ASSUME NEW f \in File, AddFile(f) PROVE TypeOK' /\ Fresh'
  <2>1. 0 \in -1 .. Piece * MaxRecords
    BY BoundAssumption DEF Piece
  <2>2. pos' \in [File -> -1 .. Piece * MaxRecords]
    BY <1>7, <2>1 DEF AddFile
  <2>3. failures' \in Nat
    BY <1>7 DEF AddFile, Opening
  <2>4. watched' \subseteq watched \cup {f} /\ watched \subseteq watched' /\ f \in Exists
    BY <1>7 DEF AddFile
  <2>5. \A g \in watched' \ opened : pos'[g] = 0
    BY <1>7 DEF AddFile
  <2> QED
    BY <1>7, <2>2, <2>3, <2>4, <2>5 DEF AddFile
<1>8. CASE EndScan
  BY <1>8 DEF EndScan, BeginRead
<1>9. ASSUME NEW f \in File, Seek(f) PROVE TypeOK' /\ Fresh'
  <2>1. size[f] \in 0 .. Piece * MaxRecords
    BY <1>9 DEF Seek
  <2>2. StartPosition(size[f]) \in Position
    BY <2>1, StartInFile
  <2>3. Records(f, StartPosition(size[f])) \subseteq Event
    BY <2>2, RecordsAreEvents
  <2>4. pos' \in [File -> -1 .. Piece * MaxRecords] /\ skipped' \subseteq Event
    BY <1>9, <2>2, <2>3 DEF Seek, Position
  <2>5. failures' \in Nat /\ opened' \subseteq watched
    BY <1>9 DEF Seek, Opening
  <2>6. \A g \in watched \ opened' : pos'[g] = 0
    BY <1>9 DEF Seek
  <2> QED
    BY <1>9, <2>4, <2>5, <2>6 DEF Seek
<1>10. CASE EndSeek
  BY <1>10 DEF EndSeek, BeginRead
<1>11. ASSUME NEW f \in File, ReadFile(f) PROVE TypeOK' /\ Fresh'
  <2>1. f \in watched /\ size[f] \in Position /\ pos[f] \in Position
    BY <1>11 DEF ReadFile, Position
  <2>2. pos[f] # BeforeBOM => Parsed(f, pos[f], size[f]) \in Seq(Event)
    <3> HIDE DEF TypeOK, Fresh, Exists
    <3> QED
      BY <2>1, ParsedRecords
  <2>3. events' \in Seq(Event)
    <3>1. \/ events' = events
          \/ /\ pos[f] # BeforeBOM
             /\ events' = events \o Parsed(f, pos[f], size[f])
      <4> HIDE DEF TypeOK, Fresh, Exists
      <4> QED
        BY <1>11 DEF ReadFile
    <3>2. events \in Seq(Event)
      OBVIOUS
    <3> HIDE DEF TypeOK, Fresh, Exists
    <3> QED
      BY <2>2, <3>1, <3>2, Sequences
  <2>4. pos' \in [File -> -1 .. Piece * MaxRecords] /\ failures' \in Nat
    BY <1>11 DEF ReadFile, Opening
  <2>5. /\ opened' \subseteq watched /\ todo' \subseteq watched
        /\ current' \in watched
        /\ \A g \in watched \ opened' : pos'[g] = 0
    BY <1>11, <2>1 DEF ReadFile
  <2> QED
    BY <1>11, <2>3, <2>4, <2>5 DEF ReadFile
<1>12. ASSUME NEW f \in File, ReadBOM(f) PROVE TypeOK' /\ Fresh'
  BY <1>3, <1>12 DEF ReadBOM
<1>13. CASE CheckFile
  BY <1>13 DEF CheckFile, Opening
<1>14. CASE EndRead
  <2>1. InMemory \subseteq Event
    BY DEF InMemory
  <2>2. events' \in Seq(Event) /\ pc' \in {"idle", "ready"}
    <3>1. (events' = events \/ events' = <<>>) /\ pc' \in {"idle", "ready"}
      <4> HIDE DEF TypeOK, Fresh, Exists
      <4> QED
        BY <1>14 DEF EndRead
    <3>2. events \in Seq(Event)
      OBVIOUS
    <3> HIDE DEF TypeOK, Fresh, Exists
    <3> QED
      BY <3>1, <3>2, Sequences
  <2>3. skipped' \subseteq Event
    BY <1>14, <2>1 DEF EndRead
  <2> QED
    BY <1>14, <2>2, <2>3 DEF EndRead
<1>15. CASE ClearEvents
  BY <1>15 DEF ClearEvents
<1>16. CASE UNCHANGED vars
  BY <1>16 DEF vars
<1> QED
  BY <1>1, <1>2, <1>4, <1>5, <1>6, <1>7, <1>8, <1>9, <1>10, <1>11, <1>12, <1>13,
     <1>14, <1>15, <1>16
  DEF Next, Watcher

(* Every variable keeps its type; only files in files_ are open, awaiting  *)
(* deletion or visited.                                                    *)
THEOREM TypeCorrect == Spec => []TypeOK
<1>1. Init => TypeOK /\ Fresh
  BY Initial DEF IInv
<1> QED
  BY <1>1, TypeStep, PTL DEF Spec

-----------------------------------------------------------------------------
(* What has been read, or given up, stays so.                              *)
Seen == Delivered \cup InMemory \cup skipped

LEMMA Kept ==
  ASSUME NothingPassedOver, Seen \subseteq Seen', opened' \subseteq opened,
         \A f \in opened' : pos'[f] = pos[f]
  PROVE  NothingPassedOver'
  BY DEF NothingPassedOver, Seen, Records

(* A step of a file whose other files stay as they are.                    *)
LEMMA OneFile ==
  ASSUME NothingPassedOver, Seen \subseteq Seen', NEW f, opened' \subseteq opened \cup {f},
         \A g \in opened' \ {f} : pos'[g] = pos[g],
         Records(f, pos'[f]) \subseteq Seen'
  PROVE  NothingPassedOver'
<1>1. \A g \in opened' \ {f} : Records(g, pos'[g]) \subseteq Seen'
  BY DEF NothingPassedOver, Seen
<1> QED
  BY <1>1 DEF NothingPassedOver, Seen

(* Between two readings of a file no record is passed over.                *)
LEMMA PassedStep == IInv /\ [Next]_vars => NothingPassedOver'
<1> SUFFICES ASSUME IInv, [Next]_vars PROVE NothingPassedOver'
  OBVIOUS
<1> USE DEF IInv, envVars, loopVars, fileVars, dataVars
<1>1. ASSUME UNCHANGED <<opened, pos, dataVars>> PROVE NothingPassedOver'
  BY <1>1, Kept DEF Seen, InMemory, Delivered
<1>2. Tick \/ EndScan \/ EndSeek \/ CheckFile \/ Start
        \/ (\E f \in File : Write(f)) \/ (\E anyway \in BOOLEAN : ExecuteStep(anyway))
        \/ UNCHANGED vars
      => UNCHANGED <<opened, pos, dataVars>>
  BY DEF Tick, EndScan, EndSeek, CheckFile, Start, Write, ExecuteStep, vars
<1>3. Die => NothingPassedOver'
  BY DEF Die, NothingPassedOver
<1>4. Crash => NothingPassedOver'
  BY <1>3 DEF Crash
<1>10. ASSUME NEW f \in File, ReadBOM(f) PROVE NothingPassedOver'
  BY <1>3, <1>10 DEF ReadBOM
<1>5. ASSUME NEW f \in File, AddFile(f) PROVE NothingPassedOver'
  <2>1. opened' = opened /\ UNCHANGED <<events, delivered, skipped>>
    BY <1>5 DEF AddFile
  <2>3. \/ pos' = pos
        \/ f \notin watched /\ pos' = [pos EXCEPT ![f] = 0]
    BY <1>5 DEF AddFile
  <2>2. \A g \in opened : pos'[g] = pos[g]
    <3>1. opened \subseteq watched /\ watched \subseteq File /\ pos \in [File -> Position]
      BY DEF TypeOK, Exists, Position
    <3> QED
      BY <2>3, <3>1
  <2> QED
    BY <2>1, <2>2, Kept DEF Seen, InMemory, Delivered
<1>6. ASSUME NEW f \in File, Seek(f) PROVE NothingPassedOver'
  <2>1. CASE UNCHANGED <<opened, pos, skipped>>
    BY <1>1, <1>6, <2>1 DEF Seek
  <2>2. CASE /\ opened' = opened \cup {f}
             /\ pos' = [pos EXCEPT ![f] = StartPosition(size[f])]
             /\ skipped' = skipped \cup (Records(f, pos'[f]) \ Delivered)
    <3>1. UNCHANGED <<events, delivered>>
      BY <1>6 DEF Seek
    <3>2. Seen \subseteq Seen' /\ Records(f, pos'[f]) \subseteq Seen'
      BY <2>2, <3>1 DEF Seen, InMemory, Delivered
    <3>3. \A g \in opened' \ {f} : pos'[g] = pos[g]
      BY <2>2 DEF TypeOK
    <3> QED
      BY <2>2, <3>2, <3>3, OneFile
  <2> QED
    BY <1>6, <2>1, <2>2 DEF Seek
<1>7. ASSUME NEW f \in File, ReadFile(f) PROVE NothingPassedOver'
  <2>1. CASE UNCHANGED <<opened, pos, events>>
    BY <1>1, <1>7, <2>1 DEF ReadFile
  <2>2. CASE /\ pos[f] # BeforeBOM
             /\ opened' = opened \cup {f}
             /\ pos' = [pos EXCEPT ![f] = size[f]]
             /\ events' = events \o Parsed(f, pos[f], size[f])
    <3> DEFINE s == Parsed(f, pos[f], size[f])
    <3>1. /\ s \in Seq(Event) /\ pos'[f] = size[f]
          /\ Records(f, size[f]) \subseteq Records(f, pos[f]) \cup {s[i] : i \in DOMAIN s}
      BY <2>2, ParsedRecords DEF TypeOK, Position
    <3>2. events \in Seq(Event) /\ events' = events \o s
      BY <2>2 DEF TypeOK
    <3> HIDE DEF s
    <3>3. /\ \A i \in DOMAIN events : i \in DOMAIN events' /\ events'[i] = events[i]
          /\ \A i \in DOMAIN s : Len(events) + i \in DOMAIN events'
                                 /\ events'[Len(events) + i] = s[i]
      BY <3>1, <3>2
    <3>4. InMemory \subseteq InMemory' /\ {s[i] : i \in DOMAIN s} \subseteq InMemory'
      BY <3>3 DEF InMemory
    <3>5. UNCHANGED <<delivered, skipped>>
      BY <1>7 DEF ReadFile
    <3>6. Seen \subseteq Seen'
      BY <3>4, <3>5 DEF Seen, Delivered
    <3>7. Records(f, pos[f]) \subseteq Seen
      <4>1. CASE f \in opened
        BY <4>1 DEF NothingPassedOver, Seen
      <4>2. CASE f \notin opened
        <5>1. pos[f] = 0
          BY <1>7, <4>2 DEF ReadFile, Fresh, TypeOK
        <5>2. pos[f] \div Piece = 0
          BY <5>1, Division DEF Piece
        <5> QED
          BY <5>2 DEF Records
      <4> QED
        BY <4>1, <4>2
    <3>8. Records(f, pos'[f]) \subseteq Seen'
      BY <3>1, <3>4, <3>6, <3>7 DEF Seen
    <3>9. \A g \in opened' \ {f} : pos'[g] = pos[g]
      BY <2>2 DEF TypeOK
    <3> QED
      BY <2>2, <3>6, <3>8, <3>9, OneFile
  <2> QED
    BY <1>7, <2>1, <2>2 DEF ReadFile
<1>8. CASE EndRead
  <2>1. Seen \subseteq Seen'
    <3>1. CASE UNCHANGED <<events, skipped>>
      BY <1>8, <3>1 DEF EndRead, Seen, InMemory, Delivered
    <3>2. CASE skipped' = skipped \cup (InMemory \ Delivered)
      BY <1>8, <3>2 DEF EndRead, Seen, Delivered
    <3> QED
      BY <1>8, <3>1, <3>2 DEF EndRead
  <2>2. opened' \subseteq opened /\ pos' = pos
    BY <1>8 DEF EndRead
  <2> QED
    BY <2>1, <2>2, Kept
<1>9. CASE ClearEvents
  <2>1. /\ delivered \in Seq(Event) /\ events \in Seq(Event)
        /\ delivered' = delivered \o events
    BY <1>9 DEF ClearEvents, TypeOK
  <2>2. /\ \A i \in DOMAIN delivered : i \in DOMAIN delivered'
                                       /\ delivered'[i] = delivered[i]
        /\ \A i \in DOMAIN events : Len(delivered) + i \in DOMAIN delivered'
                                    /\ delivered'[Len(delivered) + i] = events[i]
    BY <2>1
  <2>3. Delivered \cup InMemory \subseteq Delivered'
    BY <2>2 DEF Delivered, InMemory
  <2>4. Seen \subseteq Seen' /\ opened' \subseteq opened /\ pos' = pos
    BY <1>9, <2>3 DEF ClearEvents, Seen
  <2> QED
    BY <2>4, Kept
<1> QED
  BY <1>1, <1>2, <1>4, <1>5, <1>6, <1>7, <1>8, <1>9, <1>10
  DEF Next, Watcher

(* Nothing is passed over: a record before the reader's position was       *)
(* delivered, is about to be, or was given up with a start or a process.   *)
THEOREM NothingPassedOverHolds == Spec => []NothingPassedOver
<1>1. IInv /\ [Next]_vars => IInv'
  BY TypeStep, PassedStep DEF IInv
<1>2. IInv => NothingPassedOver
  BY DEF IInv
<1> QED
  BY <1>1, <1>2, Initial, PTL DEF Spec

-----------------------------------------------------------------------------
(* Letting a file go. *)

\* What was written to f in time was read, if its hour was over when the
\* reading began: no write after that is in time.
Done(f) == curTime > Closes(f) => onTime[f] <= pos[f]

LetGoInv ==
    /\ TypeOK /\ Fresh
    /\ curTime <= now
    /\ \A f \in File : onTime[f] <= size[f]
    /\ \A f \in watched : size[f] > 0
    /\ pc \notin {"read", "check"} => stale = {}
    /\ failures = 0 =>
         /\ pc = "check" => Done(current)
         /\ \A f \in stale : curTime > Closes(f) /\ Done(f)

LEMMA Clocks == \A f \in File : Closes(f) \in Nat
<1>1. \A a, b \in Nat : a * b \in Nat
  BY SMT
<1> QED
  BY <1>1, FileAssumption, TimeAssumption DEF Closes

(* A write comes in time only before the hour is over.                     *)
LEMMA WriteLetGo ==
  ASSUME LetGoInv, NEW f \in File, Write(f)
  PROVE  LetGoInv'
<1>1. TypeOK' /\ Fresh'
  BY TypeStep DEF LetGoInv, Next
<1>2. /\ size' = [size EXCEPT ![f] = @ + 1]
      /\ UNCHANGED <<now, pc, current, curTime, watched, pos, stale, failures>>
  BY DEF Write, loopVars, fileVars
<1>3. /\ now \in Nat /\ curTime \in Nat /\ current \in File \cup {"none"}
      /\ watched \subseteq File /\ stale \subseteq watched
      /\ \A g \in File : size[g] \in Int /\ onTime[g] \in Int
      /\ size \in [File -> Position] /\ onTime \in [File -> Position]
      /\ (pc = "check" => current \in File)
  BY DEF LetGoInv, TypeOK, Fresh, Exists, Position
<1>4. \A g \in File : curTime > Closes(g) => onTime'[g] = onTime[g]
  <2>1. ASSUME NEW g \in File, curTime > Closes(g) PROVE onTime'[g] = onTime[g]
    <3>1. ~(now <= Closes(g))
      BY <1>3, <2>1, Clocks DEF LetGoInv
    <3> QED
      BY <1>3, <3>1 DEF Write
  <2> QED
    BY <2>1
<1>5. \A g \in File : onTime'[g] <= size'[g] /\ size'[g] >= size[g]
  <2>1. ASSUME NEW g \in File PROVE onTime'[g] <= size'[g] /\ size'[g] >= size[g]
    <3>1. CASE g = f
      BY <1>2, <1>3, <2>1, <3>1 DEF Write, LetGoInv
    <3>2. CASE g # f
      BY <1>2, <1>3, <2>1, <3>2 DEF Write, LetGoInv
    <3> QED
      BY <3>1, <3>2
  <2> QED
    BY <2>1
<1>6. \A g \in watched' : size'[g] > 0
  BY <1>1, <1>2, <1>3, <1>5 DEF LetGoInv, TypeOK
<1>7. \A g \in File : Done(g) => Done(g)'
  BY <1>2, <1>4 DEF Done, Closes
<1>8. \A g \in File : Closes(g)' = Closes(g)
  BY DEF Closes
<1>9. failures' = 0 => /\ pc' = "check" => Done(current)'
                       /\ \A g \in stale' : curTime' > Closes(g)' /\ Done(g)'
  <2>1. ASSUME failures = 0, pc = "check" PROVE Done(current)'
    BY <1>2, <1>3, <1>7, <2>1 DEF LetGoInv, Done, Closes
  <2>2. ASSUME failures = 0, NEW g \in stale PROVE curTime > Closes(g) /\ Done(g)'
    BY <1>3, <1>7, <2>2 DEF LetGoInv
  <2> QED
    BY <1>2, <1>8, <2>1, <2>2
<1> QED
  BY <1>1, <1>2, <1>5, <1>6, <1>9 DEF LetGoInv

(* A reading takes all that is in the file.                                *)
LEMMA ReadLetGo ==
  ASSUME LetGoInv, NEW f \in File, ReadFile(f)
  PROVE  LetGoInv'
<1>1. TypeOK' /\ Fresh'
  BY TypeStep DEF LetGoInv, Next, Watcher
<1>2. /\ UNCHANGED <<now, size, onTime, curTime, watched, stale>>
      /\ pc' = "check" /\ current' = f
  BY DEF ReadFile, envVars
<1>3. failures' = 0 => failures = 0 /\ pos' = [pos EXCEPT ![f] = size[f]]
  BY DEF ReadFile, Opening, LetGoInv, TypeOK
<1>4. \A g \in File : onTime[g] <= size[g]
  BY DEF LetGoInv
<1>5. stale \subseteq File /\ pos \in [File -> Position]
  BY DEF LetGoInv, TypeOK, Exists, Position
<1>6. ASSUME failures' = 0 PROVE \A g \in File : g = f \/ Done(g) => Done(g)'
  BY <1>2, <1>3, <1>4, <1>5, <1>6 DEF Done, Closes
<1>7. failures' = 0 => /\ pc' = "check" => Done(current)'
                       /\ \A g \in stale' : curTime' > Closes(g)' /\ Done(g)'
  <2>1. ASSUME failures' = 0 PROVE Done(f)'
    BY <1>6, <2>1
  <2>2. Done(current)' <=> Done(f)'
    BY <1>2 DEF Done, Closes
  <2>3. ASSUME failures' = 0, NEW g \in stale PROVE curTime' > Closes(g)' /\ Done(g)'
    BY <1>2, <1>3, <1>5, <1>6, <2>3 DEF LetGoInv, Closes
  <2> QED
    BY <1>2, <2>1, <2>2, <2>3
<1> QED
  BY <1>1, <1>2, <1>7 DEF LetGoInv

(* A file that is found closed was read after its close.                   *)
LEMMA CheckLetGo ==
  ASSUME LetGoInv, CheckFile
  PROVE  LetGoInv'
<1>1. TypeOK' /\ Fresh'
  BY TypeStep DEF LetGoInv, Next, Watcher
<1>2. /\ UNCHANGED <<now, size, onTime, curTime, watched, pos, current>>
      /\ pc = "check" /\ pc' = "read"
  BY DEF CheckFile, envVars
<1>3. current \in File /\ size[current] > 0 /\ curTime \in Nat
  BY <1>2 DEF LetGoInv, Fresh, TypeOK, Exists
<1>4. failures' = 0 =>
         /\ failures = 0
         /\ stale' = stale \/ (stale' = stale \cup {current} /\ curTime > Closes(current))
  BY <1>3, Clocks DEF CheckFile, Opening, IsWorkingFile, LetGoInv, TypeOK
<1>5. \A g : Done(g)' <=> Done(g)
  BY <1>2 DEF Done, Closes
<1>6. ASSUME failures' = 0, NEW g \in stale' PROVE curTime > Closes(g) /\ Done(g)
  BY <1>2, <1>4, <1>6 DEF LetGoInv
<1> QED
  BY <1>1, <1>2, <1>5, <1>6 DEF LetGoInv, Closes

(* Every other step leaves no file awaiting deletion, or changes nothing   *)
(* that matters to one.                                                    *)
LEMMA LetGoStep == LetGoInv /\ [Next]_vars => LetGoInv'
<1> SUFFICES ASSUME LetGoInv, [Next]_vars PROVE LetGoInv'
  OBVIOUS
<1> USE DEF envVars, loopVars, fileVars, dataVars
<1>1. TypeOK' /\ Fresh'
  BY TypeStep DEF LetGoInv
<1>2. now \in Nat /\ curTime \in Nat /\ watched \subseteq File /\ stale \subseteq watched
  BY DEF LetGoInv, TypeOK, Exists
<1>3. ASSUME UNCHANGED <<now, size, onTime>>, stale' = {}, pc' # "check",
             curTime' \in {curTime, now}, \A f \in watched' : size[f] > 0
      PROVE  LetGoInv'
  BY <1>1, <1>2, <1>3 DEF LetGoInv
<1>4. CASE Tick \/ UNCHANGED vars
  BY <1>1, <1>2, <1>4 DEF Tick, vars, LetGoInv, Done, Closes
<1>5. CASE Crash
  BY <1>3, <1>5 DEF Crash, Die, LetGoInv
<1>6. ASSUME NEW f \in File, ReadBOM(f) PROVE LetGoInv'
  BY <1>3, <1>6 DEF ReadBOM, Die, LetGoInv
<1>7. CASE Start
  BY <1>3, <1>7 DEF Start, BeginScan, LetGoInv
<1>8. ASSUME NEW anyway \in BOOLEAN, ExecuteStep(anyway) PROVE LetGoInv'
  BY <1>3, <1>8 DEF ExecuteStep, BeginScan, BeginRead, LetGoInv
<1>9. ASSUME NEW f \in File, AddFile(f) PROVE LetGoInv'
  <2>1. \A g \in watched' : g \in watched \/ size[g] > 0
    BY <1>9 DEF AddFile, IsWorkingFile
  <2> QED
    BY <1>3, <1>9, <2>1 DEF AddFile, LetGoInv
<1>10. CASE EndScan
  BY <1>3, <1>10 DEF EndScan, BeginRead, LetGoInv
<1>11. ASSUME NEW f \in File, Seek(f) PROVE LetGoInv'
  BY <1>3, <1>11 DEF Seek, LetGoInv
<1>12. CASE EndSeek
  BY <1>3, <1>12 DEF EndSeek, BeginRead, LetGoInv
<1>13. CASE EndRead
  BY <1>3, <1>13 DEF EndRead, LetGoInv
<1>14. CASE ClearEvents
  BY <1>3, <1>14 DEF ClearEvents, LetGoInv
<1> QED
  BY <1>4, <1>5, <1>6, <1>7, <1>8, <1>9, <1>10, <1>11, <1>12, <1>13, <1>14,
     WriteLetGo, ReadLetGo, CheckLetGo
  DEF Next, Watcher

(* A file is let go only when all that was written to it in time was read, *)
(* for any files, hours, periods and crashes, if every open succeeds.      *)
THEOREM LetGoWhenDoneHolds == Spec => LetGoWhenDone
<1>1. Init => LetGoInv
  BY Initial, BoundAssumption DEF IInv, Init, LetGoInv
<1>2. LetGoInv /\ [Next]_vars
        => [\A f \in watched \ watched' :
               pc' # "down" /\ failures = 0 => onTime[f] <= pos[f]]_vars
  <2> SUFFICES ASSUME LetGoInv, Next, pc' # "down", failures = 0,
                      NEW f \in watched \ watched'
               PROVE  onTime[f] <= pos[f]
    OBVIOUS
  <2> USE DEF envVars, loopVars, fileVars, dataVars
  <2>1. EndRead
    <3>1. ~Crash /\ \A g \in File : ~ReadBOM(g)
      BY DEF Crash, ReadBOM, Die
    <3>2. ~(Tick \/ Start \/ EndScan \/ EndSeek \/ CheckFile \/ ClearEvents)
      BY DEF Tick, Start, EndScan, EndSeek, CheckFile, ClearEvents
    <3>3. \A g \in File : ~(AddFile(g) \/ Seek(g) \/ ReadFile(g) \/ Write(g))
      BY DEF AddFile, Seek, ReadFile, Write
    <3>4. \A anyway \in BOOLEAN : ~ExecuteStep(anyway)
      BY DEF ExecuteStep
    <3> QED
      BY <3>1, <3>2, <3>3, <3>4 DEF Next, Watcher
  <2>2. f \in stale
    BY <2>1 DEF EndRead
  <2> QED
    BY <2>2 DEF LetGoInv, Done
<1> QED
  BY <1>1, <1>2, LetGoStep, PTL DEF Spec, LetGoWhenDone

-----------------------------------------------------------------------------
(* No file is overlooked for longer than the period. *)

\* Whether f had content before time t.
Old(f, t) == size[f] > 0 /\ since[f] < t

Noticed(f) == f \in watched \ stale \/ now > Closes(f)

\* A reading of the directory has found what had content when it began, and
\* is finding it while it lasts.
FoundInv ==
    /\ LetGoInv
    /\ since \in [File -> Nat]
    /\ lastRead <= now
    /\ failures = 0 =>
         /\ pc = "scan" => \A f \in File : Old(f, curTime) => f \in todo \/ Noticed(f)
         /\ pc \notin {"down", "scan"} => \A f \in File : Old(f, lastRead) => Noticed(f)

HistoryStep == [HistoryNext]_<<vars, since>>

(* A file that gets its first piece is not old.                            *)
LEMMA OldBefore ==
  ASSUME FoundInv, HistoryStep, NEW f \in File, NEW t \in Nat, t <= now
  PROVE  size'[f] > 0 /\ since'[f] < t => Old(f, t)
<1>1. TypeOK /\ TypeOK'
  BY LetGoStep DEF FoundInv, LetGoInv, HistoryStep, HistoryNext, vars
<1>2. size[f] \in Int /\ size'[f] \in Int /\ since[f] \in Nat /\ now \in Nat
  BY <1>1 DEF TypeOK, FoundInv
<1>3. CASE HistoryNext
  <2>1. since'[f] = IF size[f] < 1 /\ size'[f] >= 1 THEN now ELSE since[f]
    BY <1>3 DEF HistoryNext
  <2> QED
    BY <1>2, <2>1 DEF Old
<1>4. CASE UNCHANGED <<vars, since>>
  BY <1>4 DEF vars, envVars, Old
<1> QED
  BY <1>3, <1>4 DEF HistoryStep

LEMMA FoundStep == FoundInv /\ HistoryStep => FoundInv'
<1> SUFFICES ASSUME FoundInv, HistoryStep PROVE FoundInv'
  OBVIOUS
<1>1. LetGoInv' /\ [Next]_vars
  BY LetGoStep DEF FoundInv, HistoryStep, HistoryNext
<1>2. TypeOK /\ TypeOK' /\ curTime <= now /\ lastRead <= now
  BY <1>1 DEF FoundInv, LetGoInv
<1>3. /\ now \in Nat /\ now' \in Nat /\ curTime \in Nat /\ lastRead \in Nat
      /\ failures \in Nat /\ watched \subseteq File /\ stale \subseteq watched
      /\ \A f \in File : size[f] \in Int /\ Closes(f) \in Nat
  <2>1. now \in Nat /\ curTime \in Nat /\ lastRead \in Nat /\ failures \in Nat
    BY <1>2 DEF TypeOK
  <2>2. now' \in Nat
    BY <1>2 DEF TypeOK
  <2>3. watched \subseteq File /\ stale \subseteq watched
    BY <1>2 DEF TypeOK, Exists
  <2>4. \A f \in File : size[f] \in Int
    BY <1>2 DEF TypeOK
  <2> QED
    BY <2>1, <2>2, <2>3, <2>4, Clocks
<1>4. since' \in [File -> Nat]
  <2>1. since \in [File -> Nat]
    BY DEF FoundInv
  <2>2. CASE HistoryNext
    <3> DEFINE moment(f) == IF size[f] < 1 /\ size'[f] >= 1 THEN now ELSE since[f]
    <3>1. since' = [f \in File |-> moment(f)]
      BY <2>2 DEF HistoryNext
    <3>2. \A f \in File : moment(f) \in Nat
      BY <1>3, <2>1
    <3> HIDE DEF moment
    <3> QED
      BY <3>1, <3>2
  <2>3. CASE UNCHANGED <<vars, since>>
    BY <2>1, <2>3
  <2> QED
    BY <2>2, <2>3 DEF HistoryStep
<1> USE DEF envVars, loopVars, fileVars, dataVars
\* What the steps make of the last two conjuncts.
<1> DEFINE Part == failures = 0 =>
         /\ pc = "scan" => \A f \in File : Old(f, curTime) => f \in todo \/ Noticed(f)
         /\ pc \notin {"down", "scan"} => \A f \in File : Old(f, lastRead) => Noticed(f)
<1>5. Part
  BY DEF FoundInv
<1>6. now <= now'
  <2>1. now' = now \/ now' = now + 1
    BY <1>1 DEF Next, Watcher, vars, Tick, Crash, Start, EndScan, EndSeek, CheckFile,
       EndRead, ClearEvents, AddFile, Seek, ReadFile, ReadBOM, ExecuteStep, Write
  <2> QED
    BY <1>3, <2>1
<1>7. \A f \in File, t \in Nat : t <= now /\ Old(f, t)' => Old(f, t)
  BY OldBefore DEF Old
<1>8. \A f \in File : /\ watched \ stale \subseteq watched' \ stale'
                      /\ Noticed(f)
                      => Noticed(f)'
  BY <1>3, <1>6 DEF Noticed, Closes
\* Steps that leave the times alone and let no file go that is not awaiting
\* deletion.
<1>9. ASSUME failures' = 0 => failures = 0, lastRead' = lastRead,
             watched \ stale \subseteq watched' \ stale',
             pc \notin {"down", "scan"}, pc' \notin {"down", "scan"}
      PROVE  Part' /\ lastRead' <= now'
  <2>1. \A f \in File : Old(f, lastRead)' => Old(f, lastRead)
    BY <1>2, <1>3, <1>7, <1>9 DEF Old
  <2>2. Part'
    BY <1>5, <1>8, <1>9, <2>1
  <2> QED
    BY <1>2, <1>3, <1>6, <1>9, <2>2
<1>10. CASE Tick \/ (\E f \in File : Write(f)) \/ UNCHANGED vars
  <2>1. UNCHANGED <<pc, todo, curTime, lastRead, watched, stale, failures>>
    BY <1>10 DEF Tick, Write, vars
  <2>2. \A f \in File : /\ Old(f, curTime)' => Old(f, curTime)
                        /\ Old(f, lastRead)' => Old(f, lastRead)
    BY <1>2, <1>3, <1>7, <2>1 DEF Old
  <2>3. Part'
    BY <1>5, <1>8, <2>1, <2>2
  <2> QED
    BY <1>1, <1>2, <1>3, <1>4, <1>6, <2>1, <2>3 DEF FoundInv
<1>11. CASE Crash \/ \E f \in File : ReadBOM(f)
  BY <1>1, <1>2, <1>4, <1>11 DEF Crash, ReadBOM, Die, FoundInv
<1>12. ASSUME BeginScan, UNCHANGED <<now, size, failures>>, lastRead' \in {0, lastRead}
       PROVE  FoundInv'
  <2>1. \A f \in File : Old(f, now)' => f \in Exists
    BY <1>3, <1>12 DEF Old, Exists
  <2>2. curTime' = now /\ todo' = Exists /\ pc' = "scan" /\ now' = now
    BY <1>12 DEF BeginScan
  <2>3. \A f \in File : Old(f, curTime)' => f \in todo'
    BY <2>1, <2>2 DEF Old
  <2>4. lastRead' <= now'
    BY <1>2, <1>3, <1>12
  <2> QED
    BY <1>1, <1>4, <2>2, <2>3, <2>4 DEF FoundInv
<1>13. CASE Start
  BY <1>12, <1>13 DEF Start
<1>14. ASSUME NEW anyway \in BOOLEAN, ExecuteStep(anyway) PROVE FoundInv'
  <2>1. CASE BeginScan
    BY <1>12, <1>14, <2>1 DEF ExecuteStep
  <2>2. CASE BeginRead
    <3>1. Part' /\ lastRead' <= now'
      BY <1>9, <1>14, <2>2 DEF ExecuteStep, BeginRead
    <3> QED
      BY <1>1, <1>4, <3>1 DEF FoundInv
  <2> QED
    BY <1>14, <2>1, <2>2 DEF ExecuteStep
<1>15. ASSUME NEW f \in File, AddFile(f) PROVE FoundInv'
  <2>1. /\ UNCHANGED <<now, size, pc, curTime, lastRead, stale>>
        /\ pc = "scan" /\ stale = {} /\ todo' = todo \ {f} /\ watched \subseteq watched'
    BY <1>15 DEF AddFile, FoundInv, LetGoInv
  <2>2. ASSUME failures' = 0, size[f] > 0 PROVE failures = 0 /\ Noticed(f)'
    <3>1. failures = 0 /\ (f \in watched' \/ now > Closes(f))
      BY <1>3, <1>15, <2>2 DEF AddFile, Opening, IsWorkingFile
    <3> QED
      BY <2>1, <3>1 DEF Noticed, Closes
  <2>3. failures' = 0 => failures = 0
    BY <1>3, <1>15 DEF AddFile, Opening
  <2>4. \A g \in File : Old(g, curTime)' => Old(g, curTime)
    BY <1>2, <1>3, <1>7, <2>1 DEF Old
  <2>5. ASSUME failures' = 0, NEW g \in File, Old(g, curTime)' PROVE g \in todo' \/ Noticed(g)'
    <3>1. CASE g = f
      BY <2>2, <2>4, <2>5, <3>1 DEF Old
    <3>2. CASE g # f
      <4>1. g \in todo \/ Noticed(g)
        BY <1>5, <2>1, <2>3, <2>4, <2>5
      <4> QED
        BY <1>8, <2>1, <3>2, <4>1
    <3> QED
      BY <3>1, <3>2
  <2> QED
    BY <1>1, <1>2, <1>4, <2>1, <2>5 DEF FoundInv
<1>16. CASE EndScan
  <2>1. /\ UNCHANGED <<now, size, watched, stale, failures>>
        /\ pc = "scan" /\ todo = {} /\ lastRead' = curTime /\ pc' \in {"seek", "read"}
    BY <1>16 DEF EndScan, BeginRead
  <2>2. ASSUME failures' = 0, NEW g \in File, Old(g, lastRead)' PROVE Noticed(g)'
    <3>1. Old(g, curTime)
      BY <1>2, <1>3, <1>7, <2>1, <2>2 DEF Old
    <3> QED
      BY <1>5, <1>8, <2>1, <2>2, <3>1
  <2> QED
    BY <1>1, <1>2, <1>4, <2>1, <2>2 DEF FoundInv
<1>17. ASSUME NEW f \in File, Seek(f) \/ ReadFile(f) PROVE FoundInv'
  <2>1. Part' /\ lastRead' <= now'
    BY <1>3, <1>9, <1>17 DEF Seek, ReadFile, Opening
  <2> QED
    BY <1>1, <1>4, <2>1 DEF FoundInv
<1>18. CASE EndSeek \/ EndRead \/ ClearEvents
  <2>1. Part' /\ lastRead' <= now'
    BY <1>9, <1>18 DEF EndSeek, EndRead, ClearEvents, BeginRead
  <2> QED
    BY <1>1, <1>4, <2>1 DEF FoundInv
<1>19. CASE CheckFile
  <2>1. UNCHANGED <<now, size, watched, lastRead, curTime>> /\ pc = "check" /\ pc' = "read"
    BY <1>19 DEF CheckFile
  <2>2. current \in File /\ size[current] > 0
    BY <2>1 DEF FoundInv, LetGoInv, Fresh, TypeOK, Exists
  <2>3. failures' = 0 =>
          /\ failures = 0
          /\ stale' = stale \/ (stale' = stale \cup {current} /\ curTime > Closes(current))
    BY <1>3, <1>19, <2>2 DEF CheckFile, Opening, IsWorkingFile
  <2>4. ASSUME failures' = 0, NEW g \in File, Old(g, lastRead)' PROVE Noticed(g)'
    <3>1. Old(g, lastRead)
      BY <1>2, <1>3, <1>7, <2>1, <2>4 DEF Old
    <3>2. Noticed(g)
      BY <1>5, <2>1, <2>3, <2>4, <3>1
    <3>3. g \in watched \ stale' \/ now > Closes(g)
      BY <1>2, <1>3, <2>2, <2>3, <2>4, <3>2 DEF Noticed
    <3> QED
      BY <2>1, <3>3 DEF Noticed, Closes
  <2> QED
    BY <1>1, <1>2, <1>4, <2>1, <2>4 DEF FoundInv
<1> QED
  BY <1>1, <1>10, <1>11, <1>13, <1>14, <1>15, <1>16, <1>17, <1>18, <1>19
  DEF Next, Watcher

(* When a step of the watcher reads only the files it has, no file that    *)
(* has had content for more than the period, and is a working file still,  *)
(* is missing, for any files, hours and periods, if every open succeeds.   *)
THEOREM FoundInPeriodHolds == HistorySpec => FoundInPeriod
<1>1. HistoryInit => FoundInv
  <2> SUFFICES ASSUME HistoryInit PROVE FoundInv
    OBVIOUS
  <2>1. LetGoInv
    BY Initial, BoundAssumption DEF HistoryInit, IInv, Init, LetGoInv
  <2> QED
    BY <2>1 DEF HistoryInit, Init, FoundInv
<1>2. FoundInv /\ HistoryStep
        => [pc = "idle" /\ pc' = "read" /\ failures = 0 =>
             \A f \in File :
                size[f] > 0 /\ since[f] + Period < now /\ now <= Closes(f)
                => f \in watched]_<<vars, since>>
  <2> SUFFICES ASSUME FoundInv, HistoryNext, pc = "idle", pc' = "read", failures = 0,
                      NEW f \in File, size[f] > 0, since[f] + Period < now, now <= Closes(f)
               PROVE  f \in watched
    BY DEF HistoryStep
  <2>1. PICK anyway \in BOOLEAN : ExecuteStep(anyway)
    <3>1. ~Crash /\ \A g \in File : ~ReadBOM(g)
      BY DEF Crash, ReadBOM, Die
    <3>2. ~(Tick \/ Start \/ EndScan \/ EndSeek \/ CheckFile \/ EndRead \/ ClearEvents)
      BY DEF Tick, loopVars, Start, EndScan, EndSeek, CheckFile, EndRead, ClearEvents
    <3>3. \A g \in File : ~(AddFile(g) \/ Seek(g) \/ ReadFile(g) \/ Write(g))
      BY DEF AddFile, Seek, ReadFile, Write, loopVars
    <3> QED
      BY <3>1, <3>2, <3>3 DEF HistoryNext, Next, Watcher
  <2>2. ~(now - lastRead > Period)
    BY <2>1 DEF ExecuteStep, BeginScan
  <2>3. now \in Nat /\ lastRead \in Nat /\ since[f] \in Nat /\ Closes(f) \in Nat
    BY Clocks DEF FoundInv, LetGoInv, TypeOK
  <2>4. Old(f, lastRead)
    BY <2>2, <2>3, TimeAssumption DEF Old
  <2>5. Noticed(f)
    BY <2>4 DEF FoundInv
  <2> QED
    BY <2>3, <2>5 DEF Noticed
<1>3. FoundInv /\ [HistoryNext]_<<vars, since>> => FoundInv'
  BY FoundStep DEF HistoryStep
<1> QED
  BY <1>1, <1>2, <1>3, PTL DEF HistorySpec, FoundInPeriod, HistoryStep

-----------------------------------------------------------------------------
(* Once and in order, as long as every open succeeds. *)

\* No record of f after position p was read, delivered or given up.
Behind(f, p) == \A k \in Nat : <<f, k>> \in Seen => k <= p \div Piece

\* Init has read f, or is over: from now on f is only read on.
Settled(f) == starting => pc \in {"read", "check"} /\ f \notin todo

\* A file of which records are known is not found anew, except by a new
\* process.
Gone(f) ==
    \/ Behind(f, 0)
    \/ now > Closes(f)
    \/ pc = "down"
    \/ starting /\ pc = "scan" /\ f \in todo

InOrder(h) ==
    \A i, j \in DOMAIN h : i < j /\ h[i][1] = h[j][1] => h[i][2] < h[j][2]

Disjoint(h, given) == \A i \in DOMAIN h : h[i] \notin given

OrderInv ==
    /\ \A f \in File : Behind(f, size[f])
    /\ \A f \in watched : Settled(f) => Behind(f, pos[f])
    /\ \A f \in File \ watched : Gone(f)
    /\ InOrder(Handed) /\ Disjoint(Handed, skipped)

OnceInv ==
    /\ LetGoInv
    /\ pc = "seek" => starting
    /\ pc \in {"down", "idle", "ready"} => ~starting
    /\ failures = 0 => OrderInv

(* The records that a sequence of events adds to one that is in order, all *)
(* of them later ones of one file, keep it in order.                       *)
LEMMA OrderedAppend ==
  ASSUME NEW h \in Seq(Event), NEW f \in File, NEW p \in Position, NEW q \in Position,
         p # BeforeBOM, InOrder(h),
         \A i \in DOMAIN h : h[i][1] = f => h[i][2] <= p \div Piece
  PROVE  InOrder(h \o Parsed(f, p, q))
<1> DEFINE s == Parsed(f, p, q)
           a == p \div Piece
           b == q \div Piece
           u == h \o s
<1>1. a \in Nat /\ b \in Int
  BY Positions DEF BeforeBOM
<1>2. s \in Seq(Event) /\ \A i \in DOMAIN s : i \in Nat /\ s[i] = <<f, a + i>>
  <2>1. s \in Seq(Event)
    BY ParsedRecords
  <2>2. s = [i \in 1 .. b - a |-> <<f, a + i>>]
    BY DEF Parsed
  <2> HIDE DEF a, b, s
  <2> QED
    BY <1>1, <2>1, <2>2
<1> HIDE DEF s, a, b
<1>3. \A i \in DOMAIN h : h[i] \in File \X (1 .. MaxRecords)
  BY DEF Event
<1>4. /\ DOMAIN u = 1 .. Len(h) + Len(s) /\ Len(h) \in Nat /\ Len(s) \in Nat
      /\ \A i \in 1 .. Len(h) : i \in DOMAIN h /\ u[i] = h[i]
      /\ \A i \in Len(h) + 1 .. Len(h) + Len(s) :
            i - Len(h) \in DOMAIN s /\ u[i] = s[i - Len(h)]
  BY <1>2
<1> HIDE DEF u
<1>5. ASSUME NEW i \in DOMAIN u, NEW j \in DOMAIN u, i < j, u[i][1] = u[j][1]
      PROVE  u[i][2] < u[j][2]
  <2>1. CASE j \in 1 .. Len(h)
    <3>1. i \in 1 .. Len(h)
      BY <1>4, <1>5, <2>1
    <3> QED
      BY <1>4, <1>5, <2>1, <3>1 DEF InOrder
  <2>2. CASE j \in Len(h) + 1 .. Len(h) + Len(s) /\ i \in 1 .. Len(h)
    <3>1. u[j] = <<f, a + (j - Len(h))>> /\ u[i] = h[i] /\ i \in DOMAIN h
      BY <1>2, <1>4, <2>2
    <3>2. h[i][2] <= a
      BY <1>5, <3>1 DEF a
    <3>3. h[i][2] \in Int
      BY <1>3, <3>1, BoundAssumption
    <3> QED
      BY <1>1, <1>4, <2>2, <3>1, <3>2, <3>3
  <2>3. CASE j \in Len(h) + 1 .. Len(h) + Len(s) /\ i \in Len(h) + 1 .. Len(h) + Len(s)
    <3>1. u[j] = <<f, a + (j - Len(h))>> /\ u[i] = <<f, a + (i - Len(h))>>
      BY <1>2, <1>4, <2>3
    <3> QED
      BY <1>1, <1>4, <1>5, <2>3, <3>1
  <2> QED
    BY <1>4, <1>5, <2>1, <2>2, <2>3
<1> QED
  BY <1>5 DEF InOrder, u, s

(* What begins a sequence in order is in order.                            *)
LEMMA OrderedPrefix ==
  ASSUME NEW d \in Seq(Event), NEW e \in Seq(Event), InOrder(d \o e)
  PROVE  InOrder(d)
<1>1. \A i \in DOMAIN d : i \in DOMAIN (d \o e) /\ (d \o e)[i] = d[i]
  OBVIOUS
<1> QED
  BY <1>1, Zenon DEF InOrder

LEMMA HandedFacts ==
  ASSUME TypeOK
  PROVE  /\ Handed \in Seq(Event) /\ delivered \o <<>> = delivered
         /\ starting => Handed = delivered
         /\ ~starting => Handed = delivered \o events
         /\ \A i \in DOMAIN Handed : Handed[i] \in Seen
         /\ \A i \in DOMAIN delivered :
               i \in DOMAIN Handed /\ Handed[i] = delivered[i] /\ delivered[i] \in Delivered
<1>1. delivered \in Seq(Event) /\ events \in Seq(Event)
  BY DEF TypeOK
<1>2. delivered \o <<>> = delivered
  BY <1>1
<1>3. starting => Handed = delivered
  BY <1>2 DEF Handed
<1>4. ~starting => Handed = delivered \o events
  BY DEF Handed
<1>5. /\ delivered \o events \in Seq(Event)
      /\ \A i \in DOMAIN delivered :
            i \in DOMAIN (delivered \o events) /\ (delivered \o events)[i] = delivered[i]
      /\ \A i \in DOMAIN (delivered \o events) :
            \/ \E j \in DOMAIN delivered : (delivered \o events)[i] = delivered[j]
            \/ \E j \in DOMAIN events : (delivered \o events)[i] = events[j]
  <2>1. \A i \in DOMAIN (delivered \o events) :
            \/ i \in DOMAIN delivered /\ (delivered \o events)[i] = delivered[i]
            \/ /\ i - Len(delivered) \in DOMAIN events
               /\ (delivered \o events)[i] = events[i - Len(delivered)]
    BY <1>1
  <2> QED
    BY <1>1, <2>1
<1>6. \A i \in DOMAIN delivered : delivered[i] \in Delivered
  BY DEF Delivered
<1>7. \A i \in DOMAIN Handed : Handed[i] \in Seen
  BY <1>3, <1>4, <1>5, Zenon DEF Seen, Delivered, InMemory
<1> QED
  BY <1>1, <1>2, <1>3, <1>4, <1>5, <1>6, <1>7

LEMMA DivisionMonotone ==
  ASSUME NEW p \in Int, NEW q \in Int, p <= q
  PROVE  p \div Piece <= q \div Piece
BY Division DEF Piece

(* Types, and what they say of the files at hand.                          *)
LEMMA OnceTypes ==
  ASSUME OnceInv
  PROVE  /\ TypeOK /\ Fresh /\ now \in Nat /\ curTime \in Nat /\ curTime <= now
         /\ watched \subseteq File /\ stale \subseteq watched
         /\ size \in [File -> Position] /\ pos \in [File -> Position]
         /\ events \in Seq(Event) /\ delivered \in Seq(Event) /\ skipped \subseteq Event
         /\ Position \subseteq Int /\ failures \in Nat
BY BoundAssumption DEF OnceInv, LetGoInv, TypeOK, Exists, Position, Piece

(* A step that reads, clears and gives up nothing.                         *)
LEMMA SameEvents ==
  ASSUME OnceInv, OrderInv, UNCHANGED <<events, delivered, skipped, starting>>,
         size' \in [File -> Position], \A f \in File : size'[f] >= size[f],
         \A f \in watched' : Settled(f)' => Behind(f, pos'[f]),
         \A f \in File \ watched' : Gone(f)'
  PROVE  OrderInv'
<1>1. Seen' = Seen /\ Handed' = Handed
  BY DEF Seen, Delivered, InMemory, Handed
<1>2. ASSUME NEW f \in File PROVE Behind(f, size'[f])
  <2>1. size[f] \div Piece <= size'[f] \div Piece
    BY OnceTypes, DivisionMonotone
  <2>2. size[f] \div Piece \in Int /\ size'[f] \div Piece \in Int
    BY OnceTypes, Positions
  <2> QED
    BY <2>1, <2>2 DEF OrderInv, Behind
<1>3. \A f, p : Behind(f, p) => \A k \in Nat : <<f, k>> \in Seen' => k <= p \div Piece
  BY <1>1 DEF Behind
<1>4. (\A f \in File : Behind(f, size[f]))'
  BY <1>2, <1>3 DEF Behind
<1>5. (\A f \in watched : Settled(f) => Behind(f, pos[f]))'
  BY <1>3 DEF Behind
<1>6. InOrder(Handed)' /\ Disjoint(Handed, skipped)'
  BY <1>1 DEF OrderInv, InOrder, Disjoint
<1> QED
  BY <1>4, <1>5, <1>6 DEF OrderInv

(* A file stays gone while nothing is read and the clock goes on.          *)
LEMMA StillGone ==
  ASSUME OnceInv, UNCHANGED <<events, delivered, skipped>>, now <= now', now' \in Nat,
         NEW f \in File, Behind(f, 0) \/ now > Closes(f)
  PROVE  Gone(f)'
<1>1. Behind(f, 0) => Behind(f, 0)'
  BY DEF Behind, Seen, Delivered, InMemory
<1>2. now > Closes(f) => now' > Closes(f)
  BY OnceTypes, Clocks
<1> QED
  BY <1>1, <1>2 DEF Gone, Closes

(* The clock, the log and the loops over the files.                        *)
LEMMA LoopOrder ==
  ASSUME OnceInv, OrderInv,
         Tick \/ EndScan \/ EndSeek \/ CheckFile \/ UNCHANGED vars
         \/ (\E anyway \in BOOLEAN : ExecuteStep(anyway))
         \/ (\E f \in File : Write(f))
  PROVE  OrderInv'
<1> USE DEF envVars, loopVars, fileVars, dataVars
<1>1. /\ UNCHANGED <<events, delivered, skipped, starting, watched, pos>>
      /\ now <= now' /\ now' \in Nat
  BY OnceTypes
  DEF Tick, EndScan, EndSeek, CheckFile, vars, ExecuteStep, Write
<1>2. size' \in [File -> Position] /\ \A f \in File : size'[f] >= size[f]
  <2>1. CASE UNCHANGED size
    BY <2>1, OnceTypes
  <2>2. ASSUME NEW f \in File, Write(f)
        PROVE  size' \in [File -> Position] /\ \A g \in File : size'[g] >= size[g]
    <3>1. size' = [size EXCEPT ![f] = @ + 1] /\ size[f] + 1 \in Position
      BY <2>2, OnceTypes, BoundAssumption DEF Write, Position, Piece
    <3> QED
      BY <3>1, OnceTypes
  <2> QED
    BY <2>1, <2>2 DEF Tick, EndScan, EndSeek, CheckFile, vars, ExecuteStep
<1>3. \A f \in watched : Settled(f)' => Settled(f)
  <2>1. CASE Tick \/ UNCHANGED vars \/ (\E f \in File : Write(f))
    BY <2>1 DEF Tick, vars, Write, Settled
  <2>2. CASE EndScan
    BY <2>2 DEF EndScan, BeginRead, Settled
  <2>3. CASE EndSeek
    BY <2>3 DEF EndSeek, BeginRead, Settled
  <2>4. CASE CheckFile
    BY <2>4 DEF CheckFile, Settled
  <2>5. ASSUME NEW anyway \in BOOLEAN, ExecuteStep(anyway)
        PROVE  \A f \in watched : Settled(f)' => Settled(f)
    BY <2>5 DEF ExecuteStep, OnceInv, Settled
  <2> QED
    BY <2>1, <2>2, <2>3, <2>4, <2>5
<1>4. \A f \in watched' : Settled(f)' => Behind(f, pos'[f])
  BY <1>1, <1>3 DEF OrderInv
<1>5. ASSUME NEW f \in File \ watched' PROVE Gone(f)'
  <2>1. Gone(f)
    BY <1>1 DEF OrderInv
  <2>2. CASE Behind(f, 0) \/ now > Closes(f)
    BY <1>1, <2>2, StillGone
  <2>3. CASE Tick \/ UNCHANGED vars \/ (\E g \in File : Write(g))
    <3>1. pc' = pc /\ todo' = todo
      BY <2>3 DEF Tick, Write, vars
    <3>2. CASE pc = "down" \/ (starting /\ pc = "scan" /\ f \in todo)
      BY <1>1, <3>1, <3>2 DEF Gone
    <3> QED
      BY <2>1, <2>2, <3>2 DEF Gone
  <2>4. EndScan \/ EndSeek \/ CheckFile => pc # "down" /\ (pc = "scan" => todo = {})
    BY DEF EndScan, EndSeek, CheckFile
  <2>5. (\E anyway \in BOOLEAN : ExecuteStep(anyway)) => pc = "idle"
    BY DEF ExecuteStep
  <2> QED
    BY <2>1, <2>2, <2>3, <2>4, <2>5 DEF Gone
<1> QED
  BY <1>1, <1>2, <1>4, <1>5, SameEvents

(* A file that is found was not read before, or is read anew by Init.      *)
LEMMA AddFileOrder ==
  ASSUME OnceInv, OrderInv, NEW f \in File, AddFile(f), failures' = 0
  PROVE  OrderInv'
<1>1. /\ UNCHANGED <<now, size, events, delivered, skipped, starting>>
      /\ pc = "scan" /\ pc' = "scan" /\ todo' = todo \ {f} /\ todo \subseteq File
  BY OnceTypes DEF AddFile, envVars, dataVars, TypeOK, Exists
<1>2. \/ f \in watched /\ UNCHANGED <<watched, pos>>
      \/ /\ f \notin watched /\ size[f] > 0 /\ now <= Closes(f)
         /\ watched' = watched \cup {f} /\ pos' = [pos EXCEPT ![f] = 0]
      \/ /\ f \notin watched /\ UNCHANGED <<watched, pos>>
         /\ ~(size[f] > 0 /\ now <= Closes(f))
  <2>1. ASSUME NEW ok \in BOOLEAN, Opening(ok) PROVE ok
    BY <2>1, OnceTypes DEF Opening
  <2> QED
    BY <2>1 DEF AddFile, IsWorkingFile
<1>3. \A g \in File \ {f} : /\ pos'[g] = pos[g] /\ (g \in watched' <=> g \in watched)
                            /\ Settled(g)' => Settled(g)
  BY <1>1, <1>2, OnceTypes DEF Settled
<1>4. ASSUME NEW g \in watched', Settled(g)' PROVE Behind(g, pos'[g])
  <2>1. CASE g # f \/ UNCHANGED <<watched, pos>>
    BY <1>1, <1>2, <1>3, <1>4, <2>1, OnceTypes DEF OrderInv, Settled
  <2>2. CASE g = f /\ f \notin watched /\ now <= Closes(f) /\ pos' = [pos EXCEPT ![f] = 0]
    <3>1. ~starting
      BY <1>1, <1>4 DEF Settled
    <3>2. Gone(f) /\ ~(now > Closes(f))
      BY <2>2, OnceTypes, Clocks DEF OrderInv
    <3>3. Behind(f, 0)
      BY <1>1, <3>1, <3>2 DEF Gone
    <3>4. pos'[f] = 0
      BY <2>2, OnceTypes
    <3> QED
      BY <2>2, <3>3, <3>4
  <2> QED
    BY <1>2, <2>1, <2>2
<1>5. ASSUME NEW g \in File \ watched' PROVE Gone(g)'
  <2>1. g \notin watched /\ Gone(g)
    BY <1>2 DEF OrderInv
  <2>2. CASE Behind(g, 0) \/ now > Closes(g)
    BY <1>1, <2>2, StillGone, OnceTypes
  <2>3. CASE starting /\ pc = "scan" /\ g \in todo /\ g # f
    BY <1>1, <2>3 DEF Gone
  <2>4. CASE g = f
    <3>1. size[f] <= 0 \/ now > Closes(f)
      BY <1>2, <1>5, <2>4, OnceTypes, Clocks
    <3>2. CASE size[f] <= 0
      <4>1. Behind(f, size[f]) /\ size[f] \in Int
        BY OnceTypes DEF OrderInv
      <4>2. size[f] \div Piece \in Int /\ 0 \div Piece \in Int
            /\ size[f] \div Piece <= 0 \div Piece
        BY <3>2, <4>1, DivisionMonotone, Division DEF Piece
      <4>3. Behind(f, 0)
        BY <4>1, <4>2 DEF Behind
      <4> QED
        BY <1>1, <2>4, <4>3, StillGone, OnceTypes
    <3>3. CASE now > Closes(f)
      BY <1>1, <2>4, <3>3, StillGone, OnceTypes
    <3> QED
      BY <3>1, <3>2, <3>3
  <2> QED
    BY <1>1, <2>1, <2>2, <2>3, <2>4 DEF Gone
<1> QED
  BY <1>1, <1>4, <1>5, OnceTypes, SameEvents

(* The sequence of what was delivered alone: of Init, or of a dead process. *)
LEMMA DeliveredOrder ==
  ASSUME OnceInv, OrderInv, UNCHANGED <<delivered>>, starting' \/ events' = <<>>,
         skipped' \subseteq skipped \cup (File \X Nat \ Delivered)
  PROVE  InOrder(Handed)' /\ Disjoint(Handed, skipped)'
<1>1. TypeOK
  BY OnceTypes
<1>2. Handed' = delivered
  BY <1>1, HandedFacts DEF Handed
<1>3. InOrder(delivered)
  BY <1>1, HandedFacts, OnceTypes, OrderedPrefix DEF OrderInv
<1>4. \A i \in DOMAIN delivered : delivered[i] \notin skipped /\ delivered[i] \in Delivered
  BY <1>1, HandedFacts DEF OrderInv, Disjoint
<1> QED
  BY <1>2, <1>3, <1>4 DEF InOrder, Disjoint

(* A process that dies gives up what it held, and no more.                 *)
LEMMA DieOrder ==
  ASSUME OnceInv, OrderInv, Die, UNCHANGED envVars
  PROVE  OrderInv'
<1>1. /\ UNCHANGED <<now, size, delivered>> /\ events' = <<>> /\ watched' = {} /\ pc' = "down"
      /\ skipped' = skipped \cup (InMemory \ Delivered)
  BY DEF Die, envVars
<1>2. InMemory \subseteq File \X Nat
  BY OnceTypes, BoundAssumption DEF InMemory, Event
<1>3. Seen' \subseteq Seen
  BY <1>1 DEF Seen, Delivered, InMemory
<1>4. (\A f \in File : Behind(f, size[f]))'
  BY <1>1, <1>3 DEF OrderInv, Behind
<1>5. (\A f \in File \ watched : Gone(f))'
  BY <1>1 DEF Gone
<1>6. InOrder(Handed)' /\ Disjoint(Handed, skipped)'
  BY <1>1, <1>2, DeliveredOrder
<1> QED
  BY <1>1, <1>4, <1>5, <1>6 DEF OrderInv

(* A new process goes through all the files that exist.                    *)
LEMMA StartOrder ==
  ASSUME OnceInv, OrderInv, Start
  PROVE  OrderInv'
<1>1. /\ UNCHANGED <<now, size, events, delivered, skipped, watched, pos>>
      /\ starting' = TRUE /\ pc' = "scan" /\ todo' = Exists
  BY DEF Start, BeginScan, envVars, fileVars, dataVars
<1>2. Seen' = Seen
  BY <1>1 DEF Seen, Delivered, InMemory
<1>3. (\A f \in File : Behind(f, size[f]))'
  BY <1>1, <1>2 DEF OrderInv, Behind
<1>4. \A f : ~Settled(f)'
  BY <1>1 DEF Settled
<1>5. ASSUME NEW f \in File \ watched' PROVE Gone(f)'
  <2>1. CASE f \in Exists
    BY <1>1, <2>1 DEF Gone
  <2>2. CASE f \notin Exists
    <3>1. size[f] = -1
      BY <2>2, OnceTypes, BoundAssumption DEF Exists, Position, Piece
    <3>2. size[f] \div Piece <= 0 \div Piece /\ size[f] \div Piece \in Int
          /\ 0 \div Piece \in Int
      BY <3>1, DivisionMonotone, Division DEF Piece
    <3>3. Behind(f, 0)
      BY <3>2 DEF OrderInv, Behind
    <3> QED
      BY <1>1, <3>3, StillGone, OnceTypes
  <2> QED
    BY <2>1, <2>2
<1>6. InOrder(Handed)' /\ Disjoint(Handed, skipped)'
  BY <1>1, DeliveredOrder
<1> QED
  BY <1>3, <1>4, <1>5, <1>6 DEF OrderInv

(* Init does not start beyond the end of the file.                         *)
LEMMA StartNotBeyond ==
  ASSUME NEW n \in Int, n > 0
  PROVE  /\ StartPosition(n) \in Int
         /\ StartPosition(n) \div Piece <= n \div Piece
         /\ StartPosition(n) \div Piece \in Int
<1> DEFINE k == (n + 1) \div Piece
<1>1. k \in Int /\ 3 * k <= n + 1
  BY Division DEF Piece
<1> HIDE DEF k
<1>2. StartPosition(n) = IF k = 0 THEN BeforeBOM ELSE Piece * (k - 1)
  BY DEF StartPosition, k
<1>3. StartPosition(n) \in Int /\ StartPosition(n) <= n
  BY <1>1, <1>2 DEF Piece, BeforeBOM
<1> QED
  BY <1>3, DivisionMonotone, Division DEF Piece

(* What Init skips of a file is in the file, and was not delivered.        *)
LEMMA SeekOrder ==
  ASSUME OnceInv, OrderInv, NEW f \in File, Seek(f), failures' = 0
  PROVE  OrderInv'
<1> DEFINE new == Records(f, StartPosition(size[f])) \ Delivered
<1>1. /\ UNCHANGED <<now, size, events, delivered, starting, watched>>
      /\ starting /\ pc = "seek" /\ pc' = "seek"
      /\ f \in watched /\ size[f] > 0
  BY DEF Seek, envVars, OnceInv, LetGoInv, TypeOK
<1>2. skipped' = skipped \cup new
  <2>1. PICK ok \in BOOLEAN :
          /\ Opening(ok)
          /\ IF ok THEN /\ opened' = opened \cup {f}
                        /\ pos' = [pos EXCEPT ![f] = StartPosition(size[f])]
                        /\ skipped' = skipped \cup (Records(f, pos'[f]) \ Delivered)
                   ELSE UNCHANGED <<opened, pos, skipped>>
    BY DEF Seek
  <2>2. ok
    BY <2>1, OnceTypes DEF Opening
  <2>3. pos'[f] = StartPosition(size[f])
    BY <2>1, <2>2, OnceTypes
  <2> QED
    BY <2>1, <2>2, <2>3
<1>3. /\ StartPosition(size[f]) \in Int
      /\ StartPosition(size[f]) \div Piece <= size[f] \div Piece
      /\ StartPosition(size[f]) \div Piece \in Int
  BY <1>1, OnceTypes, StartNotBeyond
<1>4. new \subseteq File \X Nat \ Delivered
  BY <1>3 DEF Records
<1>5. Seen' = Seen \cup new
  BY <1>1, <1>2 DEF Seen, Delivered, InMemory
<1>6. \A k \in Nat : <<f, k>> \in new => k <= size[f] \div Piece
  BY <1>3, OnceTypes, Division DEF Records, Piece
<1>7. \A g \in File \ {f} : \A k : <<g, k>> \notin new
  BY DEF Records
<1>8. (\A g \in File : Behind(g, size[g]))'
  BY <1>1, <1>5, <1>6, <1>7 DEF OrderInv, Behind
<1>9. \A g : ~Settled(g)'
  BY <1>1 DEF Settled
<1>10. ASSUME NEW g \in File \ watched' PROVE Gone(g)'
  <2>1. Behind(g, 0) \/ now > Closes(g)
    BY <1>1 DEF OrderInv, Gone
  <2>2. Behind(g, 0) => Behind(g, 0)'
    BY <1>1, <1>5, <1>7 DEF Behind
  <2> QED
    BY <1>1, <2>1, <2>2 DEF Gone, Closes
<1>11. InOrder(Handed)' /\ Disjoint(Handed, skipped)'
  BY <1>1, <1>2, <1>4, DeliveredOrder
<1> QED
  BY <1>8, <1>9, <1>10, <1>11 DEF OrderInv

\* The events a reading of f completes.
Gained(f) == Parsed(f, pos[f], size[f])
GainedEvents(f) == {Gained(f)[i] : i \in DOMAIN Gained(f)}

(* A reading that succeeds appends the records of the file from its        *)
(* position to its size.                                                   *)
LEMMA ReadYields ==
  ASSUME TypeOK, NEW f \in File, ReadFile(f), failures' = failures
  PROVE  /\ pos[f] # BeforeBOM /\ pos' = [pos EXCEPT ![f] = size[f]]
         /\ events' = events \o Gained(f) /\ Gained(f) \in Seq(Event)
         /\ \A i \in DOMAIN Gained(f) : Gained(f)[i] = <<f, pos[f] \div Piece + i>>
         /\ \A e \in GainedEvents(f) :
               \E k \in Nat : /\ e = <<f, k>> /\ k > pos[f] \div Piece
                              /\ k <= size[f] \div Piece
         /\ Seen' = Seen \cup GainedEvents(f)
<1> DEFINE s == Gained(f)
<1>1. /\ failures \in Nat /\ pos[f] \in Position /\ size[f] \in Position
      /\ events \in Seq(Event)
  BY DEF TypeOK, Position
<1>2. /\ pos[f] # BeforeBOM /\ pos' = [pos EXCEPT ![f] = size[f]]
      /\ events' = events \o s
  BY <1>1 DEF ReadFile, Opening, Gained
<1>3. /\ s \in Seq(Event)
      /\ \A i \in DOMAIN s : s[i] = <<f, pos[f] \div Piece + i>>
      /\ \A e \in GainedEvents(f) :
            \E k \in Nat : /\ e = <<f, k>> /\ k > pos[f] \div Piece
                           /\ k <= size[f] \div Piece
  <2> DEFINE a == pos[f] \div Piece
             b == size[f] \div Piece
  <2>1. a \in Nat /\ b \in Int
    BY <1>1, <1>2, Positions DEF BeforeBOM
  <2>2. s \in Seq(Event)
    BY <1>1, <1>2, ParsedRecords DEF Gained
  <2>3. s = [i \in 1 .. b - a |-> <<f, a + i>>]
    BY DEF Gained, Parsed
  <2>4. GainedEvents(f) = {s[i] : i \in DOMAIN s}
    BY DEF GainedEvents
  <2> HIDE DEF a, b, s
  <2>5. \A i \in DOMAIN s : s[i] = <<f, a + i>> /\ a + i \in Nat /\ a + i > a /\ a + i <= b
    BY <2>1, <2>3
  <2>6. \A i \in DOMAIN s : s[i] = <<f, a + i>>
    BY <2>5
  <2>7. \A e \in GainedEvents(f) : \E k \in Nat : e = <<f, k>> /\ k > a /\ k <= b
    BY <2>4, <2>5
  <2> QED
    BY <2>2, <2>6, <2>7 DEF a, b
<1>4. Seen' = Seen \cup GainedEvents(f)
  <2>1. GainedEvents(f) = {s[i] : i \in DOMAIN s}
    BY DEF GainedEvents
  <2> HIDE DEF s
  <2>2. \A i \in DOMAIN events' :
           \/ i \in DOMAIN events /\ events'[i] = events[i]
           \/ i - Len(events) \in DOMAIN s /\ events'[i] = s[i - Len(events)]
    BY <1>1, <1>2, <1>3
  <2>3. /\ \A i \in DOMAIN events : i \in DOMAIN events' /\ events'[i] = events[i]
        /\ \A i \in DOMAIN s : /\ Len(events) + i \in DOMAIN events'
                               /\ events'[Len(events) + i] = s[i]
    BY <1>1, <1>2, <1>3
  <2>4. InMemory' = InMemory \cup GainedEvents(f)
    BY <2>1, <2>2, <2>3 DEF InMemory
  <2>5. UNCHANGED <<delivered, skipped>>
    BY DEF ReadFile
  <2> QED
    BY <2>4, <2>5 DEF Seen, Delivered
<1> QED
  BY <1>2, <1>3, <1>4

(* Outside of Init the worker will get what a reading appends.             *)
LEMMA ReadHands ==
  ASSUME TypeOK, NEW f \in File, ReadFile(f), failures' = failures, ~starting
  PROVE  Handed \in Seq(Event) /\ Handed' = Handed \o Gained(f)
<1> DEFINE s == Gained(f)
<1>1. events' = events \o s /\ s \in Seq(Event) /\ UNCHANGED <<delivered, starting>>
  BY ReadYields DEF ReadFile
<1>2. delivered \in Seq(Event) /\ events \in Seq(Event)
  BY DEF TypeOK
<1> HIDE DEF s
<1>3. Handed = delivered \o events /\ Handed' = delivered \o (events \o s)
  BY <1>1 DEF Handed
<1>4. delivered \o (events \o s) = (delivered \o events) \o s
  <2> DEFINE u == delivered \o (events \o s)
             v == (delivered \o events) \o s
  <2>1. u \in Seq(Event) /\ v \in Seq(Event) /\ Len(u) = Len(v)
    BY <1>1, <1>2
  <2>2. \A i \in 1 .. Len(u) : u[i] = v[i]
    BY <1>1, <1>2
  <2> HIDE DEF u, v
  <2>3. u = v
    BY <2>1, <2>2
  <2> QED
    BY <2>3 DEF u, v
<1> QED
  BY <1>3, <1>4, HandedFacts DEF s

(* A reading goes on after all that is known of the file, unless Init      *)
(* reads, whose events nobody gets.                                        *)
LEMMA ReadOrder ==
  ASSUME OnceInv, OrderInv, NEW f \in File, ReadFile(f), failures' = 0
  PROVE  OrderInv'
<1> DEFINE s == Gained(f)
           new == GainedEvents(f)
<1>1. /\ UNCHANGED <<now, size, delivered, skipped, starting, watched>>
      /\ pc = "read" /\ pc' = "check" /\ f \in todo /\ todo' = todo \ {f}
      /\ f \in watched
  BY OnceTypes DEF ReadFile, envVars, TypeOK
<1>2. failures' = failures
  BY OnceTypes DEF ReadFile, Opening
<1>3. /\ pos[f] # BeforeBOM /\ pos' = [pos EXCEPT ![f] = size[f]]
      /\ events' = events \o s /\ s \in Seq(Event)
      /\ \A e \in new : \E k \in Nat : /\ e = <<f, k>> /\ k > pos[f] \div Piece
                                       /\ k <= size[f] \div Piece
  BY <1>2, ReadYields, OnceTypes
<1>4. Seen' = Seen \cup new
  BY <1>2, ReadYields, OnceTypes
<1>0. new = {s[i] : i \in DOMAIN s}
  BY DEF GainedEvents
<1> HIDE DEF s, new
<1>5. \A g \in File \ {f} : \A k : <<g, k>> \notin new
  BY <1>3
<1>6. \A g \in File : Behind(g, size[g])'
  BY <1>1, <1>3, <1>4, <1>5 DEF OrderInv, Behind
<1>7. ASSUME NEW g \in watched', Settled(g)' PROVE Behind(g, pos[g])'
  <2>1. CASE g = f
    <3>1. pos'[f] = size'[f]
      BY <1>1, <1>3, OnceTypes
    <3> QED
      BY <1>6, <2>1, <3>1 DEF Behind
  <2>2. CASE g # f
    <3>1. Settled(g) /\ pos'[g] = pos[g]
      BY <1>1, <1>3, <1>7, <2>2, OnceTypes DEF Settled
    <3>2. Behind(g, pos[g]) /\ g \in File
      BY <1>1, <3>1, OnceTypes DEF OrderInv
    <3> QED
      BY <1>4, <1>5, <2>2, <3>1, <3>2 DEF Behind
  <2> QED
    BY <2>1, <2>2
<1>8. ASSUME NEW g \in File \ watched' PROVE Gone(g)'
  <2>1. g # f /\ (Behind(g, 0) \/ now > Closes(g))
    BY <1>1 DEF OrderInv, Gone
  <2>2. Behind(g, 0) => Behind(g, 0)'
    BY <1>4, <1>5, <2>1 DEF Behind
  <2> QED
    BY <1>1, <2>1, <2>2 DEF Gone, Closes
<1>9. InOrder(Handed)' /\ Disjoint(Handed, skipped)'
  <2>1. CASE starting
    BY <1>1, <2>1, DeliveredOrder
  <2>2. CASE ~starting
    <3>1. Handed' = Handed \o s /\ Handed \in Seq(Event)
      BY <1>2, <2>2, ReadHands, OnceTypes DEF s
    <3>2. Behind(f, pos[f])
      BY <1>1, <2>2 DEF OrderInv, Settled
    <3>3. \A i \in DOMAIN Handed : Handed[i][1] = f => Handed[i][2] <= pos[f] \div Piece
      <4> SUFFICES ASSUME NEW i \in DOMAIN Handed, Handed[i][1] = f
                   PROVE  Handed[i][2] <= pos[f] \div Piece
        OBVIOUS
      <4>1. Handed[i] \in Event /\ Handed[i] \in Seen
        BY <3>1, HandedFacts, OnceTypes
      <4>2. Handed[i] = <<f, Handed[i][2]>> /\ Handed[i][2] \in Nat
        BY <4>1, BoundAssumption DEF Event
      <4> QED
        BY <3>2, <4>1, <4>2 DEF Behind
    <3>4. InOrder(Handed \o s)
      BY <1>1, <1>3, <3>1, <3>3, OnceTypes, OrderedAppend DEF OrderInv, s, Gained
    <3>5. \A e \in new : e \notin skipped
      <4> SUFFICES ASSUME NEW e \in new, e \in skipped PROVE FALSE
        OBVIOUS
      <4>1. PICK k \in Nat : e = <<f, k>> /\ k > pos[f] \div Piece
        BY <1>3
      <4>2. k <= pos[f] \div Piece
        BY <3>2, <4>1 DEF Behind, Seen
      <4>3. pos[f] \div Piece \in Int
        BY OnceTypes, Positions
      <4> QED
        BY <4>1, <4>2, <4>3
    <3>6. \A i \in DOMAIN (Handed \o s) :
             \/ i \in DOMAIN Handed /\ (Handed \o s)[i] = Handed[i]
             \/ (Handed \o s)[i] \in new
      <4>1. \A i \in DOMAIN (Handed \o s) :
               \/ i \in DOMAIN Handed /\ (Handed \o s)[i] = Handed[i]
               \/ i - Len(Handed) \in DOMAIN s /\ (Handed \o s)[i] = s[i - Len(Handed)]
        BY <1>3, <3>1
      <4> QED
        BY <1>0, <4>1
    <3>7. Disjoint(Handed \o s, skipped)
      BY <3>5, <3>6, Zenon DEF OrderInv, Disjoint
    <3> QED
      BY <1>1, <3>1, <3>4, <3>7 DEF InOrder, Disjoint
  <2> QED
    BY <2>1, <2>2
<1> QED
  BY <1>6, <1>7, <1>8, <1>9 DEF OrderInv

(* A file is let go after its close; Init gives up what it read.           *)
LEMMA EndReadOrder ==
  ASSUME OnceInv, OrderInv, EndRead, failures' = 0
  PROVE  OrderInv'
<1>1. /\ UNCHANGED <<now, size, pos, delivered>> /\ failures = 0
      /\ pc = "read" /\ todo = {} /\ watched' = watched \ stale /\ starting' = FALSE
  BY DEF EndRead, envVars
<1>2. \A f \in watched : Behind(f, pos[f])
  BY <1>1 DEF OrderInv, Settled
<1>3. \A f \in File \ watched' : Behind(f, 0) \/ now > Closes(f)
  <2>1. ASSUME NEW f \in stale PROVE now > Closes(f)
    <3>1. curTime > Closes(f) /\ f \in File
      BY <1>1, OnceTypes DEF OnceInv, LetGoInv
    <3> QED
      BY <3>1, OnceTypes, Clocks
  <2>2. ASSUME NEW f \in File \ watched PROVE Behind(f, 0) \/ now > Closes(f)
    BY <1>1 DEF OrderInv, Gone
  <2> QED
    BY <1>1, <2>1, <2>2
<1>4. Seen' \subseteq Seen
  <2>1. CASE starting
    BY <1>1, <2>1 DEF EndRead, Seen, Delivered, InMemory
  <2>2. CASE ~starting
    BY <1>1, <2>2 DEF EndRead, Seen, Delivered, InMemory
  <2> QED
    BY <2>1, <2>2
<1>5. (\A f \in File : Behind(f, size[f]))'
  BY <1>1, <1>4 DEF OrderInv, Behind
<1>6. (\A f \in watched : Settled(f) => Behind(f, pos[f]))'
  BY <1>1, <1>2, <1>4 DEF Behind
<1>7. (\A f \in File \ watched : Gone(f))'
  BY <1>1, <1>3, <1>4 DEF Gone, Behind, Closes
<1>8. InOrder(Handed)' /\ Disjoint(Handed, skipped)'
  <2>1. CASE starting
    <3>1. events' = <<>> /\ skipped' = skipped \cup (InMemory \ Delivered)
      BY <2>1 DEF EndRead
    <3>2. InMemory \subseteq File \X Nat
      BY OnceTypes, BoundAssumption DEF InMemory, Event
    <3> QED
      BY <1>1, <3>1, <3>2, DeliveredOrder
  <2>2. CASE ~starting
    <3>1. Handed' = Handed /\ skipped' = skipped
      BY <1>1, <2>2 DEF EndRead, Handed
    <3> QED
      BY <3>1 DEF OrderInv, InOrder, Disjoint
  <2> QED
    BY <2>1, <2>2
<1> QED
  BY <1>5, <1>6, <1>7, <1>8 DEF OrderInv

(* The worker takes the events as they are.                                *)
LEMMA ClearOrder ==
  ASSUME OnceInv, OrderInv, ClearEvents
  PROVE  OrderInv'
<1>1. /\ UNCHANGED <<now, size, pos, watched, skipped, starting>>
      /\ ~starting /\ pc = "ready" /\ pc' = "idle"
      /\ delivered' = delivered \o events /\ events' = <<>>
  BY DEF ClearEvents, envVars, fileVars, OnceInv
<1>2. delivered \o events \in Seq(Event)
  BY OnceTypes
<1>3. Handed = delivered \o events /\ Handed' = (delivered \o events) \o <<>>
  BY <1>1 DEF Handed
<1>4. Handed' = Handed
  BY <1>2, <1>3
<1>5. Seen' \subseteq Seen
  <2>1. Delivered' = {Handed[i] : i \in DOMAIN Handed}
    BY <1>1, <1>3 DEF Delivered
  <2>2. Delivered' \subseteq Seen
    BY <2>1, HandedFacts, OnceTypes
  <2>3. InMemory' = {}
    BY <1>1 DEF InMemory
  <2> QED
    BY <1>1, <2>2, <2>3 DEF Seen
<1>6. (\A f \in File : Behind(f, size[f]))'
  BY <1>1, <1>5 DEF OrderInv, Behind
<1>7. \A f \in watched : Behind(f, pos[f])
  BY <1>1 DEF OrderInv, Settled
<1>8. (\A f \in watched : Settled(f) => Behind(f, pos[f]))'
  BY <1>1, <1>5, <1>7 DEF Behind
<1>9. ASSUME NEW f \in File \ watched' PROVE Gone(f)'
  <2>1. Behind(f, 0) \/ now > Closes(f)
    BY <1>1 DEF OrderInv, Gone
  <2> QED
    BY <1>1, <1>5, <2>1 DEF Gone, Behind, Closes
<1>10. InOrder(Handed)' /\ Disjoint(Handed, skipped)'
  BY <1>1, <1>4 DEF OrderInv, InOrder, Disjoint
<1> QED
  BY <1>6, <1>8, <1>9, <1>10 DEF OrderInv

(* Every step keeps the order, and Init is where it says it is.            *)
LEMMA OnceStep == OnceInv /\ [Next]_vars => OnceInv'
<1> SUFFICES ASSUME OnceInv, [Next]_vars PROVE OnceInv'
  OBVIOUS
<1> USE DEF envVars, loopVars, fileVars, dataVars
<1>1. LetGoInv'
  BY LetGoStep DEF OnceInv
<1>2. /\ (pc = "seek" => starting)'
      /\ (pc \in {"down", "idle", "ready"} => ~starting)'
  <2>1. CASE UNCHANGED <<pc, starting>>
    BY <2>1 DEF OnceInv
  <2>2. CASE Die
    BY <2>2 DEF Die
  <2>3. CASE Start \/ EndScan \/ EndSeek \/ CheckFile \/ EndRead \/ ClearEvents
    BY <2>3
    DEF OnceInv, Start, EndScan, EndSeek, CheckFile, EndRead, ClearEvents,
        BeginScan, BeginRead
  <2>4. ASSUME NEW anyway \in BOOLEAN, ExecuteStep(anyway)
        PROVE  /\ (pc = "seek" => starting)'
               /\ (pc \in {"down", "idle", "ready"} => ~starting)'
    BY <2>4 DEF ExecuteStep, BeginScan, BeginRead
  <2>5. ASSUME NEW f \in File, ReadFile(f) PROVE pc' = "check"
    BY <2>5 DEF ReadFile
  <2>6. Crash \/ (\E f \in File : ReadBOM(f)) => Die
    BY DEF Crash, ReadBOM
  <2>7. Tick \/ (\E f \in File : AddFile(f) \/ Seek(f) \/ Write(f)) \/ UNCHANGED vars
          => UNCHANGED <<pc, starting>>
    BY DEF Tick, AddFile, Seek, Write, vars
  <2> QED
    BY <2>1, <2>2, <2>3, <2>4, <2>5, <2>6, <2>7 DEF Next, Watcher
<1>3. failures' = 0 => failures = 0
  <2>1. \A ok \in BOOLEAN : Opening(ok) => (failures' = 0 => failures = 0)
    BY OnceTypes DEF Opening
  <2>2. \A f \in File : AddFile(f) \/ Seek(f) \/ ReadFile(f) \/ ReadBOM(f) \/ Write(f)
          => failures' = failures \/ \E ok \in BOOLEAN : Opening(ok)
    BY DEF AddFile, Seek, ReadFile, ReadBOM, Write
  <2>3. Start \/ EndScan \/ EndSeek \/ CheckFile \/ EndRead \/ ClearEvents \/ Crash
          \/ Tick \/ UNCHANGED vars \/ (\E anyway \in BOOLEAN : ExecuteStep(anyway))
          => failures' = failures \/ \E ok \in BOOLEAN : Opening(ok)
    BY DEF Start, EndScan, EndSeek, CheckFile, EndRead, ClearEvents, Crash, Tick,
           vars, ExecuteStep
  <2> QED
    BY <2>1, <2>2, <2>3 DEF Next, Watcher
<1>4. ASSUME failures' = 0 PROVE OrderInv'
  <2>1. OrderInv
    BY <1>3, <1>4 DEF OnceInv
  <2>2. CASE Crash
    BY <2>1, <2>2, DieOrder DEF Crash
  <2>3. ASSUME NEW f \in File, ReadBOM(f) PROVE OrderInv'
    BY <2>1, <2>3, DieOrder DEF ReadBOM
  <2> QED
    BY <1>4, <2>1, <2>2, <2>3, LoopOrder, AddFileOrder, StartOrder, SeekOrder,
       ReadOrder, EndReadOrder, ClearOrder
    DEF Next, Watcher
<1> QED
  BY <1>1, <1>2, <1>4 DEF OnceInv

(* The worker gets the records of a file in order, none twice and none     *)
(* that was given up, through all crashes and restarts, if every open      *)
(* succeeds; for any files, hours, periods and interleavings.              *)
THEOREM OnceInOrderHolds == Spec => []OnceInOrder
<1>1. Init => LetGoInv
  BY Initial, BoundAssumption DEF IInv, Init, LetGoInv
<1>2. Init => OnceInv
  <2> SUFFICES ASSUME Init PROVE OnceInv
    OBVIOUS
  <2>1. /\ delivered = <<>> /\ events = <<>> /\ skipped = {} /\ pc = "down"
        /\ starting = FALSE /\ watched = {}
    BY DEF Init
  <2>2. Seen = {}
    BY <2>1 DEF Seen, Delivered, InMemory
  <2>3. Handed = <<>>
    BY <2>1 DEF Handed
  <2>4. OrderInv
    BY <2>1, <2>2, <2>3 DEF OrderInv, Behind, Gone, InOrder, Disjoint
  <2> QED
    BY <1>1, <2>1, <2>4 DEF OnceInv
<1>3. OnceInv => OnceInOrder
  BY DEF OnceInv, OrderInv, InOrder, Disjoint, OnceInOrder
<1> QED
  BY <1>2, <1>3, OnceStep, PTL DEF Spec

-----------------------------------------------------------------------------
(* Duplicates, when opens fail. *)

Copies(e) == {i \in DOMAIN Handed : Handed[i] = e}

\* Record k of f will not be handed to the worker again, or for the first
\* time, unless an open fails.
Safe(f, k) ==
    \/ /\ f \in watched
       /\ Settled(f) => k <= pos[f] \div Piece
       /\ f \in stale => curTime > Closes(f)
    \/ /\ f \notin watched
       /\ \/ now > Closes(f)
          \/ pc = "down"
          \/ starting /\ pc = "scan" /\ f \in todo

\* Every copy but the first has cost a failure, and so has one to come.
Paid(f, k) ==
    /\ Cardinality(Copies(<<f, k>>)) <= failures + 1
    /\ ~Safe(f, k) => Cardinality(Copies(<<f, k>>)) <= failures

Modes ==
    /\ pc = "seek" => starting
    /\ pc \in {"down", "idle", "ready"} => ~starting
    /\ pc = "down" => watched = {}
    /\ pc \in {"read", "check"} => stale \cap todo = {}
    /\ pc = "check" => current \notin stale \cup todo

DupInv ==
    /\ LetGoInv /\ Modes
    /\ \A f \in File : Behind(f, size[f])
    /\ \A f \in File, k \in Nat \ {0} : Paid(f, k)

(* Types, and what they say of the files at hand.                          *)
LEMMA DupTypes ==
  ASSUME DupInv
  PROVE  /\ TypeOK /\ Fresh /\ now \in Nat /\ curTime \in Nat /\ curTime <= now
         /\ watched \subseteq File /\ stale \subseteq watched
         /\ size \in [File -> Position] /\ pos \in [File -> Position]
         /\ events \in Seq(Event) /\ delivered \in Seq(Event) /\ skipped \subseteq Event
         /\ Position \subseteq Int /\ failures \in Nat
BY BoundAssumption DEF DupInv, LetGoInv, TypeOK, Exists, Position, Piece

(* The places of a record are a finite set, of known records only.         *)
LEMMA CopiesFacts ==
  ASSUME DupInv, NEW f \in File, NEW k \in Nat \ {0}
  PROVE  /\ IsFiniteSet(Copies(<<f, k>>)) /\ Cardinality(Copies(<<f, k>>)) \in Nat
         /\ Copies(<<f, k>>) # {} => k <= size[f] \div Piece
<1>1. TypeOK
  BY DupTypes
<1>2. Handed \in Seq(Event)
  BY <1>1, HandedFacts
<1>3. IsFiniteSet(1 .. Len(Handed))
  BY <1>2, FS_Interval
<1>4. Copies(<<f, k>>) \subseteq 1 .. Len(Handed)
  BY <1>2 DEF Copies
<1>5. IsFiniteSet(Copies(<<f, k>>)) /\ Cardinality(Copies(<<f, k>>)) \in Nat
  BY <1>3, <1>4, FS_Subset, FS_CardinalityType
<1>6. Copies(<<f, k>>) # {} => <<f, k>> \in Seen
  BY <1>1, HandedFacts DEF Copies
<1>7. Copies(<<f, k>>) # {} => k <= size[f] \div Piece
  BY <1>6 DEF DupInv, Behind
<1> QED
  BY <1>5, <1>7

(* A step that adds no copies and makes no record unsafe, or pays for it.  *)
LEMMA PaidStep ==
  ASSUME DupInv, NEW f \in File, NEW k \in Nat \ {0},
         Copies(<<f, k>>)' \subseteq Copies(<<f, k>>),
         \/ failures' = failures + 1
         \/ /\ failures' = failures
            /\ k <= size[f] \div Piece /\ Safe(f, k) => Safe(f, k)'
  PROVE  Paid(f, k)'
<1> DEFINE c == Copies(<<f, k>>)
<1>1. IsFiniteSet(c) /\ Cardinality(c) \in Nat /\ failures \in Nat /\ Paid(f, k)
  BY CopiesFacts, DupTypes DEF DupInv
<1>2. Cardinality(c') \in Nat /\ Cardinality(c') <= Cardinality(c)
  <2> DEFINE d == c'
  <2>1. d \subseteq c
    OBVIOUS
  <2> HIDE DEF c, d
  <2>2. Cardinality(d) \in Nat /\ Cardinality(d) <= Cardinality(c)
    BY <1>1, <2>1, FS_Subset, FS_CardinalityType
  <2> QED
    BY <2>2 DEF d
<1>3. c = {} => Cardinality(c) = 0
  <2> HIDE DEF c
  <2> QED
    BY FS_EmptySet
<1>4. c # {} => k <= size[f] \div Piece
  BY CopiesFacts
<1>5. Cardinality(c) <= failures + 1 /\ (~Safe(f, k) => Cardinality(c) <= failures)
  BY <1>1 DEF Paid
<1>6. Paid(f, k)' <=> /\ Cardinality(c') <= failures' + 1
                      /\ ~(Safe(f, k)') => Cardinality(c') <= failures'
  BY DEF Paid
<1> HIDE DEF c
<1>7. CASE failures' = failures + 1
  BY <1>1, <1>2, <1>5, <1>6, <1>7
<1>8. CASE failures' = failures /\ c = {}
  BY <1>1, <1>2, <1>3, <1>6, <1>8
<1>9. CASE failures' = failures /\ c # {} /\ (Safe(f, k) => Safe(f, k)')
  BY <1>1, <1>2, <1>5, <1>6, <1>9
<1> QED
  BY <1>4, <1>7, <1>8, <1>9

(* The sequence of what was delivered alone has no copies of its own.      *)
LEMMA FewerCopies ==
  ASSUME TypeOK, \/ UNCHANGED <<delivered, events, starting>>
                 \/ delivered' = delivered /\ (starting' \/ events' = <<>>)
  PROVE  \A e : Copies(e)' \subseteq Copies(e)
<1>1. CASE UNCHANGED <<delivered, events, starting>>
  BY <1>1 DEF Copies, Handed
<1>2. CASE delivered' = delivered /\ (starting' \/ events' = <<>>)
  <2>1. Handed' = delivered
    BY <1>2, HandedFacts DEF Handed
  <2>2. \A i \in DOMAIN delivered : i \in DOMAIN Handed /\ Handed[i] = delivered[i]
    BY HandedFacts
  <2> QED
    BY <2>1, <2>2 DEF Copies
<1> QED
  BY <1>1, <1>2

(* No record is known that is not in its file.                             *)
LEMMA BehindStep ==
  DupInv /\ [Next]_vars => (\A f \in File : Behind(f, size[f]))'
<1> SUFFICES ASSUME DupInv, [Next]_vars PROVE (\A f \in File : Behind(f, size[f]))'
  OBVIOUS
<1> USE DEF envVars, loopVars, fileVars, dataVars
<1>1. \A f \in File : Behind(f, size[f])
  BY DEF DupInv
<1>2. ASSUME Seen' \subseteq Seen, UNCHANGED size
      PROVE  (\A f \in File : Behind(f, size[f]))'
  BY <1>1, <1>2 DEF Behind
<1>3. ASSUME NEW f \in File, UNCHANGED size,
             \A g \in File, k \in Nat :
                <<g, k>> \in Seen' => <<g, k>> \in Seen \/ (g = f /\ k <= size[f] \div Piece)
      PROVE  (\A g \in File : Behind(g, size[g]))'
  BY <1>1, <1>3 DEF Behind
<1>4. ASSUME UNCHANGED <<events, delivered, skipped>> PROVE Seen' = Seen
  BY <1>4 DEF Seen, Delivered, InMemory
<1>5. Tick \/ Start \/ EndScan \/ EndSeek \/ CheckFile \/ UNCHANGED vars
        \/ (\E anyway \in BOOLEAN : ExecuteStep(anyway)) \/ (\E f \in File : AddFile(f))
      => UNCHANGED <<events, delivered, skipped, size>>
  BY DEF Tick, Start, EndScan, EndSeek, CheckFile, ExecuteStep, AddFile, vars
<1>6. Die => Seen' \subseteq Seen
  BY DEF Die, Seen, Delivered, InMemory
<1>7. Crash \/ (\E f \in File : ReadBOM(f)) => Die /\ UNCHANGED size
  BY DEF Crash, ReadBOM
<1>8. EndRead => Seen' \subseteq Seen /\ UNCHANGED size
  <2>1. EndRead /\ starting => Seen' \subseteq Seen
    BY DEF EndRead, Seen, Delivered, InMemory
  <2>2. EndRead /\ ~starting => Seen' \subseteq Seen
    BY DEF EndRead, Seen, Delivered, InMemory
  <2> QED
    BY <2>1, <2>2 DEF EndRead
<1>9. ClearEvents => Seen' \subseteq Seen /\ UNCHANGED size
  <2> SUFFICES ASSUME ClearEvents PROVE Seen' \subseteq Seen
    BY DEF ClearEvents
  <2>1. /\ delivered \in Seq(Event) /\ events \in Seq(Event) /\ skipped' = skipped
        /\ delivered' = delivered \o events /\ events' = <<>>
    BY DupTypes DEF ClearEvents
  <2>2. \A i \in DOMAIN delivered' :
           \/ i \in DOMAIN delivered /\ delivered'[i] = delivered[i]
           \/ i - Len(delivered) \in DOMAIN events /\ delivered'[i] = events[i - Len(delivered)]
    BY <2>1
  <2>3. Delivered' \subseteq Delivered \cup InMemory /\ InMemory' = {}
    BY <2>1, <2>2 DEF Delivered, InMemory
  <2> QED
    BY <2>1, <2>3 DEF Seen
<1>10. ASSUME NEW f \in File, Write(f) PROVE (\A g \in File : Behind(g, size[g]))'
  <2>1. /\ Seen' = Seen /\ size' = [size EXCEPT ![f] = @ + 1]
    BY <1>4, <1>10 DEF Write
  <2>2. \A g \in File : /\ size[g] \in Int /\ size'[g] \in Int /\ size[g] <= size'[g]
    BY <2>1, DupTypes
  <2>3. \A g \in File : /\ size[g] \div Piece <= size'[g] \div Piece
                        /\ size[g] \div Piece \in Int /\ size'[g] \div Piece \in Int
    BY <2>2, DivisionMonotone, Division DEF Piece
  <2> QED
    BY <1>1, <2>1, <2>3 DEF Behind
<1>11. ASSUME NEW f \in File, Seek(f) PROVE (\A g \in File : Behind(g, size[g]))'
  <2>1. size[f] > 0 /\ size[f] \in Int /\ UNCHANGED <<size, events, delivered>>
    BY <1>11, DupTypes DEF Seek, DupInv, LetGoInv, TypeOK
  <2>2. \/ skipped' = skipped
        \/ skipped' \subseteq skipped \cup Records(f, StartPosition(size[f]))
    <3>1. \/ skipped' = skipped
          \/ /\ pos' = [pos EXCEPT ![f] = StartPosition(size[f])]
             /\ skipped' = skipped \cup (Records(f, pos'[f]) \ Delivered)
      BY <1>11 DEF Seek
    <3> QED
      BY <3>1, DupTypes
  <2>3. Seen' \subseteq Seen \cup Records(f, StartPosition(size[f]))
    BY <2>1, <2>2 DEF Seen, Delivered, InMemory
  <2>4. \A g \in File, k \in Nat : <<g, k>> \in Records(f, StartPosition(size[f]))
                          => g = f /\ k <= size[f] \div Piece
    BY <2>1, StartNotBeyond, Division DEF Records, Piece
  <2> QED
    BY <1>3, <2>1, <2>3, <2>4
<1>12. ASSUME NEW f \in File, ReadFile(f) PROVE (\A g \in File : Behind(g, size[g]))'
  <2>1. UNCHANGED <<size, delivered, skipped>>
    BY <1>12 DEF ReadFile
  <2>2. CASE UNCHANGED events
    BY <1>2, <1>4, <2>1, <2>2
  <2>3. CASE failures' = failures
    <3>1. /\ Seen' = Seen \cup GainedEvents(f)
          /\ \A e \in GainedEvents(f) :
                \E k \in Nat : e = <<f, k>> /\ k <= size[f] \div Piece
      BY <1>12, <2>3, ReadYields, DupTypes
    <3> QED
      BY <1>3, <2>1, <3>1
  <2> QED
    BY <1>12, <2>2, <2>3 DEF ReadFile
<1> QED
  BY <1>2, <1>4, <1>5, <1>6, <1>7, <1>8, <1>9, <1>10, <1>11, <1>12 DEF Next, Watcher

(* Init is where it says it is, and no file is visited that awaits         *)
(* deletion.                                                               *)
LEMMA ModesStep == DupInv /\ [Next]_vars => Modes'
<1> SUFFICES ASSUME DupInv, [Next]_vars PROVE Modes'
  OBVIOUS
<1> USE DEF envVars, loopVars, fileVars, dataVars
<1>1. Modes /\ (pc \notin {"read", "check"} => stale = {})
  BY DEF DupInv, LetGoInv
<1>2. Tick \/ (\E f \in File : Write(f)) \/ UNCHANGED vars => Modes'
  BY <1>1 DEF Tick, Write, vars, Modes
<1>3. Crash \/ (\E f \in File : ReadBOM(f)) => Modes'
  BY DEF Crash, ReadBOM, Die, Modes
<1>4. Start \/ EndScan \/ EndSeek => Modes'
  BY <1>1 DEF Start, EndScan, EndSeek, BeginScan, BeginRead, Modes
<1>5. ASSUME NEW anyway \in BOOLEAN, ExecuteStep(anyway) PROVE Modes'
  BY <1>1, <1>5 DEF ExecuteStep, BeginScan, BeginRead, Modes
<1>6. ASSUME NEW f \in File, AddFile(f) \/ Seek(f) PROVE Modes'
  BY <1>1, <1>6 DEF AddFile, Seek, Modes
<1>7. ASSUME NEW f \in File, ReadFile(f) PROVE Modes'
  BY <1>1, <1>7 DEF ReadFile, Modes
<1>8. CASE CheckFile
  BY <1>1, <1>8 DEF CheckFile, Modes
<1>9. CASE EndRead \/ ClearEvents
  BY <1>1, <1>9 DEF EndRead, ClearEvents, Modes
<1> QED
  BY <1>2, <1>3, <1>4, <1>5, <1>6, <1>7, <1>8, <1>9 DEF Next, Watcher

(* No step but a reading of the file itself, and a failure, makes a record *)
(* unsafe that was handed over.                                            *)
LEMMA SafeStep ==
  ASSUME DupInv, [Next]_vars, failures' = failures, \A g \in File : ~ReadFile(g),
         NEW f \in File, NEW k \in Nat \ {0}, k <= size[f] \div Piece, Safe(f, k)
  PROVE  Safe(f, k)'
<1> USE DEF envVars, loopVars, fileVars, dataVars
<1>1. Modes /\ (pc \notin {"read", "check"} => stale = {}) /\ curTime <= now
  BY DEF DupInv, LetGoInv
<1>2. ASSUME now' \in Nat, now' >= now PROVE now > Closes(f) => (now > Closes(f))'
  BY <1>2, DupTypes, Clocks DEF Closes
<1>3. ASSUME Tick \/ (\E g \in File : Write(g)) \/ UNCHANGED vars PROVE Safe(f, k)'
  <2>1. /\ now' \in Nat /\ now' >= now
        /\ UNCHANGED <<watched, pos, stale, curTime, pc, starting, todo>>
    BY <1>3, DupTypes DEF Tick, Write, vars
  <2> QED
    BY <1>2, <2>1 DEF Safe, Settled, Closes
<1>4. ASSUME Die PROVE Safe(f, k)'
  BY <1>4 DEF Die, Safe
<1>5. ASSUME Start PROVE Safe(f, k)'
  <2>1. watched' = {} /\ starting' = TRUE /\ pc' = "scan" /\ todo' = Exists
    BY <1>1, <1>5 DEF Start, BeginScan, Modes
  <2>2. f \in Exists
    <3>1. CASE size[f] = -1
      <4>1. size[f] \div Piece < 0
        BY <3>1, Division DEF Piece
      <4> QED
        BY <4>1, Division, <3>1 DEF Piece
    <3> QED
      BY <3>1, DupTypes, BoundAssumption DEF Exists, Position, Piece
  <2> QED
    BY <2>1, <2>2 DEF Safe
<1>6. ASSUME EndScan \/ EndSeek \/ (\E anyway \in BOOLEAN : ExecuteStep(anyway))
      PROVE  Safe(f, k)'
  <2>1. /\ UNCHANGED <<now, watched, pos, stale, starting>> /\ stale = {}
        /\ pc # "down" /\ (pc = "scan" => todo = {})
    BY <1>1, <1>6 DEF EndScan, EndSeek, ExecuteStep
  <2>2. f \in watched => (Settled(f)' => Settled(f))
    <3>1. CASE EndScan
      BY <3>1 DEF EndScan, BeginRead, Settled
    <3>2. CASE EndSeek
      BY <3>2 DEF EndSeek, BeginRead, Settled
    <3>3. ASSUME NEW anyway \in BOOLEAN, ExecuteStep(anyway)
          PROVE  f \in watched => (Settled(f)' => Settled(f))
      BY <1>1, <3>3 DEF ExecuteStep, Modes, Settled
    <3> QED
      BY <1>6, <3>1, <3>2, <3>3
  <2> QED
    BY <2>1, <2>2 DEF Safe, Closes
<1>7. ASSUME NEW g \in File, AddFile(g) PROVE Safe(f, k)'
  <2>1. /\ UNCHANGED <<now, starting, pc, stale>> /\ pc = "scan" /\ stale = {}
        /\ todo' = todo \ {g}
    BY <1>1, <1>7 DEF AddFile
  <2>2. \/ UNCHANGED <<watched, pos>>
           /\ (g \in watched \/ ~(size[g] > 0 /\ now <= Closes(g)))
        \/ /\ g \notin watched /\ now <= Closes(g)
           /\ watched' = watched \cup {g} /\ pos' = [pos EXCEPT ![g] = 0]
    <3>1. ASSUME NEW ok \in BOOLEAN, Opening(ok) PROVE ok
      BY <3>1, DupTypes DEF Opening
    <3> QED
      BY <1>7, <3>1 DEF AddFile, IsWorkingFile
  <2>3. CASE f # g
    BY <2>1, <2>2, <2>3, DupTypes DEF Safe, Settled, Closes
  <2>4. CASE f = g /\ UNCHANGED <<watched, pos>> /\ f \in watched
    BY <2>1, <2>4 DEF Safe, Settled
  <2>5. CASE f = g /\ UNCHANGED <<watched, pos>> /\ f \notin watched
    <3>1. CASE now > Closes(f)
      BY <2>1, <2>5, <3>1 DEF Safe, Closes
    <3>2. CASE size[f] <= 0
      <4>1. size[f] \div Piece <= 0 \div Piece /\ 0 \div Piece = 0
        BY <3>2, DupTypes, DivisionMonotone, SMT DEF Piece
      <4> QED
        BY <4>1, DupTypes, Division DEF Piece
    <3> QED
      BY <2>2, <2>5, <3>1, <3>2, DupTypes, Clocks
  <2>6. CASE f = g /\ g \notin watched /\ watched' = watched \cup {g} /\ now <= Closes(g)
    <3>1. starting
      BY <2>1, <2>6, DupTypes, Clocks DEF Safe
    <3> QED
      BY <2>1, <2>6, <3>1 DEF Safe, Settled
  <2> QED
    BY <2>2, <2>3, <2>4, <2>5, <2>6
<1>8. ASSUME NEW g \in File, Seek(g) PROVE Safe(f, k)'
  <2>1. /\ UNCHANGED <<now, watched, stale, starting, pc>> /\ pc = "seek"
        /\ starting /\ stale = {}
    BY <1>1, <1>8 DEF Seek, Modes
  <2> QED
    BY <2>1 DEF Safe, Settled, Closes
<1>9. ASSUME CheckFile PROVE Safe(f, k)'
  <2>1. /\ UNCHANGED <<now, watched, pos, starting, curTime, todo>>
        /\ pc = "check" /\ pc' = "read"
    BY <1>9 DEF CheckFile
  <2>2. stale' = stale \/ (stale' = stale \cup {current} /\ curTime > Closes(current))
    <3>1. ASSUME NEW ok \in BOOLEAN, Opening(ok) PROVE ok
      BY <3>1, DupTypes DEF Opening
    <3>2. current \in watched /\ size[current] > 0
      BY <2>1, DupTypes DEF Fresh, DupInv, LetGoInv
    <3> QED
      BY <1>9, <3>1, <3>2, DupTypes, Clocks DEF CheckFile, IsWorkingFile
  <2> QED
    BY <2>1, <2>2 DEF Safe, Settled, Closes
<1>10. ASSUME EndRead PROVE Safe(f, k)'
  <2>1. /\ UNCHANGED <<now, pos, curTime>> /\ pc = "read" /\ todo = {}
        /\ watched' = watched \ stale /\ stale' = {} /\ starting' = FALSE
    BY <1>10 DEF EndRead
  <2>2. f \in stale => f \in watched
    BY DupTypes
  <2>3. curTime > Closes(f) => now > Closes(f)
    BY <1>1, DupTypes, Clocks
  <2> QED
    BY <2>1, <2>2, <2>3 DEF Safe, Settled, Closes
<1>11. ASSUME ClearEvents PROVE Safe(f, k)'
  <2>1. /\ UNCHANGED <<now, watched, pos, stale, starting, curTime>>
        /\ pc = "ready" /\ ~starting
    BY <1>1, <1>11 DEF ClearEvents, Modes
  <2> QED
    BY <2>1 DEF Safe, Settled, Closes
<1> QED
  BY <1>3, <1>4, <1>5, <1>6, <1>7, <1>8, <1>9, <1>10, <1>11
  DEF Next, Watcher, Crash, ReadBOM

(* A reading outside of Init adds at most one copy of a record, and of     *)
(* those it completes only.                                                *)
LEMMA ReadCopies ==
  ASSUME TypeOK, NEW g \in File, ReadFile(g), failures' = failures, ~starting,
         NEW f \in File, NEW k \in Nat
  PROVE  /\ \E i : Copies(<<f, k>>)' \subseteq Copies(<<f, k>>) \cup {i}
         /\ <<f, k>> \notin GainedEvents(g) => Copies(<<f, k>>)' \subseteq Copies(<<f, k>>)
<1> DEFINE s == Gained(g)
           a == pos[g] \div Piece
<1>1. /\ Handed \in Seq(Event) /\ Handed' = Handed \o s /\ s \in Seq(Event)
      /\ \A i \in DOMAIN s : s[i] = <<g, a + i>>
  BY ReadHands, ReadYields
<1>2. \A i \in DOMAIN s : s[i] \in GainedEvents(g)
  BY DEF GainedEvents
<1>3. a \in Int
  BY Positions DEF TypeOK, Position
<1> HIDE DEF s, a
<1>4. \A i \in DOMAIN Handed' :
         \/ i \in DOMAIN Handed /\ Handed'[i] = Handed[i]
         \/ /\ i - Len(Handed) \in DOMAIN s /\ Handed'[i] = s[i - Len(Handed)]
            /\ i \in Int
  BY <1>1
<1>5. <<f, k>> \notin GainedEvents(g) => Copies(<<f, k>>)' \subseteq Copies(<<f, k>>)
  BY <1>2, <1>4 DEF Copies
<1>6. Copies(<<f, k>>)' \subseteq Copies(<<f, k>>) \cup {Len(Handed) + (k - a)}
  <2> SUFFICES ASSUME NEW i \in DOMAIN Handed', Handed'[i] = <<f, k>>,
                      i \notin Copies(<<f, k>>)
               PROVE  i = Len(Handed) + (k - a)
    BY DEF Copies
  <2>1. i \in Int /\ i - Len(Handed) \in DOMAIN s /\ <<f, k>> = s[i - Len(Handed)]
    BY <1>4 DEF Copies
  <2>2. <<f, k>> = <<g, a + (i - Len(Handed))>>
    BY <1>1, <2>1
  <2>3. k = a + (i - Len(Handed))
    BY <2>2
  <2> QED
    BY <1>1, <1>3, <2>1, <2>3
<1> QED
  BY <1>5, <1>6

(* A copy that a reading adds is the first, or was paid for.               *)
LEMMA ReadPaid ==
  ASSUME DupInv, NEW g \in File, ReadFile(g), NEW f \in File, NEW k \in Nat \ {0}
  PROVE  Paid(f, k)'
<1>1. /\ UNCHANGED <<now, size, delivered, starting, watched, stale, curTime>>
      /\ pc = "read" /\ pc' = "check" /\ g \in todo /\ todo' = todo \ {g}
      /\ g \in watched /\ g \notin stale
  BY DupTypes DEF ReadFile, envVars, TypeOK, DupInv, Modes
<1>2. \/ failures' = failures + 1 /\ UNCHANGED <<pos, events>>
      \/ failures' = failures
  BY DEF ReadFile, Opening
<1>3. CASE failures' = failures + 1 /\ UNCHANGED <<pos, events>>
  <2>1. Copies(<<f, k>>)' \subseteq Copies(<<f, k>>)
    BY <1>1, <1>3, FewerCopies, DupTypes
  <2> QED
    BY <1>3, <2>1, PaidStep
<1>4. CASE failures' = failures
  <2>1. pos' = [pos EXCEPT ![g] = size[g]]
    BY <1>4, ReadYields, DupTypes
  <2>2. ASSUME k <= size[f] \div Piece, f = g PROVE Safe(f, k)'
    <3>1. pos'[f] = size[f]
      BY <2>1, <2>2, DupTypes
    <3> QED
      BY <1>1, <2>2, <3>1 DEF Safe
  <2>3. ASSUME f # g, Safe(f, k) PROVE Safe(f, k)'
    <3>1. pos'[f] = pos[f] /\ (Settled(f)' => Settled(f))
      BY <1>1, <2>1, <2>3, DupTypes DEF Settled
    <3> QED
      BY <1>1, <2>3, <3>1 DEF Safe, Closes
  <2>4. CASE starting \/ <<f, k>> \notin GainedEvents(g)
    <3>1. Copies(<<f, k>>)' \subseteq Copies(<<f, k>>)
      <4>1. CASE starting
        BY <1>1, <4>1, FewerCopies, DupTypes
      <4>2. CASE ~starting
        BY <1>4, <2>4, <4>2, ReadCopies, DupTypes
      <4> QED
        BY <4>1, <4>2
    <3> QED
      BY <1>4, <2>2, <2>3, <3>1, PaidStep
  <2>5. CASE ~starting /\ <<f, k>> \in GainedEvents(g)
    <3>1. f = g /\ k > pos[f] \div Piece /\ k <= size[f] \div Piece
      BY <1>4, <2>5, ReadYields, DupTypes
    <3>2. ~Safe(f, k)
      <4>1. pos[f] \div Piece \in Int
        BY DupTypes, Positions
      <4> QED
        BY <1>1, <2>5, <3>1, <4>1 DEF Safe, Settled
    <3>3. Cardinality(Copies(<<f, k>>)) <= failures
      BY <3>2 DEF DupInv, Paid
    <3>4. PICK i : Copies(<<f, k>>)' \subseteq Copies(<<f, k>>) \cup {i}
      BY <1>4, <2>5, ReadCopies, DupTypes
    <3>5. Cardinality(Copies(<<f, k>>)') <= failures + 1
      <4> DEFINE c == Copies(<<f, k>>)
                 d == c'
                 e == c \cup {i}
      <4>1. IsFiniteSet(c) /\ Cardinality(c) \in Nat /\ Cardinality(c) <= failures
        BY <3>3, CopiesFacts
      <4>2. d \subseteq e
        BY <3>4
      <4>3. failures \in Nat
        BY DupTypes
      <4> HIDE DEF c, d
      <4>4. IsFiniteSet(e) /\ Cardinality(e) <= failures + 1 /\ Cardinality(e) \in Nat
        <5>1. /\ IsFiniteSet(e)
              /\ Cardinality(e) = Cardinality(c) \/ Cardinality(e) = Cardinality(c) + 1
          BY <4>1, FS_AddElement
        <5> HIDE DEF e
        <5> QED
          BY <4>1, <4>3, <5>1
      <4>5. Cardinality(d) <= Cardinality(e) /\ Cardinality(d) \in Nat
        BY <4>2, <4>4, FS_Subset, FS_CardinalityType
      <4>6. Cardinality(d) <= failures + 1
        BY <4>3, <4>4, <4>5
      <4> QED
        BY <4>6 DEF d, c
    <3>6. Safe(f, k)'
      BY <2>2, <3>1
    <3> QED
      BY <1>4, <3>5, <3>6 DEF Paid
  <2> QED
    BY <2>4, <2>5
<1> QED
  BY <1>2, <1>3, <1>4

(* No other step adds a copy, and a failure is the only other change of    *)
(* the account.                                                            *)
LEMMA OtherPaid ==
  ASSUME DupInv, [Next]_vars, \A g \in File : ~ReadFile(g),
         NEW f \in File, NEW k \in Nat \ {0}
  PROVE  Paid(f, k)'
<1> USE DEF envVars, loopVars, fileVars, dataVars
<1>1. failures' = failures \/ failures' = failures + 1
  BY DEF Next, Watcher, Start, EndScan, EndSeek, CheckFile, EndRead, ClearEvents,
         AddFile, Seek, ReadBOM, Opening, ExecuteStep, Crash, Tick, Write, vars
<1>2. Copies(<<f, k>>)' \subseteq Copies(<<f, k>>)
  <2>1. CASE ClearEvents
    <3>1. ~starting /\ UNCHANGED starting /\ delivered' = delivered \o events /\ events' = <<>>
      BY <2>1 DEF ClearEvents, DupInv, Modes
    <3>2. delivered \o events \in Seq(Event)
      BY DupTypes
    <3>3. Handed' = (delivered \o events) \o <<>> /\ Handed = delivered \o events
      BY <3>1 DEF Handed
    <3>4. Handed' = Handed
      BY <3>2, <3>3
    <3> QED
      BY <3>4 DEF Copies
  <2>2. CASE ~ClearEvents
    <3>1. \/ UNCHANGED <<delivered, events, starting>>
          \/ delivered' = delivered /\ (starting' \/ events' = <<>>)
      <4>1. Tick \/ EndScan \/ EndSeek \/ CheckFile \/ UNCHANGED vars
              \/ (\E anyway \in BOOLEAN : ExecuteStep(anyway))
              \/ (\E g \in File : AddFile(g) \/ Seek(g) \/ Write(g))
            => UNCHANGED <<delivered, events, starting>>
        BY DEF Tick, EndScan, EndSeek, CheckFile, ExecuteStep, AddFile, Seek, Write, vars
      <4>2. Start \/ Crash \/ (\E g \in File : ReadBOM(g))
            => delivered' = delivered /\ (starting' \/ events' = <<>>)
        BY DEF Start, Crash, ReadBOM, Die
      <4>3. EndRead => \/ UNCHANGED <<delivered, events, starting>>
                       \/ delivered' = delivered /\ events' = <<>>
        BY DEF EndRead, TypeOK, DupInv, LetGoInv
      <4> QED
        BY <2>2, <4>1, <4>2, <4>3 DEF Next, Watcher
    <3> QED
      BY <3>1, FewerCopies, DupTypes
  <2> QED
    BY <2>1, <2>2
<1>3. CASE failures' = failures
  BY <1>2, <1>3, SafeStep, PaidStep
<1>4. CASE failures' = failures + 1
  BY <1>2, <1>4, PaidStep
<1> QED
  BY <1>1, <1>3, <1>4

(* A record is handed to the worker once, and once more for every open     *)
(* that failed, at most, through all crashes and restarts.                 *)
THEOREM DuplicatesAreReopeningsHolds == Spec => []DuplicatesAreReopenings
<1>1. Init => DupInv
  <2> SUFFICES ASSUME Init PROVE DupInv
    OBVIOUS
  <2>1. LetGoInv
    BY Initial, BoundAssumption DEF IInv, Init, LetGoInv
  <2>2. /\ delivered = <<>> /\ events = <<>> /\ skipped = {} /\ pc = "down"
        /\ starting = FALSE /\ watched = {} /\ failures = 0
    BY DEF Init
  <2>3. Seen = {} /\ Handed = <<>>
    BY <2>2 DEF Seen, Delivered, InMemory, Handed
  <2>4. \A e : Copies(e) = {}
    BY <2>3 DEF Copies
  <2>5. \A e : Cardinality(Copies(e)) = 0
    BY <2>4, FS_EmptySet
  <2>6. Modes
    BY <2>2 DEF Modes
  <2> QED
    BY <2>1, <2>2, <2>3, <2>5, <2>6 DEF DupInv, Behind, Paid
<1>2. DupInv /\ [Next]_vars => DupInv'
  <2> SUFFICES ASSUME DupInv, [Next]_vars PROVE DupInv'
    OBVIOUS
  <2>1. LetGoInv'
    BY LetGoStep DEF DupInv
  <2>2. ASSUME NEW f \in File, NEW k \in Nat \ {0} PROVE Paid(f, k)'
    BY ReadPaid, OtherPaid
  <2> QED
    BY <2>1, <2>2, ModesStep, BehindStep DEF DupInv
<1>3. DupInv => DuplicatesAreReopenings
  <2> SUFFICES ASSUME DupInv, NEW e \in Event
               PROVE  Cardinality({i \in DOMAIN Handed : Handed[i] = e}) <= 1 + failures
    BY DEF DuplicatesAreReopenings
  <2>1. PICK f \in File, k \in Nat \ {0} : e = <<f, k>>
    BY BoundAssumption DEF Event
  <2>2. Cardinality(Copies(e)) <= failures + 1
    BY <2>1 DEF DupInv, Paid
  <2>3. Cardinality(Copies(e)) \in Nat /\ failures \in Nat
    BY <2>1, CopiesFacts, DupTypes
  <2>4. Cardinality(Copies(e)) <= 1 + failures
    BY <2>2, <2>3
  <2> QED
    BY <2>4 DEF Copies
<1> QED
  BY <1>1, <1>2, <1>3, PTL DEF Spec
=============================================================================
