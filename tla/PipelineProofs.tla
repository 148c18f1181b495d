--------------------------- MODULE PipelineProofs ---------------------------
(***************************************************************************)
(* Proofs about Pipeline, for any files, hours, periods and kinds of       *)
(* events, and minutes of any length: the monitoring loop with the         *)
(* directory watcher in it implements the loop as Worker.tla has it; and,  *)
(* with what is proved of that, what is in the log by the end of a minute  *)
(* is in the report of the minute when no iteration is slow.               *)
(***************************************************************************)
EXTENDS Pipeline, DirectoryWatcherProofs

-----------------------------------------------------------------------------
(* Ticks, minutes and hours. *)

Positive == Nat \ {0}

LEMMA Product ==
  ASSUME NEW n \in Nat, NEW u \in Positive
  PROVE  n * u \in Nat /\ n <= n * u
BY SMT DEF Positive

LEMMA Times ==
  ASSUME NEW n \in Int, NEW b \in Int, NEW u \in Positive, n <= b
  PROVE  n * u <= b * u
BY SMT DEF Positive

LEMMA Next1 ==
  ASSUME NEW n \in Int, NEW u \in Positive
  PROVE  (n + 1) * u = n * u + u /\ n * u \in Int
BY SMT DEF Positive

(* A number has one quotient and one remainder.                            *)
LEMMA Quotient ==
  ASSUME NEW u \in Positive, NEW n \in Nat, NEW q \in Int, NEW r \in Nat,
         r < u, n = q * u + r
  PROVE  n \div u = q /\ n % u = r
<1> DEFINE d == n \div u
           m == n % u
<1>1. d \in Int /\ m \in Nat /\ m < u /\ n = d * u + m
  BY SMT DEF Positive
<1> HIDE DEF d, m
<1>2. q * u \in Int /\ d * u \in Int
  BY <1>1, Next1
<1>3. ASSUME d + 1 <= q PROVE FALSE
  <2>1. (d + 1) * u <= q * u /\ (d + 1) * u = d * u + u
    BY <1>1, <1>3, Times, Next1
  <2> QED
    BY <1>1, <1>2, <2>1, SMT DEF Positive
<1>4. ASSUME q + 1 <= d PROVE FALSE
  <2>1. (q + 1) * u <= d * u /\ (q + 1) * u = q * u + u
    BY <1>1, <1>4, Times, Next1
  <2> QED
    BY <1>1, <1>2, <2>1, SMT DEF Positive
<1>5. d = q
  BY <1>1, <1>3, <1>4, SMT
<1> QED
  BY <1>1, <1>2, <1>5, SMT DEF d, m

LEMMA Split ==
  ASSUME NEW n \in Nat, NEW u \in Positive
  PROVE  /\ n \div u \in Nat /\ n % u \in Nat /\ n % u < u
         /\ n = (n \div u) * u + (n % u) /\ n \div u <= n
<1> DEFINE d == n \div u
           m == n % u
<1>1. d \in Int /\ m \in Nat /\ m < u /\ n = d * u + m
  BY SMT DEF Positive
<1> HIDE DEF d, m
<1>2. ASSUME d + 1 <= 0 PROVE FALSE
  <2>1. (d + 1) * u <= 0 * u /\ (d + 1) * u = d * u + u /\ 0 * u = 0
    BY <1>1, <1>2, Times, Next1, SMT DEF Positive
  <2> QED
    BY <1>1, <2>1, Next1, SMT DEF Positive
<1>3. d \in Nat
  BY <1>1, <1>2, SMT
<1> QED
  BY <1>1, <1>3, Product, SMT DEF d, m

LEMMA Monotone ==
  ASSUME NEW n \in Nat, NEW b \in Nat, NEW u \in Positive, n <= b
  PROVE  n \div u <= b \div u
<1> DEFINE d == n \div u
           e == b \div u
<1>1. d \in Nat /\ e \in Nat /\ d * u <= n /\ b < e * u + u
  BY Split, Product, SMT DEF Positive
<1> HIDE DEF d, e
<1>2. ASSUME e + 1 <= d PROVE FALSE
  <2>1. (e + 1) * u <= d * u /\ (e + 1) * u = e * u + u
    BY <1>1, <1>2, Times, Next1
  <2> QED
    BY <1>1, <2>1, Product, SMT DEF Positive
<1> QED
  BY <1>1, <1>2, SMT DEF d, e

-----------------------------------------------------------------------------
LEMMA Constants ==
  /\ SecPerMin \in Positive /\ Grace \in Nat /\ HourLen \in Positive
  /\ Extra = Grace /\ HourLen % SecPerMin = 0
  /\ MaxFailures = 0 /\ MaxTime \in Nat
BY CompositionAssumption, TimeAssumption, BoundAssumption DEF Positive

LEMMA ClockFacts ==
  ASSUME now \in Nat
  PROVE  /\ Clock.min \in Nat /\ Clock.sec \in Nat /\ Clock.sec < SecPerMin
         /\ now = Clock.min * SecPerMin + Clock.sec /\ Clock.min <= now
BY Constants, Split DEF Clock

(* The clock of the worker goes on by a second.                            *)
LEMMA ClockTicks ==
  ASSUME now \in Nat, now' = now + 1
  PROVE  \/ /\ Clock.sec + 1 < SecPerMin
            /\ Clock' = [min |-> Clock.min, sec |-> Clock.sec + 1]
         \/ /\ Clock.sec + 1 = SecPerMin
            /\ Clock' = [min |-> Clock.min + 1, sec |-> 0]
<1> DEFINE u == SecPerMin
           q == Clock.min
           r == Clock.sec
<1>1. q \in Nat /\ r \in Nat /\ r < u /\ now = q * u + r /\ u \in Positive
  BY ClockFacts, Constants
<1>2. q * u \in Nat
  BY <1>1, Product
<1>3. Clock' = [min |-> now' \div u, sec |-> now' % u]
  BY DEF Clock
<1> HIDE DEF q, r, u
<1>4. CASE r + 1 < u
  <2>1. now' = q * u + (r + 1) /\ now' \in Nat /\ r + 1 \in Nat
    BY <1>1, <1>2, SMT
  <2>2. now' \div u = q /\ now' % u = r + 1
    BY <1>1, <1>4, <2>1, Quotient, SMT
  <2> QED
    BY <1>3, <1>4, <2>2 DEF q, r, u
<1>5. CASE r + 1 = u
  <2>1. now' = (q + 1) * u + 0 /\ now' \in Nat /\ q + 1 \in Int
    BY <1>1, <1>2, <1>5, Next1, SMT
  <2>2. 0 < u
    BY <1>1, SMT DEF Positive
  <2>3. now' \div u = q + 1 /\ now' % u = 0
    BY <1>1, <2>1, <2>2, Quotient, SMT
  <2> QED
    BY <1>3, <1>5, <2>3 DEF q, r, u
<1> QED
  BY <1>1, <1>4, <1>5, SMT DEF Positive, q, r, u

(* The end of the grace period of minute m, in ticks.                      *)
GraceEnds(m) == (m + 1) * SecPerMin + Grace

LEMMA InGrace ==
  ASSUME now \in Nat, NEW m \in Nat, W!Leq(Clock, W!Deadline(m))
  PROVE  now <= GraceEnds(m)
<1>1. /\ Clock.min \in Nat /\ Clock.sec \in Nat /\ Clock.sec < SecPerMin
      /\ now = Clock.min * SecPerMin + Clock.sec
      /\ SecPerMin \in Positive /\ Grace \in Nat
  BY ClockFacts, Constants
<1>2. \/ Clock.min + 1 <= m + 1
      \/ Clock.min = m + 1 /\ Clock.sec <= Grace
  BY <1>1 DEF W!Leq, W!Deadline
<1>3. Clock.min * SecPerMin \in Nat /\ (m + 1) * SecPerMin \in Nat
  BY <1>1, Product
<1>4. CASE Clock.min + 1 <= m + 1
  <2>1. (Clock.min + 1) * SecPerMin <= (m + 1) * SecPerMin
        /\ (Clock.min + 1) * SecPerMin = Clock.min * SecPerMin + SecPerMin
    BY <1>1, <1>4, Times, Next1
  <2> QED
    BY <1>1, <1>3, <2>1, SMT DEF Positive, GraceEnds
<1>5. CASE Clock.min = m + 1 /\ Clock.sec <= Grace
  BY <1>1, <1>3, <1>5, SMT DEF GraceEnds
<1> QED
  BY <1>2, <1>4, <1>5

(* A minute that begins before g minutes are over ends by then.            *)
LEMMA WholeMinutes ==
  ASSUME NEW m \in Nat, NEW g \in Nat, NEW u \in Positive, m * u < g * u
  PROVE  (m + 1) * u <= g * u /\ (m + 1) * u \in Nat /\ g * u \in Nat
<1>1. m + 1 <= g
  <2>1. SUFFICES ASSUME g <= m PROVE FALSE
    BY SMT
  <2>2. g * u <= m * u
    BY <2>1, Times, SMT
  <2> QED
    BY <2>2, Product, SMT
<1>2. m + 1 \in Nat
  OBVIOUS
<1> QED
  BY <1>1, <1>2, Times, Product

LEMMA HoursInMinutes ==
  ASSUME NEW h \in Nat, NEW c \in Nat, NEW u \in Positive
  PROVE  h * c + c \in Nat /\ h * (c * u) + c * u = (h * c + c) * u
<1>1. h * c \in Nat
  BY SMT
<1>2. h * (c * u) = (h * c) * u
  BY Z3 DEF Positive
<1>3. \A a \in Nat : (a + c) * u = a * u + c * u
  BY Z3 DEF Positive
<1> QED
  BY <1>1, <1>2, <1>3

(* The grace period of a minute of the hour of f is over before f closes.  *)
LEMMA GraceBeforeClose ==
  ASSUME NEW f \in File, NEW m \in Nat, (m * SecPerMin) \div HourLen = HourOf[f]
  PROVE  GraceEnds(m) <= Closes(f)
<1> DEFINE u == SecPerMin
           h == HourOf[f]
           c == HourLen \div u
           a == m * u
           g == h * c + c
<1>1. /\ u \in Positive /\ HourLen \in Positive /\ h \in Nat /\ HourLen \in Nat
      /\ HourLen % u = 0 /\ Extra = Grace /\ Grace \in Nat
  BY Constants, FileAssumption, TimeAssumption
<1>2. c \in Nat /\ HourLen = c * u
  <2>1. c \in Nat /\ HourLen = c * u + (HourLen % u)
    BY <1>1, Split
  <2> QED
    BY <1>1, <2>1, Product, SMT
<1>3. a \in Nat
  BY <1>1, Product
<1>4. a < h * HourLen + HourLen /\ h * HourLen \in Nat
  <2>1. a = (a \div HourLen) * HourLen + (a % HourLen) /\ a % HourLen < HourLen
        /\ a % HourLen \in Nat /\ a \div HourLen = h
    BY <1>1, <1>3, Split
  <2> QED
    BY <1>1, <2>1, Product, SMT
<1> HIDE DEF c, h, u
<1>5. g \in Nat /\ h * HourLen + HourLen = g * u
  BY <1>1, <1>2, HoursInMinutes
<1> HIDE DEF g
<1>6. (m + 1) * u <= g * u /\ (m + 1) * u \in Nat /\ g * u \in Nat
  BY <1>1, <1>4, <1>5, WholeMinutes
<1>7. (m + 1) * u + Grace <= h * HourLen + HourLen + Extra
  BY <1>1, <1>4, <1>5, <1>6, SMT
<1> QED
  BY <1>7 DEF GraceEnds, Closes, h, u

-----------------------------------------------------------------------------
(* The watcher, as the pipeline runs it. *)

Base == IInv /\ OnceInv /\ failures = 0 /\ now <= MaxTime

(* Every step of the pipeline is one of the watcher, or leaves it alone.   *)
LEMMA WatcherSteps ==
  ASSUME PipelineNext, isNew \in BOOLEAN
  PROVE  [Next]_vars
<1>1. TimePasses => Tick
  BY DEF TimePasses
<1>2. CallWatcher => Start \/ \E anyway \in BOOLEAN : ExecuteStep(anyway)
  BY DEF CallWatcher
<1>3. \A f \in File : LogGrows(f) => Write(f)
  BY DEF LogGrows
<1>4. WatcherStep \/ WatcherReturns \/ Killed \/ DispatchEvents => Watcher
  BY DEF WatcherStep, WatcherReturns, Killed, DispatchEvents, Watcher
<1>5. \A f \in File : FileSeen(f) => Watcher
  BY DEF FileSeen, Watcher
<1>6. ThreadStep => UNCHANGED vars
  BY DEF ThreadStep
<1>7. Start \/ Watcher \/ Tick \/ (\E anyway \in BOOLEAN : ExecuteStep(anyway))
        \/ (\E f \in File : Write(f)) => Next
  BY DEF Next, Watcher
<1> QED
  BY <1>1, <1>2, <1>3, <1>4, <1>5, <1>6, <1>7 DEF PipelineNext

(* No open fails.                                                          *)
LEMMA NoFailure ==
  ASSUME failures = 0, [Next]_vars
  PROVE  failures' = 0
<1>1. \A ok \in BOOLEAN : Opening(ok) => failures' = 0
  BY Constants DEF Opening
<1>2. \A f \in File : AddFile(f) \/ Seek(f) \/ ReadFile(f) \/ ReadBOM(f) \/ Write(f)
        => failures' = failures \/ \E ok \in BOOLEAN : Opening(ok)
  BY DEF AddFile, Seek, ReadFile, ReadBOM, Write
<1>3. Start \/ EndScan \/ EndSeek \/ CheckFile \/ EndRead \/ ClearEvents \/ Crash
        \/ Tick \/ UNCHANGED vars \/ (\E anyway \in BOOLEAN : ExecuteStep(anyway))
        => failures' = failures \/ \E ok \in BOOLEAN : Opening(ok)
  BY DEF Start, EndScan, EndSeek, CheckFile, EndRead, ClearEvents, Crash, Tick,
         vars, ExecuteStep
<1> QED
  BY <1>1, <1>2, <1>3 DEF Next, Watcher

LEMMA ClockBound ==
  ASSUME now \in Nat, now <= MaxTime, [Next]_vars
  PROVE  now' \in Nat /\ now' <= MaxTime /\ (now' = now \/ now' = now + 1)
<1>1. Tick => now' = now + 1 /\ now < MaxTime
  BY DEF Tick
<1>2. \A f \in File : AddFile(f) \/ Seek(f) \/ ReadFile(f) \/ ReadBOM(f) \/ Write(f)
        => now' = now
  BY DEF AddFile, Seek, ReadFile, ReadBOM, Write, envVars
<1>3. Start \/ EndScan \/ EndSeek \/ CheckFile \/ EndRead \/ ClearEvents \/ Crash
        \/ UNCHANGED vars \/ (\E anyway \in BOOLEAN : ExecuteStep(anyway))
        => now' = now
  BY DEF Start, EndScan, EndSeek, CheckFile, EndRead, ClearEvents, Crash,
         vars, ExecuteStep, envVars
<1>4. now' = now \/ (now' = now + 1 /\ now < MaxTime)
  BY <1>1, <1>2, <1>3 DEF Next, Watcher
<1> QED
  BY <1>4, Constants

LEMMA BaseStep == Base /\ [Next]_vars => Base'
<1> SUFFICES ASSUME Base, [Next]_vars PROVE Base'
  OBVIOUS
<1>1. IInv'
  BY TypeStep, PassedStep DEF IInv, Base
<1>2. now' <= MaxTime
  BY ClockBound DEF Base, IInv, TypeOK
<1> QED
  BY <1>1, <1>2, OnceStep, NoFailure DEF Base

(* What the worker takes is delivered.                                     *)
LEMMA Taken ==
  ASSUME TypeOK, ClearEvents
  PROVE  Delivered' = Delivered \cup InMemory /\ InMemory' = {} /\ skipped' = skipped
<1>1. /\ delivered \in Seq(Event) /\ events \in Seq(Event)
      /\ delivered' = delivered \o events /\ events' = <<>> /\ skipped' = skipped
  BY DEF ClearEvents, TypeOK
<1>2. /\ \A i \in DOMAIN delivered' :
           \/ i \in DOMAIN delivered /\ delivered'[i] = delivered[i]
           \/ i - Len(delivered) \in DOMAIN events
              /\ delivered'[i] = events[i - Len(delivered)]
      /\ \A i \in DOMAIN delivered : i \in DOMAIN delivered' /\ delivered'[i] = delivered[i]
      /\ \A i \in DOMAIN events : Len(delivered) + i \in DOMAIN delivered'
                                  /\ delivered'[Len(delivered) + i] = events[i]
  BY <1>1
<1>3. \A i \in DOMAIN delivered' : delivered'[i] \in Delivered \cup InMemory
  BY <1>2, Zenon DEF Delivered, InMemory
<1>4. Delivered \cup InMemory \subseteq Delivered'
  BY <1>2 DEF Delivered, InMemory
<1>5. Delivered' \subseteq Delivered \cup InMemory
  BY <1>3 DEF Delivered
<1>6. InMemory' = {}
  BY <1>1 DEF InMemory
<1> QED
  BY <1>1, <1>4, <1>5, <1>6

(* What was read or given up stays so, and what comes to it is of a file   *)
(* that is watched.                                                        *)
LEMMA SeenGrows ==
  ASSUME Base, [Next]_vars
  PROVE  Seen \subseteq Seen' /\ \A e \in Seen' : e \in Seen \/ e[1] \in watched
<1>1. ASSUME UNCHANGED dataVars
      PROVE  Seen \subseteq Seen' /\ \A e \in Seen' : e \in Seen \/ e[1] \in watched
  BY <1>1 DEF dataVars, Seen, Delivered, InMemory
<1>2. ASSUME Die
      PROVE  Seen \subseteq Seen' /\ \A e \in Seen' : e \in Seen \/ e[1] \in watched
  BY <1>2 DEF Die, Seen, Delivered, InMemory
<1>3. ASSUME NEW f \in File, Seek(f)
      PROVE  Seen \subseteq Seen' /\ \A e \in Seen' : e \in Seen \/ e[1] \in watched
  <2>1. f \in watched /\ UNCHANGED <<events, delivered>>
    BY <1>3 DEF Seek, Base, IInv, TypeOK
  <2>2. skipped' = skipped \/ skipped' = skipped \cup (Records(f, pos'[f]) \ Delivered)
    BY <1>3 DEF Seek
  <2>3. \A e \in Records(f, pos'[f]) : e[1] = f
    BY DEF Records
  <2> QED
    BY <2>1, <2>2, <2>3 DEF Seen, Delivered, InMemory
<1>4. ASSUME NEW f \in File, ReadFile(f)
      PROVE  Seen \subseteq Seen' /\ \A e \in Seen' : e \in Seen \/ e[1] \in watched
  <2>1. f \in watched /\ failures' = failures
    BY <1>4, NoFailure DEF ReadFile, Base, IInv, TypeOK
  <2>2. /\ Seen' = Seen \cup GainedEvents(f)
        /\ \A e \in GainedEvents(f) : \E k \in Nat : e = <<f, k>>
    BY <1>4, <2>1, ReadYields DEF Base, IInv
  <2> QED
    BY <2>1, <2>2
<1>5. CASE EndRead
  BY <1>5 DEF EndRead, Seen, Delivered, InMemory
<1>6. CASE ClearEvents
  BY <1>6, Taken DEF Base, IInv, Seen
<1>7. Tick \/ Start \/ EndScan \/ EndSeek \/ CheckFile
        \/ (\E f \in File : Write(f) \/ AddFile(f))
        \/ (\E anyway \in BOOLEAN : ExecuteStep(anyway)) \/ UNCHANGED vars
      => UNCHANGED dataVars
  BY DEF Tick, Start, EndScan, EndSeek, CheckFile, Write, AddFile, ExecuteStep, vars
<1>8. Crash \/ (\E f \in File : ReadBOM(f)) => Die
  BY DEF Crash, ReadBOM
<1> QED
  BY <1>1, <1>2, <1>3, <1>4, <1>5, <1>6, <1>7, <1>8 DEF Next, Watcher

\* The BOM is ahead of a reader only while Init is at work.
BOMInInit ==
    \A f \in opened : pos[f] = BeforeBOM =>
       \/ pc = "down"
       \/ starting /\ pc \in {"scan", "seek"}
       \/ starting /\ pc \in {"read", "check"} /\ f \in todo

LEMMA BOMStep == Base /\ BOMInInit /\ [Next]_vars => BOMInInit'
<1> SUFFICES ASSUME Base, BOMInInit, [Next]_vars PROVE BOMInInit'
  OBVIOUS
<1> USE DEF BOMInInit, envVars, loopVars, fileVars, dataVars
<1>0. /\ opened \subseteq watched /\ watched \subseteq File /\ pos \in [File -> Position]
      /\ (pc = "seek" => starting) /\ (pc \in {"down", "idle", "ready"} => ~starting)
      /\ \A f \in watched : size[f] > 0
      /\ todo \subseteq File /\ \A f \in File : size[f] \in Int
      /\ (pc = "read" => todo \subseteq watched)
  BY OnceTypes DEF Base, IInv, OnceInv, LetGoInv, TypeOK, Exists, Position
<1>1. CASE Tick \/ UNCHANGED vars
  BY <1>1 DEF Tick, vars
<1>2. CASE Crash \/ \E f \in File : ReadBOM(f)
  BY <1>2 DEF Crash, ReadBOM, Die
<1>3. CASE Start
  BY <1>0, <1>3 DEF Start, BeginScan
<1>4. ASSUME NEW anyway \in BOOLEAN, ExecuteStep(anyway) PROVE BOMInInit'
  BY <1>0, <1>4 DEF ExecuteStep, BeginScan, BeginRead
<1>5. ASSUME NEW f \in File, AddFile(f) PROVE BOMInInit'
  <2>1. \A g \in opened : pos'[g] = pos[g]
    BY <1>0, <1>5 DEF AddFile
  <2> QED
    BY <1>5, <2>1 DEF AddFile
<1>6. CASE EndScan
  BY <1>0, <1>6 DEF EndScan, BeginRead
<1>7. ASSUME NEW f \in File, Seek(f) PROVE BOMInInit'
  BY <1>0, <1>7 DEF Seek
<1>8. CASE EndSeek
  BY <1>0, <1>8 DEF EndSeek, BeginRead
<1>9. ASSUME NEW f \in File, ReadFile(f) PROVE BOMInInit'
  <2>1. /\ pos[f] # BeforeBOM /\ pos' = [pos EXCEPT ![f] = size[f]]
        /\ f \in watched /\ size[f] > 0
    BY <1>0, <1>9, ReadYields, NoFailure DEF ReadFile, Base, IInv
  <2>2. \A g \in opened' \ {f} : g \in opened /\ pos'[g] = pos[g]
    BY <1>0, <1>9, <2>1 DEF ReadFile
  <2>3. pos'[f] # BeforeBOM
    BY <1>0, <2>1 DEF BeforeBOM
  <2>4. pc = "read" /\ pc' = "check" /\ starting' = starting /\ todo' = todo \ {f}
    BY <1>9 DEF ReadFile
  <2> QED
    BY <2>2, <2>3, <2>4
<1>10. CASE CheckFile
  BY <1>10 DEF CheckFile
<1>11. CASE EndRead
  BY <1>11 DEF EndRead
<1>12. CASE ClearEvents
  BY <1>0, <1>12 DEF ClearEvents
<1>13. ASSUME NEW f \in File, Write(f) PROVE BOMInInit'
  BY <1>13 DEF Write
<1> QED
  BY <1>1, <1>2, <1>3, <1>4, <1>5, <1>6, <1>7, <1>8, <1>9, <1>10, <1>11, <1>12, <1>13
  DEF Next, Watcher

-----------------------------------------------------------------------------
(* The thread and its watcher. *)

\* Where the watcher is when the thread is at a label, and what the thread
\* has before its first iteration.
Placed ==
    /\ loop \in W!Running \cup {"crashed"}
    /\ loop \in {"start", "crashed"} => pc = "down"
    /\ loop = "init" => pc = "down" \/ starting
    /\ loop = "read" => pc \in {"idle", "scan", "read", "check"} /\ ~starting
    /\ loop = "dispatch" => pc = "ready"
    /\ loop \in {"check", "report", "pace"} => pc = "idle"
    /\ loop \in {"start", "init"} =>
         delivered = <<>> /\ lost = W!NoEvents /\ held = W!NoEvents
    /\ isNew \in BOOLEAN
    /\ sampleTime \in [min : Nat, sec : Nat] /\ W!Leq(sampleTime, Clock)

LEMMA Labels ==
  W!Running = {"start", "init", "check", "read", "dispatch", "report", "pace"}
BY DEF W!Running, W!Labels

LEMMA LeqOfTick ==
  ASSUME now \in Nat, now' \in Nat, now' = now \/ now' = now + 1,
         sampleTime \in [min : Nat, sec : Nat], W!Leq(sampleTime, Clock)
  PROVE  W!Leq(sampleTime, Clock')
<1>1. CASE now' = now
  BY <1>1 DEF Clock
<1>2. CASE now' = now + 1
  <2>1. sampleTime.min \in Nat /\ sampleTime.sec \in Nat
    OBVIOUS
  <2> QED
    BY <1>2, <2>1, ClockTicks, ClockFacts DEF W!Leq
<1> QED
  BY <1>1, <1>2

LEMMA PlacedStep ==
  ASSUME Base, Placed, [PipelineNext]_<<vars, threadVars, headerVars, seenVars, sluggish>>
  PROVE  Placed'
<1> USE DEF threadVars, headerVars, seenVars, envVars, loopVars, fileVars, dataVars
<1>0. /\ now \in Nat /\ (pc = "seek" => starting)
      /\ (pc \in {"down", "idle", "ready"} => ~starting)
      /\ pc \in {"down", "scan", "seek", "read", "check", "idle", "ready"}
  BY OnceTypes DEF Base, OnceInv, TypeOK
<1>1. ASSUME UNCHANGED <<now, pc, starting, delivered, loop, lost, held, isNew, sampleTime>>
      PROVE  Placed'
  BY <1>1 DEF Placed, Clock
<1>2. CASE TimePasses
  <2>1. now' = now + 1 /\ now' \in Nat
    BY <1>0, <1>2 DEF TimePasses, Tick
  <2>2. W!Leq(sampleTime', Clock')
    BY <1>0, <1>2, <2>1, LeqOfTick DEF TimePasses, Placed
  <2> QED
    BY <1>2, <2>2 DEF TimePasses, Tick, Placed
<1>3. ASSUME NEW f \in File, LogGrows(f) PROVE Placed'
  BY <1>1, <1>3 DEF LogGrows, Write
<1>4. ASSUME NEW f \in File, FileSeen(f) PROVE Placed'
  BY <1>1, <1>4 DEF FileSeen, AddFile
<1>5. CASE CallWatcher
  <2>1. CASE loop = "init" /\ Start
    BY <1>5, <2>1 DEF CallWatcher, Start, BeginScan, Placed, Clock
  <2>2. CASE loop = "read" /\ ExecuteStep(isNew)
    BY <1>0, <1>5, <2>2
    DEF CallWatcher, ExecuteStep, BeginScan, BeginRead, Placed, Clock
  <2> QED
    BY <1>5, <2>1, <2>2 DEF CallWatcher
<1>6. CASE WatcherStep
  <2>1. /\ pc \in {"scan", "seek", "read", "check"} /\ pc' \in {"seek", "read", "check"}
        /\ starting' = starting /\ (pc' = "seek" => starting)
        /\ UNCHANGED <<now, delivered>>
    <3>1. CASE EndScan \/ EndSeek \/ CheckFile
      BY <1>0, <3>1 DEF EndScan, EndSeek, CheckFile, BeginRead
    <3>2. ASSUME NEW f \in File, Seek(f) \/ ReadFile(f)
          PROVE  /\ pc \in {"scan", "seek", "read", "check"}
                 /\ pc' \in {"seek", "read", "check"}
                 /\ starting' = starting /\ (pc' = "seek" => starting)
                 /\ UNCHANGED <<now, delivered>>
      BY <1>0, <3>2 DEF Seek, ReadFile
    <3> QED
      BY <1>6, <3>1, <3>2 DEF WatcherStep
  <2>2. UNCHANGED <<loop, lost, held, isNew, sampleTime>>
    BY <1>6 DEF WatcherStep
  <2>3. loop \in {"init", "read"}
    BY <2>1, Labels DEF Placed
  <2> QED
    BY <2>1, <2>2, <2>3 DEF Placed, Clock
<1>7. CASE WatcherReturns
  <2>1. pc = "read" /\ loop \in {"init", "read"}
    BY <1>7, Labels DEF WatcherReturns, EndRead, Placed
  <2>2. /\ loop' = IF starting THEN "check" ELSE "dispatch"
        /\ pc' = IF starting THEN "idle" ELSE "ready"
        /\ UNCHANGED <<now, isNew, sampleTime>>
    BY <1>7 DEF WatcherReturns, EndRead
  <2> QED
    BY <2>1, <2>2, Labels DEF Placed, Clock
<1>8. CASE Killed
  BY <1>8 DEF Killed, ReadBOM, Die, Placed, Clock
<1>9. CASE DispatchEvents
  BY <1>9, Labels DEF DispatchEvents, ClearEvents, Placed, Clock
<1>10. CASE ThreadStep
  <2>1. UNCHANGED <<now, pc, starting, delivered>>
    BY <1>10 DEF ThreadStep, vars
  <2>2. Clock' = Clock
    BY <2>1 DEF Clock
  <2>3. CASE W!StartLoop
    <3>1. /\ loop = "start" /\ loop' = "init" /\ isNew' = FALSE
          /\ sampleTime' = [min |-> Clock.min, sec |-> 0] /\ UNCHANGED <<held, lost>>
      BY <2>3 DEF W!StartLoop, W!MinuteStart, W!dataVars
    <3>2. W!Leq(sampleTime', Clock) /\ sampleTime' \in [min : Nat, sec : Nat]
      BY <1>0, <3>1, ClockFacts DEF W!Leq
    <3> QED
      BY <2>1, <2>2, <3>1, <3>2, Labels DEF Placed
  <2>4. CASE W!NewIteration
    <3>1. /\ loop = "check" /\ loop' = "read" /\ isNew' \in BOOLEAN
          /\ UNCHANGED sampleTime
      BY <2>4 DEF W!NewIteration
    <3> QED
      BY <1>0, <2>1, <2>2, <3>1, Labels DEF Placed
  <2>5. CASE W!SendReport \/ W!NoReport
    <3>1. loop = "report" /\ loop' = "pace" /\ UNCHANGED <<sampleTime, isNew>>
      BY <2>5 DEF W!SendReport, W!NoReport
    <3> QED
      BY <2>1, <2>2, <3>1, Labels DEF Placed
  <2>6. CASE W!Pace
    <3>1. loop = "pace" /\ loop' = "check" /\ sampleTime' = Clock /\ isNew' = isNew
      BY <2>6 DEF W!Pace
    <3>2. sampleTime' \in [min : Nat, sec : Nat] /\ W!Leq(sampleTime', Clock)
      BY <1>0, <3>1, ClockFacts DEF W!Leq, Clock
    <3> QED
      BY <2>1, <2>2, <3>1, <3>2, Labels DEF Placed
  <2> QED
    BY <1>10, <2>3, <2>4, <2>5, <2>6 DEF ThreadStep
<1>11. CASE UNCHANGED <<vars, threadVars, headerVars, seenVars, sluggish>>
  BY <1>1, <1>11 DEF vars
<1> QED
  BY <1>2, <1>3, <1>4, <1>5, <1>6, <1>7, <1>8, <1>9, <1>10, <1>11 DEF PipelineNext

-----------------------------------------------------------------------------
(* The log and what the watcher knows of it. *)

\* What is known is of files that were found; an event that is known in its
\* grace period was written before its file closes.
Filed ==
    /\ watched \subseteq found /\ found \subseteq Exists
    /\ \A e \in Seen : e[1] \in found
    /\ minuteOf \in [Event -> Nat]
    /\ \A e \in Event : minuteOf[e] <= Clock.min
    /\ \A f \in File : \A e \in Records(f, size[f]) : GraceEnds(minuteOf[e]) <= Closes(f)
    /\ \A f \in File : now <= Closes(f) => onTime[f] = size[f]
    /\ \A f \in found : Records(f, size[f]) \ late \subseteq Records(f, onTime[f])

LEMMA BaseTypes ==
  ASSUME Base
  PROVE  /\ now \in Nat /\ size \in [File -> Position] /\ onTime \in [File -> Position]
         /\ pos \in [File -> Position] /\ watched \subseteq Exists /\ Exists \subseteq File
         /\ Position \subseteq Int /\ \A f \in File : onTime[f] <= size[f]
BY OnceTypes DEF Base, IInv, OnceInv, LetGoInv, TypeOK, Exists, Position

LEMMA RecordsGrow ==
  ASSUME NEW f, NEW p \in Int, NEW q \in Int, p <= q
  PROVE  Records(f, p) \subseteq Records(f, q)
<1>1. p \div Piece \in Int /\ q \div Piece \in Int /\ p \div Piece <= q \div Piece
  BY DivisionMonotone, Division DEF Piece
<1> QED
  BY <1>1 DEF Records

LEMMA RecordsOf == \A f, p : \A e \in Records(f, p) : e[1] = f
BY DEF Records

\* The records a write completes.
Completed(f) == Records(f, size'[f]) \ Records(f, size[f])

LEMMA LogGrowsFacts ==
  ASSUME Base, Filed, NEW f \in File, LogGrows(f)
  PROVE  /\ UNCHANGED <<now, pos, found, watched, loop, pc, todo, sampleTime>>
         /\ UNCHANGED <<events, delivered, skipped>> /\ Seen' = Seen
         /\ size' = [size EXCEPT ![f] = @ + 1] /\ size' \in [File -> Position]
         /\ Completed(f) \subseteq Event /\ \A e \in Completed(f) : e[1] = f
         /\ \A g \in File \ {f} : size'[g] = size[g] /\ onTime'[g] = onTime[g]
         /\ size'[f] = size[f] + 1 /\ Records(f, size[f]) \subseteq Records(f, size'[f])
         /\ onTime'[f] = IF now <= Closes(f) THEN size'[f] ELSE onTime[f]
         /\ minuteOf' \in [Event -> Nat]
         /\ \A e \in Event \ Completed(f) : minuteOf'[e] = minuteOf[e]
         /\ \A e \in Completed(f) : /\ minuteOf'[e] <= Clock.min
                                    /\ GraceEnds(minuteOf'[e]) <= Closes(f)
         /\ late' = IF f \in found THEN late \cup LateOf(Completed(f), minuteOf')
                                   ELSE late
<1>1. Base' /\ Clock.min \in Nat
  <2>1. Next
    BY DEF LogGrows, Next
  <2> QED
    BY <2>1, BaseStep, BaseTypes, ClockFacts
<1>2. PICK m \in MinutesOf(f) :
        /\ minuteOf' = [e \in Event |-> IF e \in Completed(f) THEN m ELSE minuteOf[e]]
        /\ late' = IF f \in found THEN late \cup LateOf(Completed(f), minuteOf') ELSE late
  BY DEF LogGrows, Completed
<1>3. /\ UNCHANGED <<now, pos, found, watched, loop, pc, todo, sampleTime>>
      /\ UNCHANGED <<events, delivered, skipped>>
      /\ size' = [size EXCEPT ![f] = @ + 1]
      /\ onTime' = IF now <= Closes(f) THEN [onTime EXCEPT ![f] = size[f] + 1] ELSE onTime
  BY DEF LogGrows, Write, loopVars, fileVars, dataVars, threadVars
<1>4. /\ size' \in [File -> Position] /\ Seen' = Seen
      /\ size'[f] = size[f] + 1 /\ \A g \in File \ {f} : size'[g] = size[g]
  <2>1. size' \in [File -> Position]
    BY <1>1, BaseTypes DEF Base, IInv, TypeOK, Position
  <2>2. Seen' = Seen
    BY <1>3 DEF Seen, Delivered, InMemory
  <2> QED
    BY <1>3, <2>1, <2>2, BaseTypes
<1>5. /\ \A g \in File \ {f} : onTime'[g] = onTime[g]
      /\ onTime'[f] = IF now <= Closes(f) THEN size'[f] ELSE onTime[f]
  BY <1>3, <1>4, BaseTypes
<1>6. Completed(f) \subseteq Event /\ \A e \in Completed(f) : e[1] = f
  BY <1>4, RecordsAreEvents, RecordsOf DEF Completed
<1>7. m \in Nat /\ m <= Clock.min /\ GraceEnds(m) <= Closes(f)
  BY <1>1, GraceBeforeClose DEF MinutesOf
<1>8. Records(f, size[f]) \subseteq Records(f, size'[f])
  BY <1>4, BaseTypes, RecordsGrow
<1>9. /\ minuteOf' \in [Event -> Nat]
      /\ \A e \in Event \ Completed(f) : minuteOf'[e] = minuteOf[e]
      /\ \A e \in Completed(f) : minuteOf'[e] = m
  BY <1>2, <1>6, <1>7 DEF Filed
<1> QED
  BY <1>2, <1>3, <1>4, <1>5, <1>6, <1>7, <1>8, <1>9

LEMMA LogGrowsFiled ==
  ASSUME Base, Filed, NEW f \in File, LogGrows(f)
  PROVE  Filed'
<1>1. watched' \subseteq found' /\ found' \subseteq Exists' /\ \A e \in Seen' : e[1] \in found'
  BY LogGrowsFacts, BaseTypes DEF Filed, Exists
<1>2. minuteOf' \in [Event -> Nat] /\ \A e \in Event : minuteOf'[e] <= Clock'.min
  BY LogGrowsFacts DEF Filed, Clock
<1>3. ASSUME NEW g \in File, NEW e \in Records(g, size'[g])
      PROVE  GraceEnds(minuteOf'[e]) <= Closes(g)
  <2>1. CASE g = f /\ e \in Completed(f)
    BY <2>1, LogGrowsFacts
  <2>2. CASE ~(g = f /\ e \in Completed(f))
    <3>1. e \in Records(g, size[g])
      BY <1>3, <2>2, LogGrowsFacts DEF Completed
    <3>2. e \in Event /\ e \notin Completed(f)
      BY <3>1, LogGrowsFacts, BaseTypes, RecordsAreEvents, RecordsOf, <2>2
    <3> QED
      BY <3>1, <3>2, LogGrowsFacts DEF Filed
  <2> QED
    BY <2>1, <2>2
<1>4. \A g \in File : now' <= Closes(g) => onTime'[g] = size'[g]
  BY LogGrowsFacts DEF Filed
<1>5. ASSUME NEW g \in found', NEW e \in Records(g, size'[g]) \ late'
      PROVE  e \in Records(g, onTime'[g])
  <2>1. g \in found /\ g \in File /\ late \subseteq late'
    BY LogGrowsFacts, BaseTypes DEF Filed
  <2>2. CASE g # f
    BY <1>5, <2>1, <2>2, LogGrowsFacts DEF Filed
  <2>3. CASE g = f /\ e \in Records(f, size[f])
    <3>1. e \in Records(f, onTime[f])
      BY <1>5, <2>1, <2>3 DEF Filed
    <3>2. onTime[f] <= onTime'[f] /\ onTime'[f] \in Int /\ onTime[f] \in Int
      BY LogGrowsFacts, BaseTypes
    <3> QED
      BY <2>3, <3>1, <3>2, RecordsGrow
  <2>4. CASE g = f /\ e \in Completed(f)
    <3>1. W!Leq(Clock, W!Deadline(minuteOf'[e]))
      BY <1>5, <2>1, <2>4, LogGrowsFacts DEF LateOf
    <3>2. minuteOf'[e] \in Nat
      BY <2>4, LogGrowsFacts
    <3>3. now <= Closes(f)
      <4>1. now <= GraceEnds(minuteOf'[e]) /\ GraceEnds(minuteOf'[e]) <= Closes(f)
        BY <2>4, <3>1, <3>2, InGrace, BaseTypes, LogGrowsFacts
      <4>2. GraceEnds(minuteOf'[e]) \in Int
        BY <3>2, Constants, Product DEF GraceEnds, Positive
      <4> QED
        BY <4>1, <4>2, Clocks, BaseTypes
    <3> QED
      BY <1>5, <2>4, <3>3, LogGrowsFacts
  <2> QED
    BY <1>5, <2>2, <2>3, <2>4 DEF Completed
<1>6. /\ (\A g \in File : \A e \in Records(g, size[g]) : GraceEnds(minuteOf[e]) <= Closes(g))'
      /\ (\A g \in found : Records(g, size[g]) \ late \subseteq Records(g, onTime[g]))'
  BY <1>3, <1>5 DEF Records, GraceEnds, Closes
<1> QED
  BY <1>1, <1>2, <1>4, <1>6 DEF Filed, Closes

\* The records that come to be known when f is found.
Found(f) == UNION {Records(g, size[g]) : g \in found' \ found}

LEMMA FileSeenFacts ==
  ASSUME Base, Filed, NEW f \in File, FileSeen(f)
  PROVE  /\ UNCHANGED <<now, size, onTime, loop, sampleTime, minuteOf, pc, starting>>
         /\ UNCHANGED <<events, delivered, skipped>> /\ Seen' = Seen
         /\ pc = "scan"
         /\ \/ found' = found /\ watched' = watched
            \/ /\ found' = found \cup {f} /\ watched' = watched \cup {f}
               /\ f \notin watched /\ now <= Closes(f) /\ size[f] > 0
         /\ late' = late \cup LateOf(Found(f), minuteOf)
<1>1. /\ UNCHANGED <<now, size, onTime, loop, sampleTime, minuteOf, pc, starting>>
      /\ UNCHANGED <<events, delivered, skipped>> /\ pc = "scan"
      /\ found' = found \cup watched'
      /\ late' = late \cup LateOf(Found(f), minuteOf)
  BY DEF FileSeen, AddFile, envVars, dataVars, threadVars, headerVars, Found
<1>2. \/ watched' = watched
      \/ watched' = watched \cup {f} /\ f \notin watched /\ now <= Closes(f) /\ size[f] > 0
  BY DEF FileSeen, AddFile, IsWorkingFile
<1> QED
  BY <1>1, <1>2 DEF Filed, Seen, Delivered, InMemory

LEMMA FileSeenFiled ==
  ASSUME Base, Filed, NEW f \in File, FileSeen(f)
  PROVE  Filed'
<1>1. /\ watched' \subseteq found' /\ found' \subseteq Exists
      /\ \A e \in Seen : e[1] \in found'
  BY FileSeenFacts, BaseTypes DEF Filed, Exists
<1>2. \A g \in found' : Records(g, size[g]) \ late' \subseteq Records(g, onTime[g])
  <2>1. \A g \in found : Records(g, size[g]) \ late' \subseteq Records(g, onTime[g])
    BY FileSeenFacts DEF Filed
  <2>2. f \in found' \ found => onTime[f] = size[f]
    BY FileSeenFacts DEF Filed
  <2> QED
    BY <2>1, <2>2, FileSeenFacts
<1> QED
  BY <1>1, <1>2, FileSeenFacts DEF Filed, Exists, Clock, Records, GraceEnds, Closes

LEMMA FiledStep ==
  ASSUME Base, Filed, Placed,
         [PipelineNext]_<<vars, threadVars, headerVars, seenVars, sluggish>>
  PROVE  Filed'
<1> USE DEF threadVars, headerVars, seenVars, envVars, loopVars, fileVars, dataVars
<1>0. [Next]_vars
  BY WatcherSteps DEF Placed, vars
<1>1. \A e \in Seen' : e[1] \in found
  BY <1>0, SeenGrows DEF Filed
<1>2. ASSUME UNCHANGED <<now, size, onTime, minuteOf, late, found>>, watched' \subseteq watched
      PROVE  Filed'
  BY <1>1, <1>2 DEF Filed, Exists, Clock, Records, GraceEnds, Closes
<1>3. CASE TimePasses
  <2>1. now' = now + 1 /\ now \in Nat
    BY <1>3, BaseTypes DEF TimePasses, Tick
  <2>2. Clock.min <= Clock'.min /\ Clock.min \in Nat /\ Clock'.min \in Nat
    BY <2>1, ClockTicks, ClockFacts
  <2>3. UNCHANGED <<size, onTime, minuteOf, late, found, watched>>
    BY <1>3 DEF TimePasses, Tick
  <2>4. \A e \in Event : minuteOf'[e] <= Clock'.min
    BY <2>2, <2>3 DEF Filed
  <2>5. \A f \in File : now' <= Closes(f) => onTime'[f] = size'[f]
    BY <2>1, <2>3, Clocks DEF Filed
  <2> QED
    BY <1>1, <2>3, <2>4, <2>5 DEF Filed, Exists, Records, GraceEnds, Closes
<1>4. CASE CallWatcher
  BY <1>2, <1>4 DEF CallWatcher, Start, ExecuteStep
<1>5. CASE WatcherStep
  <2>1. EndScan \/ EndSeek \/ CheckFile \/ (\E f \in File : Seek(f) \/ ReadFile(f))
          => UNCHANGED <<now, size, onTime, watched>>
    BY DEF EndScan, EndSeek, CheckFile, Seek, ReadFile
  <2> QED
    BY <1>2, <1>5, <2>1 DEF WatcherStep
<1>6. CASE WatcherReturns
  BY <1>2, <1>6 DEF WatcherReturns, EndRead
<1>7. CASE Killed
  BY <1>2, <1>7 DEF Killed, ReadBOM, Die
<1>8. CASE DispatchEvents
  BY <1>2, <1>8 DEF DispatchEvents, ClearEvents
<1>9. CASE ThreadStep \/ UNCHANGED <<vars, threadVars, headerVars, seenVars, sluggish>>
  BY <1>2, <1>9 DEF ThreadStep, vars
<1> QED
  BY <1>3, <1>4, <1>5, <1>6, <1>7, <1>8, <1>9, LogGrowsFiled, FileSeenFiled
  DEF PipelineNext

-----------------------------------------------------------------------------
(* Files let go, and files visited. *)

\* A file that was let go is closed, and what was written in time was read.
Released ==
    loop # "crashed" =>
      \A f \in found \ watched :
         now > Closes(f) /\ Records(f, onTime[f]) \subseteq Seen

\* What of f has its time before the iteration began, as far as known in time.
DueOf(f) == {e \in Records(f, size[f]) \ late :
                ~W!Leq(sampleTime, W!Deadline(minuteOf[e]))}

\* Behind ReadFiles there is none of it left.
Visited ==
    loop = "read" /\ pc \in {"read", "check"} =>
      \A f \in watched \ todo : DueOf(f) \subseteq Records(f, pos[f])

(* What was written to a file in time was read when it is let go.          *)
LEMMA ReleasedNow ==
  ASSUME Base, NEW f \in stale
  PROVE  now > Closes(f) /\ Records(f, onTime[f]) \subseteq Seen
<1>1. f \in watched /\ f \in File /\ curTime \in Nat /\ curTime <= now
  BY OnceTypes DEF Base
<1>2. curTime > Closes(f) /\ onTime[f] <= pos[f]
  BY DEF Base, OnceInv, LetGoInv, Done
<1>3. Records(f, onTime[f]) \subseteq Records(f, pos[f])
  BY <1>1, <1>2, BaseTypes, RecordsGrow
<1>4. CASE f \in opened
  BY <1>1, <1>2, <1>3, <1>4, Clocks, BaseTypes DEF Base, IInv, NothingPassedOver, Seen
<1>5. CASE f \notin opened
  <2>1. pos[f] = 0
    BY <1>1, <1>5 DEF Base, IInv, Fresh
  <2>2. Records(f, pos[f]) = {}
    BY <2>1, Division DEF Records, Piece
  <2> QED
    BY <1>1, <1>2, <1>3, <2>2, Clocks, BaseTypes
<1> QED
  BY <1>4, <1>5

LEMMA ReleasedStep ==
  ASSUME Base, Filed, Placed, Released,
         [PipelineNext]_<<vars, threadVars, headerVars, seenVars, sluggish>>
  PROVE  Released'
<1> USE DEF threadVars, headerVars, seenVars, envVars, loopVars, fileVars, dataVars
<1>0. [Next]_vars
  BY WatcherSteps DEF Placed, vars
<1>1. Seen \subseteq Seen' /\ found \subseteq File
  BY <1>0, SeenGrows, BaseTypes DEF Filed
<1>2. ASSUME UNCHANGED <<now, onTime, found, watched>>, loop' # "crashed" => loop # "crashed"
      PROVE  Released'
  BY <1>1, <1>2 DEF Released, Records, Closes
<1>3. CASE TimePasses
  <2>1. now' > now /\ UNCHANGED <<onTime, found, watched, loop>> /\ now \in Nat /\ now' \in Nat
    BY <1>3, BaseTypes DEF TimePasses, Tick
  <2> QED
    BY <1>1, <2>1, Clocks DEF Released, Records, Closes
<1>4. ASSUME NEW f \in File, LogGrows(f) PROVE Released'
  <2>1. SUFFICES ASSUME loop # "crashed", NEW g \in found \ watched
                 PROVE  now > Closes(g) /\ Records(g, onTime'[g]) \subseteq Seen
    BY <1>4, LogGrowsFacts DEF Released, Records, Closes
  <2>2. now > Closes(g) /\ Records(g, onTime[g]) \subseteq Seen /\ g \in File
    BY <1>1, <2>1 DEF Released
  <2>3. onTime'[g] = onTime[g]
    BY <1>4, <2>2, LogGrowsFacts, Clocks, BaseTypes
  <2> QED
    BY <2>2, <2>3
<1>5. ASSUME NEW f \in File, FileSeen(f) PROVE Released'
  BY <1>1, <1>5, FileSeenFacts DEF Released, Records, Closes
<1>6. CASE CallWatcher
  BY <1>2, <1>6 DEF CallWatcher, Start, ExecuteStep
<1>7. CASE WatcherStep
  <2>1. EndScan \/ EndSeek \/ CheckFile \/ (\E f \in File : Seek(f) \/ ReadFile(f))
          => UNCHANGED <<now, onTime, watched>>
    BY DEF EndScan, EndSeek, CheckFile, Seek, ReadFile
  <2> QED
    BY <1>2, <1>7, <2>1 DEF WatcherStep
<1>8. CASE WatcherReturns
  <2>1. /\ UNCHANGED <<now, onTime, found>> /\ watched' = watched \ stale /\ pc = "read"
    BY <1>8 DEF WatcherReturns, EndRead
  <2>2. loop # "crashed"
    BY <2>1 DEF Placed
  <2> QED
    BY <1>1, <2>1, <2>2, ReleasedNow DEF Released, Records, Closes
<1>9. CASE Killed
  BY <1>9 DEF Killed, Released
<1>10. CASE DispatchEvents
  BY <1>2, <1>10 DEF DispatchEvents, ClearEvents
<1>11. CASE ThreadStep
  <2>1. loop # "crashed"
    BY <1>11 DEF ThreadStep, W!StartLoop, W!NewIteration, W!SendReport, W!NoReport, W!Pace
  <2> QED
    BY <1>2, <1>11, <2>1 DEF ThreadStep, vars
<1>12. CASE UNCHANGED <<vars, threadVars, headerVars, seenVars, sluggish>>
  BY <1>2, <1>12 DEF vars
<1> QED
  BY <1>3, <1>4, <1>5, <1>6, <1>7, <1>8, <1>9, <1>10, <1>11, <1>12 DEF PipelineNext

(* What comes to the log after the iteration began is late for the minutes *)
(* that were over when it began.                                           *)
LEMMA NotDue ==
  ASSUME Placed, NEW m \in Nat, now \in Nat, ~W!Leq(sampleTime, W!Deadline(m))
  PROVE  ~W!Leq(Clock, W!Deadline(m))
<1>1. /\ sampleTime.min \in Nat /\ sampleTime.sec \in Nat
      /\ Clock.min \in Nat /\ Clock.sec \in Nat /\ W!Leq(sampleTime, Clock)
  BY ClockFacts DEF Placed
<1>2. W!Deadline(m).min \in Nat /\ W!Deadline(m).sec \in Nat
  BY Constants DEF W!Deadline
<1> QED
  BY <1>1, <1>2 DEF W!Leq

LEMMA LogGrowsVisited ==
  ASSUME Base, Filed, Placed, Visited, NEW f \in File, LogGrows(f)
  PROVE  Visited'
<1>1. SUFFICES ASSUME loop = "read", pc \in {"read", "check"}, NEW g \in watched \ todo,
                      NEW e \in Records(g, size'[g]) \ late',
                      ~W!Leq(sampleTime, W!Deadline(minuteOf'[e]))
               PROVE  e \in Records(g, pos[g])
  BY LogGrowsFacts DEF Visited, DueOf, Records, W!Leq, W!Deadline
<1>2. g \in found /\ g \in File /\ late \subseteq late'
  BY LogGrowsFacts, BaseTypes DEF Filed
<1>3. ASSUME g = f, e \in Completed(f) PROVE FALSE
  <2>1. minuteOf'[e] \in Nat
    BY <1>3, LogGrowsFacts
  <2>2. ~W!Leq(Clock, W!Deadline(minuteOf'[e]))
    BY <1>1, <2>1, NotDue, BaseTypes
  <2>3. e \in late'
    BY <1>2, <1>3, <2>2, LogGrowsFacts DEF LateOf
  <2> QED
    BY <1>1, <2>3
<1>4. e \in Records(g, size[g]) /\ e \notin Completed(f)
  <2>1. e \notin Completed(f)
    <3>1. e[1] = g
      BY <1>1, RecordsOf
    <3> QED
      BY <1>3, <3>1, LogGrowsFacts
  <2>2. g # f => size'[g] = size[g]
    BY <1>2, LogGrowsFacts
  <2> QED
    BY <1>1, <2>1, <2>2 DEF Completed
<1>5. minuteOf'[e] = minuteOf[e]
  BY <1>2, <1>4, LogGrowsFacts, BaseTypes, RecordsAreEvents
<1>6. e \in DueOf(g)
  BY <1>1, <1>2, <1>4, <1>5 DEF DueOf
<1> QED
  BY <1>1, <1>6 DEF Visited

LEMMA VisitedStep ==
  ASSUME Base, Filed, Placed, Visited,
         [PipelineNext]_<<vars, threadVars, headerVars, seenVars, sluggish>>
  PROVE  Visited'
<1> USE DEF threadVars, headerVars, seenVars, envVars, loopVars, fileVars, dataVars
<1>1. ASSUME UNCHANGED <<size, late, sampleTime, minuteOf, pos, watched, todo, loop>>,
             pc' \in {"read", "check"} => pc \in {"read", "check"}
      PROVE  Visited'
  BY <1>1 DEF Visited, DueOf, Records, W!Leq, W!Deadline
<1>2. ASSUME \/ loop' # "read"
             \/ pc' \notin {"read", "check"}
             \/ todo' = watched'
      PROVE  Visited'
  BY <1>2 DEF Visited
<1>3. CASE TimePasses
  BY <1>1, <1>3 DEF TimePasses, Tick
<1>4. ASSUME NEW f \in File, FileSeen(f) PROVE Visited'
  BY <1>2, <1>4, FileSeenFacts
<1>5. CASE CallWatcher
  BY <1>2, <1>5 DEF CallWatcher, Start, ExecuteStep, BeginScan, BeginRead
<1>6. CASE EndScan \/ EndSeek
  BY <1>2, <1>6 DEF EndScan, EndSeek, BeginRead
<1>7. CASE CheckFile /\ WatcherStep
  BY <1>1, <1>7 DEF CheckFile, WatcherStep
<1>8. ASSUME NEW f \in File, Seek(f) PROVE Visited'
  BY <1>2, <1>8 DEF Seek
<1>9. ASSUME NEW f \in File, ReadFile(f), WatcherStep PROVE Visited'
  <2>1. /\ UNCHANGED <<size, late, sampleTime, minuteOf, watched, loop>>
        /\ todo' = todo \ {f} /\ pc = "read"
    BY <1>9 DEF ReadFile, WatcherStep
  <2>2. pos' = [pos EXCEPT ![f] = size[f]]
    <3>1. [Next]_vars
      BY <1>9 DEF Next, Watcher
    <3> QED
      BY <1>9, <3>1, ReadYields, NoFailure DEF Base, IInv
  <2>3. ASSUME loop = "read", NEW g \in watched, g \notin todo \/ g = f
        PROVE  DueOf(g) \subseteq Records(g, pos'[g])
    <3>1. CASE g = f
      BY <2>2, <3>1, BaseTypes DEF DueOf
    <3>2. CASE g # f
      BY <2>1, <2>2, <2>3, <3>2, BaseTypes DEF Visited
    <3> QED
      BY <3>1, <3>2
  <2> QED
    BY <2>1, <2>3 DEF Visited, DueOf, Records, W!Leq, W!Deadline
<1>10. CASE WatcherReturns
  BY <1>2, <1>10 DEF WatcherReturns, EndRead
<1>11. CASE Killed
  BY <1>2, <1>11 DEF Killed
<1>12. CASE DispatchEvents
  BY <1>2, <1>12 DEF DispatchEvents
<1>13. CASE ThreadStep
  <2>1. loop' = "read" => loop = "check" /\ pc' = pc
    BY <1>13
    DEF ThreadStep, vars, W!StartLoop, W!NewIteration, W!SendReport, W!NoReport, W!Pace
  <2> QED
    BY <1>2, <2>1 DEF Placed
<1>14. CASE UNCHANGED <<vars, threadVars, headerVars, seenVars, sluggish>>
  BY <1>1, <1>14 DEF vars
<1> QED
  BY <1>3, <1>4, <1>5, <1>6, <1>7, <1>8, <1>9, <1>10, <1>11, <1>12, <1>13, <1>14,
     LogGrowsVisited
  DEF PipelineNext, WatcherStep

-----------------------------------------------------------------------------
(* What the worker sees of a step. *)

PipeInv == Base /\ BOMInInit /\ Placed /\ Filed /\ Released /\ Visited

Unread == IF InInit THEN Known ELSE Known \ (Delivered \cup skipped \cup Batch)
Stamp == [e \in Event |-> IF e \in Known THEN minuteOf[e] ELSE 0]

LEMMA Stutters ==
  ASSUME UNCHANGED <<threadVars, Clock, Known, Unread, Stamp, late, Batch, crashes>>
  PROVE  [W!Next]_(W!vars)
BY DEF threadVars, Unread, Stamp, W!vars, W!clockVars, W!logVars, W!loopVars,
       W!dataVars, W!ctlVars, W!histVars

LEMMA SeenIsKnown ==
  ASSUME PipeInv
  PROVE  Seen \subseteq Known /\ Known \subseteq Event
<1>1. ASSUME NEW e \in Seen PROVE e \in Known
  <2>1. e \in Event /\ e[1] \in found
    BY OnceTypes DEF PipeInv, Base, Filed, Seen, Delivered, InMemory
  <2>2. PICK f \in File, k \in 1 .. MaxRecords : e = <<f, k>>
    BY <2>1 DEF Event
  <2>3. k <= size[f] \div Piece /\ k \in Nat /\ size[f] \div Piece \in Int
    <3>1. Behind(f, size[f]) /\ k \in Nat
      BY BoundAssumption DEF PipeInv, Base, OnceInv, OrderInv
    <3>2. size[f] \in Int
      BY BaseTypes DEF PipeInv
    <3> QED
      BY <2>2, <3>1, <3>2, Division DEF Behind, Piece
  <2>4. e \in Records(f, size[f])
    BY <2>2, <2>3 DEF Records
  <2> QED
    BY <2>1, <2>2, <2>4 DEF Known
<1>2. Known \subseteq Event
  BY BaseTypes, RecordsAreEvents DEF PipeInv, Filed, Known
<1> QED
  BY <1>1, <1>2

(* Outside of Init the events in memory are not among those that were      *)
(* delivered or given up.                                                  *)
LEMMA MemoryIsNew ==
  ASSUME Base, ~starting
  PROVE  InMemory \cap (Delivered \cup skipped) = {}
<1>1. /\ delivered \in Seq(Event) /\ events \in Seq(Event) /\ Handed = delivered \o events
      /\ InOrder(Handed) /\ Disjoint(Handed, skipped)
  BY OnceTypes, HandedFacts DEF Base, OnceInv, OrderInv
<1>2. /\ \A i \in DOMAIN delivered :
            i \in DOMAIN Handed /\ Handed[i] = delivered[i] /\ i <= Len(delivered)
      /\ \A j \in DOMAIN events :
            /\ Len(delivered) + j \in DOMAIN Handed /\ Handed[Len(delivered) + j] = events[j]
            /\ \A i \in DOMAIN delivered : i < Len(delivered) + j
  BY <1>1
<1>3. ASSUME NEW i \in DOMAIN delivered, NEW j \in DOMAIN events, delivered[i] = events[j]
      PROVE  FALSE
  <2>1. Handed[i][2] < Handed[Len(delivered) + j][2]
    BY <1>1, <1>2, <1>3 DEF InOrder
  <2>2. Handed[i] = Handed[Len(delivered) + j] /\ Handed[i] \in Event
    BY <1>1, <1>2, <1>3
  <2>3. Handed[i][2] \in Int
    BY <2>2, BoundAssumption DEF Event
  <2> QED
    BY <2>1, <2>2, <2>3
<1>4. InMemory \cap Delivered = {}
  BY <1>3 DEF InMemory, Delivered
<1>5. InMemory \cap skipped = {}
  BY <1>1, <1>2 DEF Disjoint, InMemory
<1> QED
  BY <1>4, <1>5

(* Time passes for the worker too.                                         *)
LEMMA TickSimulates ==
  ASSUME PipeInv, TimePasses
  PROVE  W!Tick
<1>1. /\ now \in Nat /\ now' = now + 1 /\ now' <= MaxTime
      /\ UNCHANGED <<threadVars, headerVars, seenVars, size, dataVars, crashes>>
  BY BaseTypes, Constants DEF PipeInv, TimePasses, Tick
<1>2. UNCHANGED <<threadVars, Known, Unread, Stamp, late, Batch, crashes>>
  BY <1>1 DEF threadVars, headerVars, seenVars, dataVars, Known, Unread, Stamp, Batch,
              InInit, Records, Delivered, InMemory
<1>3. \/ /\ Clock.sec + 1 < SecPerMin
         /\ Clock' = [min |-> Clock.min, sec |-> Clock.sec + 1]
      \/ /\ Clock.sec + 1 = SecPerMin
         /\ Clock.min < MaxTime \div SecPerMin
         /\ Clock' = W!MinuteStart(Clock.min + 1)
  <2>1. Clock'.min <= MaxTime \div SecPerMin /\ MaxTime \div SecPerMin \in Nat
    <3>1. now' \in Nat /\ Clock'.min = now' \div SecPerMin
      BY <1>1 DEF Clock
    <3> QED
      BY <1>1, <3>1, Monotone, Split, Constants
  <2>2. Clock.min \in Nat
    BY <1>1, ClockFacts
  <2> QED
    BY <1>1, <2>1, <2>2, ClockTicks DEF W!MinuteStart
<1> QED
  BY <1>2, <1>3
  DEF threadVars, Unread, Stamp, W!Tick, W!logVars, W!loopVars, W!dataVars, W!ctlVars,
      W!histVars

(* Events come to the knowledge of the watcher, or none do.                *)
LEMMA WriteSimulates ==
  ASSUME PipeInv, NEW new \in SUBSET Event, new \cap Known = {}, Known' = Known \cup new,
         UNCHANGED <<now, threadVars, events, delivered, skipped, crashes>>,
         minuteOf' \in [Event -> Nat],
         \A e \in Known : minuteOf'[e] = minuteOf[e],
         \A e \in new : minuteOf'[e] <= Clock.min,
         late' = late \cup LateOf(new, minuteOf')
  PROVE  [W!Next]_(W!vars)
<1>1. /\ UNCHANGED <<Clock, InInit, Delivered, InMemory, Batch>>
      /\ new \cap (Delivered \cup skipped \cup Batch) = {}
      /\ Known \subseteq Event
  BY SeenIsKnown
  DEF threadVars, Clock, InInit, Delivered, InMemory, Batch, Seen
<1>2. Unread' = Unread \cup new
  BY <1>1 DEF Unread
<1>3. Stamp' = [e \in Event |-> IF e \in new THEN minuteOf'[e] ELSE Stamp[e]]
  BY <1>1 DEF Stamp
<1>4. CASE new = {}
  <2>1. Unread' = Unread /\ Known' = Known /\ late' = late
    BY <1>2, <1>4 DEF LateOf
  <2>2. Stamp' = Stamp
    BY <1>3, <1>4 DEF Stamp
  <2> QED
    BY <1>1, <2>1, <2>2, Stutters
<1>5. CASE new # {}
  <2>1. PICK at \in [new -> 0 .. Clock.min] : \A e \in new : at[e] = minuteOf'[e]
    <3>1. Clock.min \in Nat
      BY BaseTypes, ClockFacts DEF PipeInv
    <3>2. [e \in new |-> minuteOf'[e]] \in [new -> 0 .. Clock.min]
      BY <3>1
    <3> QED
      BY <3>2
  <2>2. \A e \in new : at[e] <= Clock.min /\ Clock.min <= at[e] + MaxTime
    <3>1. /\ Clock.min \in Nat /\ Clock.min <= now /\ now \in Nat /\ now <= MaxTime
          /\ MaxTime \in Nat
      BY BaseTypes, ClockFacts, Constants DEF PipeInv, Base
    <3> QED
      BY <3>1
  <2>3. Stamp' = [e \in Event |-> IF e \in new THEN at[e] ELSE Stamp[e]]
    BY <1>3, <2>1
  <2>4. late' = late \cup {e \in new : ~W!Leq(Clock, W!Deadline(at[e]))}
    BY <2>1 DEF LateOf, W!Deadline
  <2>5. W!Write(new, at)
    BY <1>1, <1>2, <1>5, <2>2, <2>3, <2>4
    DEF threadVars, Unread, Stamp, W!Write, W!clockVars, W!loopVars, W!dataVars,
        W!ctlVars, W!histVars
  <2>6. new \in SUBSET (Event \ Known)
    OBVIOUS
  <2>7. W!Environment
    BY <2>5, <2>6 DEF W!Environment
  <2> QED
    BY <2>7 DEF W!Next
<1> QED
  BY <1>4, <1>5

LEMMA LogGrowsSimulates ==
  ASSUME PipeInv, NEW f \in File, LogGrows(f)
  PROVE  [W!Next]_(W!vars)
<1>0. Base /\ Filed
  BY DEF PipeInv
<1>1. UNCHANGED <<now, threadVars, events, delivered, skipped, crashes, found>>
  BY DEF LogGrows, Write, dataVars
<1>2. found \subseteq File /\ Known \subseteq Event
  BY <1>0, BaseTypes, SeenIsKnown DEF Filed
<1>3. Completed(f) \cap Known = {}
  <2>1. ASSUME NEW e \in Completed(f), NEW g \in found, e \in Records(g, size[g]) PROVE FALSE
    <3>1. g = f
      BY <1>0, <2>1, LogGrowsFacts, RecordsOf
    <3> QED
      BY <2>1, <3>1 DEF Completed
  <2> QED
    BY <2>1 DEF Known
<1>4. \A e \in Known : minuteOf'[e] = minuteOf[e]
  BY <1>0, <1>2, <1>3, LogGrowsFacts
<1>5. \A g \in found \ {f} : Records(g, size'[g]) = Records(g, size[g])
  BY <1>0, <1>2, LogGrowsFacts
<1>6. Known' = UNION {Records(g, size'[g]) : g \in found}
  BY <1>1 DEF Known, Records
<1>7. CASE f \in found
  <2>1. Records(f, size'[f]) = Records(f, size[f]) \cup Completed(f)
    BY <1>0, LogGrowsFacts DEF Completed
  <2>2. Known' = Known \cup Completed(f)
    BY <1>5, <1>6, <1>7, <2>1 DEF Known
  <2>3. late' = late \cup LateOf(Completed(f), minuteOf')
    BY <1>0, <1>7, LogGrowsFacts
  <2> QED
    BY <1>0, <1>1, <1>3, <1>4, <2>2, <2>3, LogGrowsFacts, WriteSimulates
<1>8. CASE f \notin found
  <2>1. Known' = Known \cup {}
    BY <1>5, <1>6, <1>8 DEF Known
  <2>2. late' = late \cup LateOf({}, minuteOf')
    BY <1>0, <1>8, LogGrowsFacts DEF LateOf
  <2>3. {} \in SUBSET Event /\ {} \cap Known = {} /\ minuteOf' \in [Event -> Nat]
    BY <1>0, LogGrowsFacts
  <2>4. \A e \in {} : minuteOf'[e] <= Clock.min
    OBVIOUS
  <2> QED
    BY <1>1, <1>4, <2>1, <2>2, <2>3, <2>4, WriteSimulates
<1> QED
  BY <1>7, <1>8

LEMMA FileSeenSimulates ==
  ASSUME PipeInv, NEW f \in File, FileSeen(f)
  PROVE  [W!Next]_(W!vars)
<1>0. Base /\ Filed
  BY DEF PipeInv
<1>1. UNCHANGED <<now, threadVars, events, delivered, skipped, crashes, minuteOf, size>>
  BY <1>0, FileSeenFacts DEF FileSeen, AddFile
<1>2. Known' = Known \cup Found(f) /\ Found(f) \cap Known = {}
  <2>1. Known' = UNION {Records(g, size[g]) : g \in found'}
    BY <1>1 DEF Known, Records
  <2>2. found \subseteq found'
    BY <1>0, FileSeenFacts
  <2>3. \A g, h : g # h => Records(g, size[g]) \cap Records(h, size[h]) = {}
    BY DEF Records
  <2> QED
    BY <2>1, <2>2, <2>3 DEF Known, Found
<1>3. Found(f) \subseteq Event
  <2>1. \A g \in found' \ found : g \in File
    BY <1>0, FileSeenFacts
  <2> QED
    BY <1>0, <2>1, BaseTypes, RecordsAreEvents DEF Found
<1>4. /\ minuteOf' \in [Event -> Nat]
      /\ \A e \in Found(f) : minuteOf'[e] <= Clock.min
  BY <1>0, <1>1, <1>3 DEF Filed
<1>5. late' = late \cup LateOf(Found(f), minuteOf')
  BY <1>0, <1>1, FileSeenFacts
<1> QED
  BY <1>1, <1>2, <1>3, <1>4, <1>5, WriteSimulates

(* An event that is due was read: it was written before its file closes,   *)
(* and the file was read after that, in this iteration or when it was let  *)
(* go.                                                                     *)
LEMMA DueIsRead ==
  ASSUME PipeInv, loop = "read", pc = "read", todo = {},
         NEW e \in Known \ (Delivered \cup skipped \cup late),
         ~W!Leq(sampleTime, W!Deadline(minuteOf[e]))
  PROVE  e \in InMemory
<1>1. PICK f \in found : e \in Records(f, size[f])
  BY DEF Known
<1>2. f \in File /\ size[f] \in Int /\ pos[f] \in Int
  BY BaseTypes DEF PipeInv, Filed
<1>3. e \in Seen
  <2>1. CASE f \in watched
    <3>1. e \in Records(f, pos[f])
      BY <1>1, <2>1 DEF PipeInv, Visited, DueOf
    <3>2. CASE f \in opened
      BY <3>1, <3>2 DEF PipeInv, Base, IInv, NothingPassedOver, Seen
    <3>3. CASE f \notin opened
      <4>1. pos[f] = 0
        BY <2>1, <3>3 DEF PipeInv, Base, IInv, Fresh
      <4> QED
        BY <3>1, <4>1, Division DEF Records, Piece
    <3> QED
      BY <3>2, <3>3
  <2>2. CASE f \notin watched
    <3>1. e \in Records(f, onTime[f])
      BY <1>1 DEF PipeInv, Filed
    <3> QED
      BY <2>2, <3>1 DEF PipeInv, Released
  <2> QED
    BY <2>1, <2>2
<1> QED
  BY <1>3 DEF Seen

(* The return of ExecuteStep delivers what Worker asks of it.              *)
LEMMA ExecuteStepSimulates ==
  ASSUME PipeInv, WatcherReturns, ~starting
  PROVE  W!ExecuteStep
<1>1. /\ pc = "read" /\ todo = {} /\ UNCHANGED <<events, delivered, skipped>>
      /\ loop' = "dispatch"
      /\ UNCHANGED <<now, size, found, minuteOf, late, prevMinute, sampleTime, isNew,
                     held, reports, lost, crashes, sampled, slow>>
  BY DEF WatcherReturns, EndRead, envVars, headerVars, seenVars
<1>2. loop = "read"
  BY <1>1, Labels DEF PipeInv, Placed
<1>3. UNCHANGED <<Clock, Known, Stamp, Delivered, InMemory>>
  BY <1>1 DEF Clock, Known, Stamp, Records, Delivered, InMemory
<1>4. Batch = {} /\ Batch' = InMemory /\ ~InInit /\ ~InInit'
  BY <1>1, <1>2, <1>3 DEF Batch, InInit
<1>5. InMemory \subseteq Known \ (Delivered \cup skipped)
  BY MemoryIsNew, SeenIsKnown DEF PipeInv, Seen
<1>6. Unread = Known \ (Delivered \cup skipped) /\ Unread' = Unread \ InMemory
  BY <1>1, <1>3, <1>4 DEF Unread
<1>7. InMemory \in W!Delivered
  <2>1. ASSUME NEW e \in Unread \ late, ~W!Leq(sampleTime, W!Deadline(Stamp[e]))
        PROVE  e \in InMemory
    <3>1. Stamp[e] = minuteOf[e]
      BY <1>6, <2>1, SeenIsKnown DEF Stamp
    <3> QED
      BY <1>1, <1>2, <1>6, <2>1, <3>1, DueIsRead
  <2>2. W!Due \subseteq InMemory
    BY <2>1 DEF W!Due, Unread, Stamp
  <2> QED
    BY <1>5, <1>6, <2>2 DEF W!Delivered, Unread
<1> QED
  BY <1>1, <1>2, <1>3, <1>4, <1>6, <1>7
  DEF Unread, Stamp, W!ExecuteStep, W!clockVars, W!ctlVars, W!histVars

(* Init passes over what the files hold.                                   *)
LEMMA InitSimulates ==
  ASSUME PipeInv, WatcherReturns, starting
  PROVE  W!DwInit
<1>1. /\ pc = "read" /\ events' = <<>> /\ UNCHANGED delivered
      /\ skipped' = skipped \cup (InMemory \ Delivered)
      /\ loop' = "check" /\ lost' = [s \in W!Section |-> W!RoutedTo(s, skipped')]
      /\ UNCHANGED <<now, size, found, minuteOf, late, prevMinute, sampleTime, isNew,
                     held, reports, crashes, sampled, slow>>
  BY DEF WatcherReturns, EndRead, envVars, headerVars, seenVars
<1>2. loop = "init" /\ delivered = <<>> /\ lost = W!NoEvents
  BY <1>1, Labels DEF PipeInv, Placed
<1>3. UNCHANGED <<Clock, Known, Stamp>> /\ Delivered = {} /\ Delivered' = {}
  BY <1>1, <1>2 DEF Clock, Known, Stamp, Records, Delivered
<1>4. skipped' \subseteq Known
  BY <1>1, SeenIsKnown DEF Seen
<1>5. /\ Batch = {} /\ Batch' = {}
      /\ Unread = Known /\ Unread' = Unread \ skipped'
  BY <1>1, <1>2, <1>3 DEF Batch, InInit, Unread
<1>6. lost' = [s \in W!Section |-> lost[s] \cup W!RoutedTo(s, skipped')]
  BY <1>1, <1>2 DEF W!NoEvents
<1>7. \E passed \in SUBSET Unread :
        /\ Unread' = Unread \ passed
        /\ lost' = [s \in W!Section |-> lost[s] \cup W!RoutedTo(s, passed)]
  BY <1>4, <1>5, <1>6
<1> QED
  BY <1>1, <1>2, <1>3, <1>5, <1>7
  DEF Unread, Stamp, W!DwInit, W!clockVars, W!ctlVars, W!histVars

(* The BOM is only found by Init: the process dies with nothing in hand.   *)
LEMMA KilledSimulates ==
  ASSUME PipeInv, Killed
  PROVE  W!Crash
<1>1. PICK f \in File : ReadBOM(f)
  BY DEF Killed
<1>2. /\ loop' = "crashed" /\ held' = W!NoEvents /\ pc = "read"
      /\ UNCHANGED <<delivered, now, size, found, minuteOf, late, prevMinute, sampleTime,
                     isNew, lost, reports, crashes, sampled, slow>>
  BY <1>1 DEF Killed, ReadBOM, Die, envVars, headerVars, seenVars
<1>3. starting
  BY <1>1, <1>2 DEF ReadBOM, PipeInv, BOMInInit
<1>4. loop = "init" /\ lost = W!NoEvents /\ held = W!NoEvents
  BY <1>2, <1>3, Labels DEF PipeInv, Placed
<1>5. UNCHANGED <<Clock, Known, Stamp>> /\ Batch = {} /\ Batch' = {}
  BY <1>2, <1>4 DEF Clock, Known, Stamp, Records, Batch
<1>6. Unread' = Unread
  BY <1>2, <1>4, <1>5 DEF Unread, InInit
<1>7. lost' = [s \in W!Section |-> lost[s] \cup held[s] \cup W!RoutedTo(s, Batch)]
  BY <1>2, <1>4, <1>5 DEF W!NoEvents, W!RoutedTo
<1> QED
  BY <1>2, <1>4, <1>5, <1>6, <1>7, Labels
  DEF Unread, Stamp, W!Crash, W!DropAll, W!clockVars, W!logVars, W!ctlVars, W!histVars

LEMMA DispatchSimulates ==
  ASSUME PipeInv, DispatchEvents
  PROVE  W!Dispatch
<1>1. /\ loop = "dispatch" /\ loop' = "report" /\ skipped' = skipped
      /\ held' = [s \in W!Section |-> held[s] \cup W!RoutedTo(s, InMemory)]
      /\ UNCHANGED <<now, size, found, minuteOf, late, prevMinute, sampleTime,
                     isNew, lost, reports, crashes, sampled, slow>>
  BY DEF DispatchEvents, ClearEvents, envVars, headerVars, seenVars
<1>2. UNCHANGED <<Clock, Known, Stamp>> /\ Batch = InMemory /\ Batch' = {}
  BY <1>1 DEF Clock, Known, Stamp, Records, Batch
<1>3. Delivered' = Delivered \cup InMemory
  <2>1. ClearEvents
    BY DEF DispatchEvents
  <2> QED
    BY <2>1, Taken DEF PipeInv, Base, IInv
<1>4. Unread' = Unread
  BY <1>1, <1>2, <1>3 DEF Unread, InInit
<1> QED
  BY <1>1, <1>2, <1>4
  DEF Unread, Stamp, W!Dispatch, W!clockVars, W!logVars, W!ctlVars, W!histVars

(* What the thread does not see of the watcher at work.                    *)
LEMMA WorkSimulates ==
  ASSUME PipeInv, CallWatcher \/ WatcherStep
  PROVE  [W!Next]_(W!vars)
<1>1. /\ UNCHANGED <<now, size, delivered, crashes>>
      /\ UNCHANGED skipped \/ pc = "seek"
      /\ pc \in {"down", "idle", "scan", "seek", "read", "check"}
  <2>1. CASE CallWatcher
    BY <2>1 DEF CallWatcher, Start, ExecuteStep, envVars, dataVars
  <2>2. CASE EndScan \/ EndSeek \/ CheckFile
    BY <2>2 DEF EndScan, EndSeek, CheckFile, envVars, dataVars
  <2>3. ASSUME NEW f \in File, Seek(f) \/ ReadFile(f)
        PROVE  /\ UNCHANGED <<now, size, delivered, crashes>>
               /\ UNCHANGED skipped \/ pc = "seek"
               /\ pc \in {"down", "idle", "scan", "seek", "read", "check"}
    BY <2>3 DEF Seek, ReadFile, envVars
  <2> QED
    BY <2>1, <2>2, <2>3 DEF WatcherStep
<1>2. UNCHANGED <<threadVars, headerVars, seenVars>>
  BY DEF CallWatcher, WatcherStep
<1>3. pc = "seek" => loop = "init"
  BY OnceTypes, Labels DEF PipeInv, Base, OnceInv, Placed
<1>4. loop # "dispatch" /\ loop' = loop
  BY <1>1, <1>2 DEF PipeInv, Placed, threadVars
<1>5. UNCHANGED <<Clock, Known, Stamp, late>> /\ Batch = {} /\ Batch' = {}
  BY <1>1, <1>2, <1>4 DEF headerVars, seenVars, Clock, Known, Stamp, Records, Batch
<1>6. Unread' = Unread
  BY <1>1, <1>3, <1>4, <1>5 DEF Unread, InInit, Delivered
<1> QED
  BY <1>1, <1>2, <1>5, <1>6, Stutters

-----------------------------------------------------------------------------
LEMMA PipeInitial == PipelineInit => PipeInv /\ W!Init
<1> SUFFICES ASSUME PipelineInit PROVE PipeInv /\ W!Init
  OBVIOUS
<1>1. /\ Init /\ loop = "start" /\ prevMinute = 0 /\ isNew = FALSE
      /\ sampleTime = [min |-> 0, sec |-> 0] /\ sampled = [min |-> 0, sec |-> 0]
      /\ held = W!NoEvents /\ lost = W!NoEvents /\ reports = <<>>
      /\ found = {} /\ minuteOf = [e \in Event |-> 0] /\ late = {} /\ slow = FALSE
  BY DEF PipelineInit, W!MinuteStart
<1>2. /\ now = 0 /\ delivered = <<>> /\ events = <<>> /\ skipped = {} /\ pc = "down"
      /\ starting = FALSE /\ watched = {} /\ opened = {} /\ failures = 0 /\ crashes = 0
      /\ size = [f \in File |-> -1] /\ onTime = [f \in File |-> -1]
  BY <1>1 DEF Init
<1>3. Clock = [min |-> 0, sec |-> 0]
  <2>1. 0 \in Nat /\ 0 = 0 * SecPerMin + 0 /\ 0 < SecPerMin
    BY Constants, SMT DEF Positive
  <2>2. 0 \div SecPerMin = 0 /\ 0 % SecPerMin = 0
    BY <2>1, Constants, Quotient
  <2> QED
    BY <1>2, <2>2 DEF Clock
<1>4. IInv
  BY <1>1, Initial
<1>5. Seen = {} /\ Handed = <<>>
  BY <1>2 DEF Seen, Delivered, InMemory, Handed
<1>6. OnceInv
  <2>1. LetGoInv
    BY <1>1, <1>4, BoundAssumption DEF IInv, Init, LetGoInv
  <2>2. OrderInv
    BY <1>2, <1>5 DEF OrderInv, Behind, Gone, InOrder, Disjoint
  <2> QED
    BY <1>2, <2>1, <2>2 DEF OnceInv
<1>7. Base
  BY <1>2, <1>4, <1>6, Constants DEF Base
<1>8. Placed
  <2>1. sampleTime \in [min : Nat, sec : Nat] /\ W!Leq(sampleTime, Clock)
    BY <1>1, <1>3 DEF W!Leq
  <2> QED
    BY <1>1, <1>2, <2>1, Labels DEF Placed
<1>9. Filed
  <2>1. \A f \in File : Records(f, size[f]) = {}
    BY <1>2, Division DEF Records, Piece
  <2>2. minuteOf \in [Event -> Nat] /\ \A e \in Event : minuteOf[e] <= Clock.min
    BY <1>1, <1>3
  <2> QED
    BY <1>1, <1>2, <1>5, <2>1, <2>2 DEF Filed
<1>10. PipeInv
  BY <1>1, <1>2, <1>7, <1>8, <1>9 DEF PipeInv, BOMInInit, Released, Visited
<1>11. Known = {} /\ Unread = {} /\ Batch = {} /\ Stamp = [e \in Event |-> 0]
  BY <1>1 DEF Known, Unread, Batch, Stamp, InInit
<1>12. W!Init
  BY <1>1, <1>2, <1>3, <1>11 DEF W!Init, W!MinuteStart, Unread, Stamp
<1> QED
  BY <1>10, <1>12

LEMMA PipeStep ==
  ASSUME PipeInv, [PipelineNext]_<<vars, threadVars, headerVars, seenVars, sluggish>>
  PROVE  PipeInv' /\ [W!Next]_(W!vars)
<1>1. [Next]_vars
  BY WatcherSteps DEF PipeInv, Placed, vars
<1>2. PipeInv'
  BY <1>1, BaseStep, BOMStep, PlacedStep, FiledStep, ReleasedStep, VisitedStep DEF PipeInv
<1>3. [W!Next]_(W!vars)
  <2>1. CASE TimePasses
    BY <2>1, TickSimulates DEF W!Next, W!Environment
  <2>2. CASE WatcherReturns
    BY <2>2, ExecuteStepSimulates, InitSimulates DEF W!Next, W!Loop
  <2>3. CASE Killed
    BY <2>3, KilledSimulates DEF W!Next, W!Environment
  <2>4. CASE DispatchEvents
    BY <2>4, DispatchSimulates DEF W!Next, W!Loop
  <2>5. CASE ThreadStep
    BY <2>5 DEF ThreadStep, W!Next, W!Loop
  <2>6. CASE UNCHANGED <<vars, threadVars, headerVars, seenVars, sluggish>>
    <3>1. UNCHANGED <<Clock, Known, Unread, Stamp, late, Batch, crashes, threadVars>>
      BY <2>6
      DEF vars, envVars, dataVars, threadVars, headerVars, seenVars, Clock, Known,
          Unread, Stamp, Batch, InInit, Records, Delivered, InMemory
    <3> QED
      BY <3>1, Stutters
  <2> QED
    BY <2>1, <2>2, <2>3, <2>4, <2>5, <2>6, WorkSimulates, LogGrowsSimulates,
       FileSeenSimulates
    DEF PipelineNext
<1> QED
  BY <1>2, <1>3

(* The loop with the watcher in it implements the loop as Worker.tla has   *)
(* it: when a reading ends, every event of a file found in time is there   *)
(* if its grace period was over when the iteration began.                  *)
THEOREM ImplementsWorkerHolds == PipelineSpec => ImplementsWorker
<1>1. PipelineInit => PipeInv /\ W!Init
  BY PipeInitial
<1>2. PipeInv /\ [PipelineNext]_<<vars, threadVars, headerVars, seenVars, sluggish>>
        => PipeInv' /\ [W!Next]_(W!vars)
  BY PipeStep
<1> QED
  BY <1>1, <1>2, PTL DEF PipelineSpec, ImplementsWorker, W!Spec

-----------------------------------------------------------------------------
(* The thread as Worker.tla has it: its invariant holds here too. *)

WP == INSTANCE WorkerProofs WITH
    MaxLag <- MaxTime, MaxMinute <- MaxTime \div SecPerMin, MaxStarts <- 1,
    now <- Clock, pc <- loop, curTime <- sampleTime,
    written <- Known,
    unread <- IF InInit THEN Known ELSE Known \ (Delivered \cup skipped \cup Batch),
    stamp <- [e \in Event |-> IF e \in Known THEN minuteOf[e] ELSE 0],
    batch <- Batch, stop <- loop = "exited", starts <- crashes + 1

(* The operators of the two instances of Worker are the same.              *)
LEMMA SameRouting ==
  /\ W!Section = WP!Section /\ W!Aggregators = WP!Aggregators
  /\ W!NoEvents = WP!NoEvents
  /\ \A s, E : W!RoutedTo(s, E) = WP!RoutedTo(s, E)
  /\ \A t, u : W!Leq(t, u) <=> WP!Leq(t, u)
  /\ \A m : W!Deadline(m) = WP!Deadline(m) /\ W!MinuteStart(m) = WP!MinuteStart(m)
<1>1. /\ W!Section = WP!Section /\ W!Aggregators = WP!Aggregators
      /\ W!NoEvents = WP!NoEvents
  BY DEF W!Section, WP!Section, W!Aggregators, WP!Aggregators, W!Accumulators,
         WP!Accumulators, W!NoEvents, WP!NoEvents
<1>2. \A s, E : W!RoutedTo(s, E) = WP!RoutedTo(s, E)
  BY DEF W!RoutedTo, WP!RoutedTo, W!SectionsOf, WP!SectionsOf
<1>3. \A t, u : W!Leq(t, u) <=> WP!Leq(t, u)
  BY DEF W!Leq, WP!Leq
<1>4. \A m : W!Deadline(m) = WP!Deadline(m) /\ W!MinuteStart(m) = WP!MinuteStart(m)
  BY DEF W!Deadline, WP!Deadline, W!MinuteStart, WP!MinuteStart
<1> QED
  BY <1>1, <1>2, <1>3, <1>4

(* So are the initial states and the steps.                                *)
LEMMA SameInit == W!Init => WP!Init
BY DEF W!Init, WP!Init, W!MinuteStart, WP!MinuteStart, W!NoEvents, WP!NoEvents,
       W!Section, WP!Section, W!Aggregators, WP!Aggregators, W!Accumulators,
       WP!Accumulators

LEMMA SameStep == [W!Next]_(W!vars) => [WP!Next]_(WP!vars)
<1> USE DEF W!clockVars, W!logVars, W!loopVars, W!dataVars, W!ctlVars, W!histVars,
            WP!clockVars, WP!logVars, WP!loopVars, WP!dataVars, WP!ctlVars,
            WP!histVars
<1>1. W!Tick => WP!Tick
  BY DEF W!Tick, WP!Tick, W!MinuteStart, WP!MinuteStart
<1>2. ASSUME NEW n, NEW a, W!Write(n, a) PROVE WP!Write(n, a)
  BY <1>2 DEF W!Write, WP!Write, W!Leq, WP!Leq, W!Deadline, WP!Deadline
<1>3. W!RequestStop => WP!RequestStop
  BY DEF W!RequestStop, WP!RequestStop, W!Running, WP!Running, W!Labels, WP!Labels
<1>4. W!DropAll => WP!DropAll
  BY DEF W!DropAll, WP!DropAll, W!NoEvents, WP!NoEvents, W!RoutedTo, WP!RoutedTo,
         W!SectionsOf, WP!SectionsOf, W!Section, WP!Section, W!Aggregators,
         WP!Aggregators, W!Accumulators, WP!Accumulators
<1>5. (W!Crash => WP!Crash) /\ (W!Exit => WP!Exit)
  BY <1>4 DEF W!Crash, WP!Crash, W!Exit, WP!Exit, W!Running, WP!Running, W!Labels,
              WP!Labels
<1>6. W!Restart => WP!Restart
  BY DEF W!Restart, WP!Restart
<1>7. W!StartLoop => WP!StartLoop
  BY DEF W!StartLoop, WP!StartLoop, W!MinuteStart, WP!MinuteStart
<1>8. W!DwInit => WP!DwInit
  BY DEF W!DwInit, WP!DwInit, W!RoutedTo, WP!RoutedTo, W!SectionsOf, WP!SectionsOf,
         W!Section, WP!Section, W!Aggregators, WP!Aggregators, W!Accumulators,
         WP!Accumulators
<1>9. W!NewIteration => WP!NewIteration
  BY DEF W!NewIteration, WP!NewIteration
<1>10. W!ExecuteStep => WP!ExecuteStep
  BY DEF W!ExecuteStep, WP!ExecuteStep, W!Delivered, WP!Delivered, W!Due, WP!Due,
         W!Leq, WP!Leq, W!Deadline, WP!Deadline
<1>11. W!Dispatch => WP!Dispatch
  BY DEF W!Dispatch, WP!Dispatch, W!RoutedTo, WP!RoutedTo, W!SectionsOf,
         WP!SectionsOf, W!Section, WP!Section, W!Aggregators, WP!Aggregators,
         W!Accumulators, WP!Accumulators
<1>12. W!SendReport => WP!SendReport
  BY DEF W!SendReport, WP!SendReport, W!ReportDue, WP!ReportDue, W!Taken, WP!Taken,
         W!Section, WP!Section, W!Aggregators, WP!Aggregators, W!Accumulators,
         WP!Accumulators
<1>13. W!NoReport => WP!NoReport
  BY DEF W!NoReport, WP!NoReport, W!ReportDue, WP!ReportDue
<1>14. W!Pace => WP!Pace
  BY DEF W!Pace, WP!Pace, W!Prompt, WP!Prompt
<1>15. UNCHANGED W!vars => UNCHANGED WP!vars
  BY DEF W!vars, WP!vars
<1>16. W!Environment => WP!Environment
  <2>1. ASSUME NEW n \in SUBSET (Event \ Known), NEW a \in [n -> 0 .. Clock.min],
               W!Write(n, a)
        PROVE  WP!Environment
    BY <1>2, <2>1 DEF WP!Environment
  <2> QED
    BY <1>1, <1>3, <1>5, <1>6, <2>1, Zenon DEF W!Environment, WP!Environment
<1>17. W!Loop => WP!Loop
  BY <1>5, <1>7, <1>8, <1>9, <1>10, <1>11, <1>12, <1>13, <1>14, Zenon
  DEF W!Loop, WP!Loop
<1> QED
  BY <1>15, <1>16, <1>17, Zenon DEF W!Next, WP!Next

LEMMA WorkerStep ==
  (WP!Init => WP!IInv) /\ (WP!IInv /\ [WP!Next]_(WP!vars) => WP!IInv')
<1>1. /\ KindOf \in [Event -> WP!Kinds]
      /\ SecPerMin \in Nat /\ Grace \in Nat /\ Grace + 1 < SecPerMin
      /\ MaxTime \in Nat /\ MaxTime \div SecPerMin \in Nat /\ 1 \in Nat
  BY WorkerAssumption, Constants, Split DEF Positive, WP!Kinds, W!Kinds
<1>2. WP!Init => WP!IInv
  BY <1>1, WP!InitInv, Zenon
<1>3. WP!IInv /\ [WP!Next]_(WP!vars) => WP!IInv'
  BY <1>1, WP!NextInv, Zenon
<1> QED
  BY <1>2, <1>3

\* The thread is between StartLoop and its end.
Active == loop \in {"init", "check", "read", "dispatch", "report", "pace"}

(* What the invariant of the worker says of the loop here.                 *)
LEMMA WorkerFacts ==
  ASSUME WP!IInv, now \in Nat
  PROVE  /\ prevMinute \in Nat /\ reports \in Seq(WP!Report)
         /\ sampled \in [min : Nat, sec : 0 .. SecPerMin - 1]
         /\ sampleTime \in [min : Nat, sec : 0 .. SecPerMin - 1]
         /\ Active => prevMinute <= sampleTime.min /\ sampled.min = sampleTime.min
         /\ loop \in {"read", "dispatch", "report"} =>
                isNew = (prevMinute # sampleTime.min)
         /\ \A i \in DOMAIN reports : reports[i].date \in Nat /\ reports[i].date < Clock.min
<1>1. /\ prevMinute \in Nat /\ reports \in Seq(WP!Report)
      /\ sampled \in [min : Nat, sec : 0 .. SecPerMin - 1]
      /\ sampleTime \in [min : Nat, sec : 0 .. SecPerMin - 1]
  BY DEF WP!IInv, WP!TypeOK, WP!Time
<1>2. Active => prevMinute <= sampleTime.min /\ sampled.min = sampleTime.min
  BY DEF WP!IInv, WP!ClockInv, WP!SampleInv, WP!Active, Active
<1>3. loop \in {"read", "dispatch", "report"} => isNew = (prevMinute # sampleTime.min)
  BY DEF WP!IInv, WP!IsNewInv
<1>4. ASSUME NEW i \in DOMAIN reports
      PROVE  reports[i].date \in Nat /\ reports[i].date < Clock.min
  <2>1. reports[i].date \in Nat
    <3>1. reports[i] \in WP!Report
      BY <1>1
    <3> QED
      BY <3>1 DEF WP!Report
  <2>2. ~WP!Leq(Clock, WP!Deadline(reports[i].date))
    BY DEF WP!IInv, WP!ReportsOrdered
  <2>3. Clock.min \in Nat
    BY ClockFacts
  <2> QED
    BY <2>1, <2>2, <2>3 DEF WP!Leq, WP!Deadline
<1> QED
  BY <1>1, <1>2, <1>3, <1>4

-----------------------------------------------------------------------------
(* From the file to the report: what the times of a brisk loop give. *)

(* The converse of InGrace.                                                *)
LEMMA GraceLasts ==
  ASSUME now \in Nat, NEW m \in Nat, now <= GraceEnds(m)
  PROVE  W!Leq(Clock, W!Deadline(m))
<1>1. /\ Clock.min \in Nat /\ Clock.sec \in Nat /\ Clock.sec < SecPerMin
      /\ now = Clock.min * SecPerMin + Clock.sec
      /\ SecPerMin \in Positive /\ Grace \in Nat /\ Grace < SecPerMin
  <2>1. Grace < SecPerMin
    BY Constants, WorkerAssumption DEF Positive
  <2> QED
    BY <2>1, ClockFacts, Constants
<1>2. Clock.min * SecPerMin \in Nat /\ (m + 1) * SecPerMin \in Nat
  BY <1>1, Product
<1>3. ASSUME m + 2 <= Clock.min PROVE FALSE
  <2>1. (m + 2) * SecPerMin <= Clock.min * SecPerMin
    BY <1>1, <1>3, Times
  <2>2. ((m + 1) + 1) * SecPerMin = (m + 1) * SecPerMin + SecPerMin /\ (m + 1) + 1 = m + 2
    BY <1>1, Next1
  <2> QED
    BY <1>1, <1>2, <2>1, <2>2, SMT DEF Positive, GraceEnds
<1>4. CASE Clock.min = m + 1
  <2>1. Clock.sec <= Grace
    BY <1>1, <1>2, <1>4, SMT DEF GraceEnds
  <2> QED
    BY <1>4, <2>1 DEF W!Leq, W!Deadline
<1>5. CASE Clock.min < m + 1
  BY <1>5 DEF W!Leq, W!Deadline
<1> QED
  BY <1>1, <1>3, <1>4, <1>5, SMT

LEMMA TicksOfClock ==
  ASSUME now \in Nat
  PROVE  Ticks(Clock) = now
BY ClockFacts DEF Ticks

LEMMA TicksType ==
  ASSUME NEW t \in [min : Nat, sec : 0 .. SecPerMin - 1]
  PROVE  Ticks(t) \in Nat
<1>1. t.min \in Nat /\ t.sec \in Nat
  BY Constants DEF Positive
<1>2. t.min * SecPerMin \in Nat
  BY <1>1, Constants, Product
<1> QED
  BY <1>1, <1>2 DEF Ticks

(* An iteration that began in minute m and was brisk leaves the next one   *)
(* the time to find the files of m before the grace period is over.        *)
LEMMA BriskEnough ==
  ASSUME now \in Nat, NEW t \in [min : Nat, sec : 0 .. SecPerMin - 1],
         now <= Ticks(t) + Brisk
  PROVE  now + Brisk <= GraceEnds(t.min)
<1>1. /\ t.min \in Nat /\ t.sec \in Nat /\ t.sec + 1 <= SecPerMin
      /\ SecPerMin \in Positive /\ Grace \in Nat
      /\ Brisk \in Nat /\ 2 * Brisk <= Grace + 1
  BY Constants, CompositionAssumption DEF Positive
<1>2. t.min * SecPerMin \in Nat /\ (t.min + 1) * SecPerMin = t.min * SecPerMin + SecPerMin
  BY <1>1, Product, Next1
<1>3. now <= t.min * SecPerMin + t.sec + Brisk
  BY DEF Ticks
<1> QED
  BY <1>1, <1>2, <1>3, SMT DEF GraceEnds, Positive

\* What was in the log within minute m was found within its grace period.
FoundInTime(m) == \A e \in inMinute : minuteOf[e] = m => e \in Known \ late

\* The first iteration after minute m = prevMinute, which reads the directory,
\* has not done so, or not gone past a file with events of m.
Looking ==
    /\ Ticks(sampled) + Brisk <= GraceEnds(prevMinute)
    /\ \/ loop = "check"
       \/ loop = "read" /\ pc = "idle"
       \/ /\ loop = "read" /\ pc = "scan"
          /\ \A e \in inMinute : minuteOf[e] = prevMinute => e \in Known \/ e[1] \in todo

\* Without a slow iteration, the clock is not far from its last reading.
OnSchedule == ~sluggish => now <= Ticks(sampled) + Brisk

\* In time are events that were written, and late ones are known and late.
Timely ==
    /\ \A e \in inMinute : e \in Event /\ e \in Records(e[1], size[e[1]])
    /\ \A e \in late : e \in Known /\ ~W!Leq(Clock, W!Deadline(minuteOf[e]))

\* The files of the minute that is to be reported are found in time.
InTime ==
    /\ loop = "init" => prevMinute = sampleTime.min
    /\ ~sluggish /\ Active /\ prevMinute < sampleTime.min =>
          FoundInTime(prevMinute) \/ Looking
    /\ ~sluggish => \A i \in DOMAIN reports : FoundInTime(reports[i].date)

PromptInv == PipeInv /\ WP!IInv /\ OnSchedule /\ Timely /\ InTime

-----------------------------------------------------------------------------
(* Only the server, the clock and the reading of the directory change what *)
(* the log holds and what is known of it.                                  *)
LEMMA Quiet ==
  ASSUME CallWatcher \/ WatcherStep \/ WatcherReturns \/ Killed \/ DispatchEvents
           \/ ThreadStep \/ UNCHANGED <<vars, threadVars, headerVars, seenVars, sluggish>>
  PROVE  UNCHANGED <<now, size, minuteOf, inMinute, late, found, sluggish>>
<1> USE DEF headerVars, seenVars, envVars
<1>1. CASE CallWatcher
  BY <1>1 DEF CallWatcher, Start, ExecuteStep
<1>2. CASE WatcherStep
  <2>1. EndScan \/ EndSeek \/ CheckFile \/ (\E f \in File : Seek(f) \/ ReadFile(f))
          => UNCHANGED <<now, size>>
    BY DEF EndScan, EndSeek, CheckFile, Seek, ReadFile
  <2> QED
    BY <1>2, <2>1 DEF WatcherStep
<1>3. CASE WatcherReturns
  BY <1>3 DEF WatcherReturns, EndRead
<1>4. CASE Killed
  BY <1>4 DEF Killed, ReadBOM, Die
<1>5. CASE DispatchEvents
  BY <1>5 DEF DispatchEvents, ClearEvents
<1>6. CASE ThreadStep \/ UNCHANGED <<vars, threadVars, headerVars, seenVars, sluggish>>
  BY <1>6 DEF ThreadStep, vars
<1> QED
  BY <1>1, <1>2, <1>3, <1>4, <1>5, <1>6

LEMMA OnScheduleStep ==
  ASSUME Base, WP!IInv, OnSchedule,
         [PipelineNext]_<<vars, threadVars, headerVars, seenVars, sluggish>>
  PROVE  OnSchedule'
<1> USE DEF threadVars, envVars
<1>0. now \in Nat /\ Brisk \in Nat /\ Ticks(sampled) \in Nat
  BY BaseTypes, CompositionAssumption, WorkerFacts, TicksType
<1>1. ASSUME UNCHANGED <<now, sampled, sluggish>> PROVE OnSchedule'
  BY <1>1 DEF OnSchedule, Ticks
<1>2. ASSUME UNCHANGED now, sampled' = Clock PROVE OnSchedule'
  <2>1. Ticks(sampled') = now
    BY <1>0, <1>2, TicksOfClock
  <2>2. Ticks(sampled)' = now
    BY <2>1 DEF Ticks
  <2> QED
    BY <1>0, <1>2, <2>2 DEF OnSchedule
<1>3. CASE TimePasses
  <2>1. now' = now + 1 /\ UNCHANGED sampled
        /\ sluggish' = (sluggish \/ now' - Ticks(sampled) > Brisk)
    BY <1>3 DEF TimePasses, Tick
  <2>2. Ticks(sampled)' = Ticks(sampled)
    BY <2>1 DEF Ticks
  <2>3. SUFFICES ASSUME ~sluggish' PROVE now' <= Ticks(sampled) + Brisk
    BY <2>2 DEF OnSchedule
  <2>4. ~(now' - Ticks(sampled) > Brisk)
    BY <2>1, <2>3
  <2> QED
    BY <1>0, <2>1, <2>4
<1>4. ASSUME NEW f \in File, LogGrows(f) \/ FileSeen(f) PROVE OnSchedule'
  BY <1>1, <1>4 DEF LogGrows, Write, FileSeen, AddFile
<1>5. CASE CallWatcher \/ WatcherStep \/ WatcherReturns \/ Killed \/ DispatchEvents
  <2>1. UNCHANGED sampled
    BY <1>5 DEF CallWatcher, WatcherStep, WatcherReturns, Killed, DispatchEvents
  <2> QED
    BY <1>1, <1>5, <2>1, Quiet
<1>6. CASE ThreadStep
  <2>1. UNCHANGED <<now, sluggish>>
    BY <1>6, Quiet
  <2>2. sampled' = Clock \/ sampled' = sampled
    BY <1>6 DEF ThreadStep, W!StartLoop, W!NewIteration, W!SendReport, W!NoReport,
                W!Pace, W!histVars
  <2> QED
    BY <1>1, <1>2, <2>1, <2>2
<1>7. CASE UNCHANGED <<vars, threadVars, headerVars, seenVars, sluggish>>
  BY <1>1, <1>7 DEF vars
<1> QED
  BY <1>3, <1>4, <1>5, <1>6, <1>7 DEF PipelineNext

-----------------------------------------------------------------------------
(* The log of a minute that is over. *)

(* A write adds to the events in time only those of the current minute.    *)
LEMMA LogGrowsInMinute ==
  ASSUME Base, Filed, NEW f \in File, LogGrows(f)
  PROVE  \/ inMinute' = inMinute
         \/ /\ inMinute' = inMinute \cup Completed(f)
            /\ \A e \in Completed(f) : minuteOf'[e] = Clock.min
<1>1. PICK m \in MinutesOf(f) :
        /\ minuteOf' = [e \in Event |-> IF e \in Completed(f) THEN m ELSE minuteOf[e]]
        /\ inMinute' = IF m = Clock.min THEN inMinute \cup Completed(f) ELSE inMinute
  BY DEF LogGrows, Completed
<1>2. Completed(f) \subseteq Event
  BY LogGrowsFacts
<1> QED
  BY <1>1, <1>2

(* What is known stays known, with its minute.                             *)
LEMMA KnownStays ==
  ASSUME PipeInv, [PipelineNext]_<<vars, threadVars, headerVars, seenVars, sluggish>>
  PROVE  /\ Known \subseteq Known'
         /\ \A f \in File : \A e \in Records(f, size[f]) : minuteOf'[e] = minuteOf[e]
<1>0. Base /\ Filed /\ found \subseteq File
  BY BaseTypes DEF PipeInv, Filed
<1>1. ASSUME UNCHANGED <<size, minuteOf>>, found \subseteq found'
      PROVE  /\ Known \subseteq Known'
             /\ \A f \in File : \A e \in Records(f, size[f]) : minuteOf'[e] = minuteOf[e]
  BY <1>1 DEF Known, Records
<1>2. CASE TimePasses
  BY <1>1, <1>2 DEF TimePasses, Tick, headerVars, seenVars
<1>3. ASSUME NEW f \in File, FileSeen(f)
      PROVE  UNCHANGED <<size, minuteOf>> /\ found \subseteq found'
  BY <1>0, <1>3, FileSeenFacts
<1>4. ASSUME NEW f \in File, LogGrows(f)
      PROVE  /\ Known \subseteq Known'
             /\ \A g \in File : \A e \in Records(g, size[g]) : minuteOf'[e] = minuteOf[e]
  <2>1. \A g \in File : Records(g, size[g]) \subseteq Records(g, size'[g])
    BY <1>0, <1>4, LogGrowsFacts
  <2>2. UNCHANGED found
    BY <1>0, <1>4, LogGrowsFacts
  <2>3. Known' = UNION {Records(g, size'[g]) : g \in found}
    BY <2>2 DEF Known, Records
  <2>4. Known \subseteq Known'
    BY <1>0, <2>1, <2>3 DEF Known
  <2>5. ASSUME NEW g \in File, NEW e \in Records(g, size[g])
        PROVE  e \in Event /\ e \notin Completed(f)
    <3>1. e \in Event /\ e[1] = g
      BY <1>0, <2>5, BaseTypes, RecordsAreEvents, RecordsOf
    <3>2. e \in Completed(f) => e[1] = f
      BY <1>0, <1>4, LogGrowsFacts
    <3> QED
      BY <2>5, <3>1, <3>2 DEF Completed
  <2> QED
    BY <1>0, <1>4, <2>4, <2>5, LogGrowsFacts
<1>5. CASE CallWatcher \/ WatcherStep \/ WatcherReturns \/ Killed \/ DispatchEvents
             \/ ThreadStep \/ UNCHANGED <<vars, threadVars, headerVars, seenVars, sluggish>>
  BY <1>1, <1>5, Quiet
<1> QED
  BY <1>1, <1>2, <1>3, <1>4, <1>5 DEF PipelineNext

(* What comes to be late is made known by the same step.                   *)
LEMMA LateGrows ==
  ASSUME PipeInv, Timely,
         [PipelineNext]_<<vars, threadVars, headerVars, seenVars, sluggish>>
  PROVE  \A e \in late' : \/ e \in late
                          \/ /\ e \in Known' /\ e \notin Known
                             /\ ~W!Leq(Clock, W!Deadline(minuteOf'[e])) /\ now' = now
<1>0. Base /\ Filed
  BY DEF PipeInv
<1>1. ASSUME NEW f \in File, LogGrows(f), NEW e \in late', e \notin late
      PROVE  /\ e \in Known' /\ e \notin Known
             /\ ~W!Leq(Clock, W!Deadline(minuteOf'[e])) /\ now' = now
  <2>1. f \in found /\ e \in LateOf(Completed(f), minuteOf') /\ UNCHANGED <<found, now>>
    BY <1>0, <1>1, LogGrowsFacts
  <2>2. e \in Completed(f) /\ ~W!Leq(Clock, W!Deadline(minuteOf'[e]))
    BY <2>1 DEF LateOf
  <2>3. e \in Records(f, size'[f]) /\ e \notin Records(f, size[f]) /\ e[1] = f
    BY <2>2, RecordsOf DEF Completed
  <2>4. e \in Known'
    BY <2>1, <2>3 DEF Known, Records
  <2>5. e \notin Known
    BY <2>3, RecordsOf DEF Known
  <2> QED
    BY <2>1, <2>2, <2>4, <2>5
<1>2. ASSUME NEW f \in File, FileSeen(f), NEW e \in late', e \notin late
      PROVE  /\ e \in Known' /\ e \notin Known
             /\ ~W!Leq(Clock, W!Deadline(minuteOf'[e])) /\ now' = now
  <2>1. e \in LateOf(Found(f), minuteOf) /\ UNCHANGED <<now, size, minuteOf>>
    BY <1>0, <1>2, FileSeenFacts
  <2>2. e \in Found(f) /\ ~W!Leq(Clock, W!Deadline(minuteOf[e]))
    BY <2>1 DEF LateOf
  <2>3. PICK g \in found' \ found : e \in Records(g, size[g])
    BY <2>2 DEF Found
  <2>4. e \in Known'
    BY <2>1, <2>3 DEF Known, Records
  <2>5. e \notin Known
    BY <2>3, RecordsOf DEF Known
  <2> QED
    BY <2>1, <2>2, <2>4, <2>5
<1>3. CASE TimePasses
  BY <1>3 DEF TimePasses, seenVars
<1>4. CASE CallWatcher \/ WatcherStep \/ WatcherReturns \/ Killed \/ DispatchEvents
             \/ ThreadStep \/ UNCHANGED <<vars, threadVars, headerVars, seenVars, sluggish>>
  BY <1>4, Quiet
<1> QED
  BY <1>1, <1>2, <1>3, <1>4 DEF PipelineNext

LEMMA TimelyStep ==
  ASSUME PipeInv, Timely, [PipelineNext]_<<vars, threadVars, headerVars, seenVars, sluggish>>
  PROVE  Timely'
<1>0. Base /\ Filed /\ now \in Nat /\ minuteOf \in [Event -> Nat] /\ found \subseteq File
  BY BaseTypes DEF PipeInv, Filed
<1>1. \A e \in inMinute' : e \in Event /\ e \in Records(e[1], size'[e[1]])
  <2>1. ASSUME inMinute' = inMinute, \A f \in File : Records(f, size[f]) \subseteq Records(f, size'[f])
        PROVE  \A e \in inMinute' : e \in Event /\ e \in Records(e[1], size'[e[1]])
    BY <2>1 DEF Timely, Event
  <2>2. ASSUME NEW f \in File, LogGrows(f)
        PROVE  \A e \in inMinute' : e \in Event /\ e \in Records(e[1], size'[e[1]])
    <3>1. \A g \in File : Records(g, size[g]) \subseteq Records(g, size'[g])
      BY <1>0, <2>2, LogGrowsFacts
    <3>2. \A e \in Completed(f) : e \in Event /\ e[1] = f /\ e \in Records(f, size'[f])
      BY <1>0, <2>2, LogGrowsFacts DEF Completed
    <3>3. inMinute' = inMinute \/ inMinute' = inMinute \cup Completed(f)
      BY <1>0, <2>2, LogGrowsInMinute
    <3> QED
      BY <3>1, <3>2, <3>3 DEF Timely, Event
  <2>3. ASSUME NEW f \in File, FileSeen(f) PROVE UNCHANGED <<size, inMinute>>
    BY <2>3 DEF FileSeen, AddFile, headerVars, envVars
  <2>4. TimePasses => UNCHANGED <<size, inMinute>>
    BY DEF TimePasses, Tick, headerVars
  <2>5. UNCHANGED <<size, inMinute>> => 
          \A f \in File : Records(f, size[f]) \subseteq Records(f, size'[f])
    OBVIOUS
  <2> QED
    BY <2>1, <2>2, <2>3, <2>4, <2>5, Quiet DEF PipelineNext
<1>2. now' \in Nat /\ (now' = now \/ now' = now + 1)
  <2>1. [Next]_vars
    BY WatcherSteps DEF PipeInv, Placed, vars
  <2> QED
    BY <1>0, <2>1, ClockBound DEF Base
<1>3. ASSUME NEW e \in late
      PROVE  e \in Known' /\ ~W!Leq(Clock', W!Deadline(minuteOf'[e]))
  <2>1. e \in Known /\ ~W!Leq(Clock, W!Deadline(minuteOf[e]))
    BY <1>3 DEF Timely
  <2>2. e \in Known' /\ minuteOf'[e] = minuteOf[e]
    BY <1>0, <2>1, KnownStays DEF Known
  <2>3. minuteOf[e] \in Nat
    BY <1>0, <2>1, SeenIsKnown
  <2>4. ~W!Leq(Clock', W!Deadline(minuteOf[e]))
    <3>1. W!Deadline(minuteOf[e]).min \in Nat /\ W!Deadline(minuteOf[e]).sec \in Nat
      BY <2>3, Constants DEF W!Deadline
    <3>2. now' = now => Clock' = Clock
      BY DEF Clock
    <3> QED
      BY <1>0, <1>2, <2>1, <3>1, <3>2, ClockTicks, ClockFacts DEF W!Leq
  <2> QED
    BY <2>2, <2>4
<1>4. ASSUME NEW e \in late'
      PROVE  e \in Known' /\ ~W!Leq(Clock', W!Deadline(minuteOf'[e]))
  <2>1. CASE e \in late
    BY <1>3, <2>1
  <2>2. CASE e \notin late
    <3>1. e \in Known' /\ ~W!Leq(Clock, W!Deadline(minuteOf'[e])) /\ now' = now
      BY <1>4, <2>2, LateGrows
    <3> QED
      BY <3>1 DEF Clock
  <2> QED
    BY <2>1, <2>2
<1> QED
  BY <1>1, <1>4 DEF Timely, Records, W!Leq, W!Deadline

(* Once a minute is over, what was in time for it is settled.              *)
LEMMA MinuteSettled ==
  ASSUME PipeInv, Timely, [PipelineNext]_<<vars, threadVars, headerVars, seenVars, sluggish>>,
         NEW m \in Nat, m < Clock.min
  PROVE  /\ \A e \in inMinute' : minuteOf'[e] = m => e \in inMinute /\ minuteOf[e] = m
         /\ FoundInTime(m) => FoundInTime(m)'
<1>0. Base /\ Filed /\ now \in Nat /\ Clock.min \in Nat
  BY BaseTypes, ClockFacts DEF PipeInv
<1>1. \A e \in inMinute : minuteOf'[e] = minuteOf[e]
  BY KnownStays DEF Timely, Event
<1>2. inMinute' = inMinute \/ \E f \in File : LogGrows(f)
  <2>1. TimePasses => UNCHANGED inMinute
    BY DEF TimePasses, headerVars
  <2>2. \A f \in File : FileSeen(f) => UNCHANGED inMinute
    BY DEF FileSeen, headerVars
  <2> QED
    BY <2>1, <2>2, Quiet DEF PipelineNext
<1>3. ASSUME NEW e \in inMinute', minuteOf'[e] = m
      PROVE  e \in inMinute /\ minuteOf[e] = m
  <2>1. e \in inMinute
    BY <1>0, <1>2, <1>3, LogGrowsInMinute
  <2> QED
    BY <1>1, <1>3, <2>1
<1>4. ASSUME FoundInTime(m), NEW e \in inMinute', minuteOf'[e] = m
      PROVE  e \in Known' \ late'
  <2>1. e \in Known \ late
    BY <1>3, <1>4 DEF FoundInTime
  <2> QED
    BY <2>1, KnownStays, LateGrows
<1> QED
  BY <1>3, <1>4 DEF FoundInTime

-----------------------------------------------------------------------------
(* The search for the files of a minute. *)

LEMMA Past ==
  ASSUME PipeInv, WP!IInv
  PROVE  /\ now \in Nat /\ Clock.min \in Nat /\ prevMinute \in Nat
         /\ sampleTime.min \in Nat /\ sampleTime.min <= Clock.min
<1>1. now \in Nat
  BY BaseTypes DEF PipeInv
<1>2. Clock.min \in Nat /\ prevMinute \in Nat
  BY <1>1, ClockFacts, WorkerFacts
<1>3. sampleTime \in [min : Nat, sec : Nat] /\ W!Leq(sampleTime, Clock)
  BY DEF PipeInv, Placed
<1>4. sampleTime.min \in Nat
  BY <1>3
<1>5. sampleTime.min <= Clock.min
  BY <1>2, <1>3, <1>4, SMT DEF W!Leq
<1> QED
  BY <1>1, <1>2, <1>4, <1>5

LEMMA SluggishStays ==
  ASSUME [PipelineNext]_<<vars, threadVars, headerVars, seenVars, sluggish>>, sluggish
  PROVE  sluggish'
<1>1. TimePasses => sluggish'
  BY DEF TimePasses
<1>2. \A f \in File : LogGrows(f) \/ FileSeen(f) => UNCHANGED sluggish
  BY DEF LogGrows, FileSeen
<1> QED
  BY <1>1, <1>2, Quiet DEF PipelineNext

(* While the loop looks, the grace period lasts, and nothing is late.      *)
LEMMA LookingInGrace ==
  ASSUME PipeInv, WP!IInv, OnSchedule, Timely, Looking, ~sluggish
  PROVE  /\ now <= GraceEnds(prevMinute)
         /\ \A e \in late : minuteOf[e] # prevMinute
<1>1. now \in Nat /\ prevMinute \in Nat /\ Ticks(sampled) \in Nat /\ Brisk \in Nat
  BY Past, WorkerFacts, TicksType, CompositionAssumption
<1>2. GraceEnds(prevMinute) \in Nat
  <2>1. SecPerMin \in Positive /\ Grace \in Nat /\ prevMinute + 1 \in Nat
    BY <1>1, Constants
  <2>2. (prevMinute + 1) * SecPerMin \in Nat
    BY <2>1, Product
  <2> QED
    BY <2>1, <2>2 DEF GraceEnds
<1>3. now <= Ticks(sampled) + Brisk /\ Ticks(sampled) + Brisk <= GraceEnds(prevMinute)
  BY DEF OnSchedule, Looking
<1>4. now <= GraceEnds(prevMinute)
  BY <1>1, <1>2, <1>3
<1>5. W!Leq(Clock, W!Deadline(prevMinute))
  BY <1>1, <1>4, GraceLasts
<1> QED
  BY <1>4, <1>5 DEF Timely

(* What is found in time, of a minute that is over, stays so.              *)
LEMMA StaysFound ==
  ASSUME PipeInv, Timely, [PipelineNext]_<<vars, threadVars, headerVars, seenVars, sluggish>>
  PROVE  \A m \in Nat : m < Clock.min /\ FoundInTime(m) =>
            \A e \in inMinute' : minuteOf'[e] = m => e \in Known' \ late'
BY MinuteSettled DEF FoundInTime

LEMMA ReportsFound ==
  ASSUME PipeInv, WP!IInv, Timely, InTime, ~sluggish,
         [PipelineNext]_<<vars, threadVars, headerVars, seenVars, sluggish>>
  PROVE  \A i \in DOMAIN reports : \A e \in inMinute' :
            minuteOf'[e] = reports[i].date => e \in Known' \ late'
<1>1. ASSUME NEW i \in DOMAIN reports
      PROVE  reports[i].date \in Nat /\ reports[i].date < Clock.min
             /\ FoundInTime(reports[i].date)
  BY <1>1, Past, WorkerFacts DEF InTime
<1> QED
  BY <1>1, StaysFound

LEMMA InTimeKept ==
  ASSUME PipeInv, WP!IInv, Timely, InTime,
         [PipelineNext]_<<vars, threadVars, headerVars, seenVars, sluggish>>,
         UNCHANGED <<prevMinute, reports>>, sampleTime' = sampleTime \/ sampleTime' = Clock,
         loop' = "init" => prevMinute = sampleTime'.min,
         ~sluggish /\ Active' /\ prevMinute < sampleTime'.min =>
            FoundInTime(prevMinute) \/ Looking'
  PROVE  InTime'
<1>1. ASSUME ~sluggish', Active', prevMinute' < sampleTime'.min, ~Looking'
      PROVE  FoundInTime(prevMinute)'
  <2>1. prevMinute \in Nat /\ prevMinute < Clock.min
    <3>1. sampleTime'.min \in Nat /\ sampleTime'.min <= Clock.min
      BY Past
    <3> QED
      BY <1>1, <3>1, Past
  <2>2. FoundInTime(prevMinute)
    BY <1>1, SluggishStays
  <2> QED
    BY <2>1, <2>2, StaysFound DEF FoundInTime
<1>2. ASSUME ~sluggish', NEW i \in DOMAIN reports'
      PROVE  FoundInTime(reports[i].date)'
  BY <1>2, SluggishStays, ReportsFound DEF FoundInTime
<1>3. loop' = "init" => prevMinute' = sampleTime'.min
  OBVIOUS
<1> QED
  BY <1>1, <1>2, <1>3 DEF InTime

(* A file with events is not empty.                                        *)
LEMMA InFile ==
  ASSUME Base, Timely, NEW e \in inMinute
  PROVE  e[1] \in Exists /\ size[e[1]] > 0
<1>1. e[1] \in File /\ e \in Records(e[1], size[e[1]])
  BY DEF Timely, Event
<1>2. size[e[1]] \in Int
  BY <1>1, BaseTypes
<1>3. size[e[1]] \div 3 \in Int
  BY <1>2, Division
<1>4. size[e[1]] \div 3 >= 1
  BY <1>1, <1>3 DEF Records, Piece
<1> QED
  <2>1. size[e[1]] > 0 /\ size[e[1]] >= 0
    BY <1>2, <1>3, <1>4, Division
  <2> QED
    BY <1>1, <2>1 DEF Exists

(* The clock and the server do not end the search.                         *)
LEMMA OutsideInTime ==
  ASSUME PipeInv, WP!IInv, Timely, InTime,
         TimePasses \/ \E f \in File : LogGrows(f)
  PROVE  InTime'
<1>1. /\ UNCHANGED <<loop, prevMinute, reports, sampleTime, sampled, pc, todo>>
      /\ PipelineNext
  BY DEF TimePasses, Tick, LogGrows, Write, threadVars, loopVars, PipelineNext
<1>2. ASSUME prevMinute < sampleTime.min, Looking PROVE Looking'
  <2>1. prevMinute \in Nat /\ prevMinute < Clock.min
    BY <1>2, Past
  <2>2. \A e \in inMinute' : minuteOf'[e] = prevMinute =>
           e \in inMinute /\ minuteOf[e] = prevMinute
    BY <1>1, <2>1, MinuteSettled
  <2>3. Known \subseteq Known'
    BY <1>1, KnownStays
  <2> QED
    BY <1>1, <1>2, <2>2, <2>3 DEF Looking, Ticks, GraceEnds
<1>3. ~sluggish /\ Active' /\ prevMinute < sampleTime'.min =>
         FoundInTime(prevMinute) \/ Looking'
  BY <1>1, <1>2 DEF InTime, Active
<1>4. loop' = "init" => prevMinute = sampleTime'.min
  BY <1>1 DEF InTime
<1> QED
  BY <1>1, <1>3, <1>4, InTimeKept

(* ReadDirectory takes a file with events of the minute, for it is open as *)
(* long as their grace period lasts.                                       *)
LEMMA FileSeenInTime ==
  ASSUME PipeInv, WP!IInv, OnSchedule, Timely, InTime, NEW f \in File, FileSeen(f)
  PROVE  InTime'
<1>0. Base /\ Filed /\ failures = 0
  BY DEF PipeInv, Base
<1>1. /\ UNCHANGED <<loop, prevMinute, reports, sampleTime, sampled, pc>>
      /\ UNCHANGED <<size, minuteOf, inMinute>>
      /\ PipelineNext /\ pc = "scan" /\ todo' = todo \ {f}
  BY DEF FileSeen, AddFile, envVars, threadVars, headerVars, PipelineNext
<1>2. ASSUME ~sluggish, prevMinute < sampleTime.min, Looking PROVE Looking'
  <2>1. loop = "read"
    BY <1>0, <1>1, <1>2 DEF Looking, PipeInv, Placed
  <2>2. Known \subseteq Known'
    BY <1>1, KnownStays
  <2>3. ASSUME NEW e \in inMinute, minuteOf[e] = prevMinute, e \notin Known
        PROVE  e \in Known' \/ e[1] \in todo'
    <3>1. e[1] \in todo /\ e \in Records(e[1], size[e[1]])
      BY <1>1, <1>2, <2>1, <2>3 DEF Looking, Timely
    <3>2. CASE e[1] # f
      BY <1>1, <3>1, <3>2
    <3>3. CASE e[1] = f
      <4>1. e \in Records(f, size[f])
        BY <3>1, <3>3
      <4>2. f \notin watched
        BY <1>0, <2>3, <4>1 DEF Filed, Known
      <4>3. size[f] > 0
        BY <1>0, <2>3, <3>3, InFile
      <4>4. now <= Closes(f)
        <5>1. now <= GraceEnds(minuteOf[e])
          BY <1>2, <2>3, LookingInGrace
        <5>2. GraceEnds(minuteOf[e]) <= Closes(f)
          BY <1>0, <4>1 DEF Filed
        <5>3. now \in Nat /\ Closes(f) \in Nat /\ GraceEnds(minuteOf[e]) \in Nat
          <6>1. minuteOf[e] \in Nat /\ minuteOf[e] + 1 \in Nat
            BY <2>3, Past
          <6>2. (minuteOf[e] + 1) * SecPerMin \in Nat
            BY <6>1, Constants, Product
          <6>3. HourOf[f] \in Nat /\ HourLen \in Nat /\ Extra \in Nat
            BY FileAssumption, TimeAssumption
          <6>4. HourOf[f] * HourLen \in Nat
            BY <6>3, Constants, Product
          <6> QED
            BY <6>2, <6>3, <6>4, Past, Constants DEF GraceEnds, Closes
        <5> QED
          BY <5>1, <5>2, <5>3
      <4>5. f \in watched'
        BY <1>0, <4>2, <4>3, <4>4, Constants
        DEF FileSeen, AddFile, Opening, IsWorkingFile
      <4>6. f \in found'
        BY <4>5 DEF FileSeen
      <4>7. e \in Records(f, size'[f])
        BY <1>1, <4>1
      <4> QED
        BY <4>6, <4>7 DEF Known, Records
    <3> QED
      BY <3>2, <3>3
  <2>4. \A e \in inMinute' : minuteOf'[e] = prevMinute' => e \in Known' \/ e[1] \in todo'
    BY <1>1, <2>2, <2>3
  <2> QED
    BY <1>1, <1>2, <2>1, <2>4 DEF Looking, Ticks, GraceEnds
<1>3. ~sluggish /\ Active' /\ prevMinute < sampleTime'.min =>
         FoundInTime(prevMinute) \/ Looking'
  BY <1>1, <1>2 DEF InTime, Active
<1>4. loop' = "init" => prevMinute = sampleTime'.min
  BY <1>1 DEF InTime
<1> QED
  BY <1>1, <1>3, <1>4, InTimeKept

(* The watcher looks everywhere before it reads the files.                 *)
LEMMA CallInTime ==
  ASSUME PipeInv, WP!IInv, Timely, InTime, CallWatcher
  PROVE  InTime'
<1>0. Base /\ now \in Nat
  BY Past DEF PipeInv
<1>1. /\ UNCHANGED <<loop, prevMinute, reports, sampleTime, sampled, isNew>>
      /\ UNCHANGED <<size, minuteOf, inMinute, found>> /\ PipelineNext
  BY DEF CallWatcher, Start, ExecuteStep, envVars, threadVars, headerVars, seenVars,
         PipelineNext
<1>2. ASSUME prevMinute < sampleTime.min, Looking PROVE Looking' \/ loop = "init"
  <2>1. CASE loop = "check"
    BY <1>1, <1>2, <2>1 DEF Looking, Ticks, GraceEnds
  <2>2. CASE loop = "read"
    <3>1. isNew
      <4>1. isNew = (prevMinute # sampleTime.min)
        BY <1>0, <2>2, WorkerFacts
      <4>2. prevMinute # sampleTime.min
        BY <1>2, Past
      <4> QED
        BY <4>1, <4>2, Zenon
    <3>2. pc' = "scan" /\ todo' = Exists
      BY <2>2, <3>1 DEF CallWatcher, ExecuteStep, BeginScan
    <3>3. \A e \in inMinute : e[1] \in Exists
      BY <1>0, InFile
    <3>4. Ticks(sampled)' + Brisk <= GraceEnds(prevMinute)'
      BY <1>1, <1>2 DEF Looking, Ticks, GraceEnds
    <3> QED
      BY <1>1, <2>2, <3>2, <3>3, <3>4 DEF Looking
  <2> QED
    BY <1>2, <2>1, <2>2 DEF Looking
<1>3. ~sluggish /\ Active' /\ prevMinute < sampleTime'.min =>
         FoundInTime(prevMinute) \/ Looking'
  <2>1. loop = "init" => ~(prevMinute < sampleTime.min)
    BY Past DEF InTime
  <2> QED
    BY <1>1, <1>2, <2>1 DEF InTime, Active
<1>4. loop' = "init" => prevMinute = sampleTime'.min
  BY <1>1 DEF InTime
<1> QED
  BY <1>1, <1>3, <1>4, InTimeKept

(* The reading of the directory ends with the files of the minute found.   *)
LEMMA WorkInTime ==
  ASSUME PipeInv, WP!IInv, OnSchedule, Timely, InTime,
         WatcherStep \/ WatcherReturns \/ Killed \/ DispatchEvents
  PROVE  InTime'
<1>1. UNCHANGED <<prevMinute, reports, sampleTime, sampled>> /\ PipelineNext
  BY DEF WatcherStep, WatcherReturns, Killed, DispatchEvents, threadVars, PipelineNext
<1>2. CASE WatcherStep
  <2>1. UNCHANGED loop
    BY <1>2 DEF WatcherStep, threadVars
  <2>2. pc \in {"seek", "check", "read"} \/ (pc = "scan" /\ todo = {})
    BY <1>2 DEF WatcherStep, EndScan, EndSeek, CheckFile, Seek, ReadFile
  <2>3. ASSUME ~sluggish, Looking PROVE FoundInTime(prevMinute)
    <3>1. loop = "read" /\ pc = "scan" /\ todo = {}
      BY <2>2, <2>3 DEF Looking, PipeInv, Placed
    <3>2. \A e \in inMinute : minuteOf[e] = prevMinute => e \in Known
      BY <2>3, <3>1 DEF Looking
    <3> QED
      BY <2>3, <3>2, LookingInGrace DEF FoundInTime
  <2>4. ~sluggish /\ Active' /\ prevMinute < sampleTime'.min =>
           FoundInTime(prevMinute) \/ Looking'
    BY <1>1, <2>1, <2>3 DEF InTime, Active
  <2>5. loop' = "init" => prevMinute = sampleTime'.min
    BY <1>1, <2>1 DEF InTime
  <2> QED
    BY <1>1, <2>4, <2>5, InTimeKept
<1>3. CASE WatcherReturns
  <2>1. pc = "read" /\ loop' = IF starting THEN "check" ELSE "dispatch"
    BY <1>3 DEF WatcherReturns, EndRead
  <2>2. loop = "init" \/ loop = "read"
    BY <2>1, Labels DEF PipeInv, Placed
  <2>3. loop = "init" => ~(prevMinute < sampleTime.min)
    BY Past DEF InTime
  <2>4. ~Looking
    BY <2>1, <2>2 DEF Looking
  <2>5. ~sluggish /\ Active' /\ prevMinute < sampleTime'.min =>
           FoundInTime(prevMinute) \/ Looking'
    BY <1>1, <2>2, <2>3, <2>4 DEF InTime, Active
  <2> QED
    BY <1>1, <2>1, <2>5, InTimeKept
<1>4. CASE Killed
  <2>1. loop' = "crashed"
    BY <1>4 DEF Killed
  <2> QED
    BY <1>1, <2>1, InTimeKept DEF Active
<1>5. CASE DispatchEvents
  <2>1. loop = "dispatch" /\ loop' = "report"
    BY <1>5 DEF DispatchEvents
  <2>2. ~sluggish /\ Active' /\ prevMinute < sampleTime'.min =>
           FoundInTime(prevMinute) \/ Looking'
    BY <1>1, <2>1 DEF InTime, Active, Looking
  <2> QED
    BY <1>1, <2>1, <2>2, InTimeKept
<1> QED
  BY <1>2, <1>3, <1>4, <1>5

(* An iteration that finds a new minute looks for its files in time: the   *)
(* one before it began within the minute, and was brisk.                   *)
LEMMA PaceInTime ==
  ASSUME PipeInv, WP!IInv, OnSchedule, Timely, InTime, ThreadStep, W!Pace
  PROVE  InTime'
<1>1. /\ UNCHANGED <<prevMinute, reports>> /\ sampleTime' = Clock /\ sampled' = Clock
      /\ loop = "pace" /\ loop' = "check" /\ PipelineNext
  BY DEF W!Pace, W!dataVars, PipelineNext
<1>2. /\ now \in Nat /\ prevMinute \in Nat /\ prevMinute <= sampleTime.min
      /\ sampleTime.min \in Nat /\ sampled.min = sampleTime.min
      /\ sampled \in [min : Nat, sec : 0 .. SecPerMin - 1]
  <2>1. now \in Nat /\ Active
    BY <1>1, Past DEF Active
  <2> QED
    BY <2>1, Past, WorkerFacts
<1>3. ASSUME ~sluggish, prevMinute < sampleTime.min PROVE FoundInTime(prevMinute)
  BY <1>1, <1>3 DEF InTime, Active, Looking
<1>4. ASSUME ~sluggish, prevMinute = sampleTime.min PROVE Looking'
  <2>1. now <= Ticks(sampled) + Brisk
    BY <1>4 DEF OnSchedule
  <2>2. now + Brisk <= GraceEnds(prevMinute)
    BY <1>2, <1>4, <2>1, BriskEnough
  <2>3. Ticks(sampled)' = now
    BY <1>1, <1>2, TicksOfClock DEF Ticks
  <2>4. GraceEnds(prevMinute)' = GraceEnds(prevMinute)
    BY <1>1 DEF GraceEnds
  <2> QED
    BY <1>1, <2>2, <2>3, <2>4 DEF Looking
<1>5. ~sluggish /\ Active' /\ prevMinute < sampleTime'.min =>
         FoundInTime(prevMinute) \/ Looking'
  BY <1>2, <1>3, <1>4
<1> QED
  BY <1>1, <1>5, InTimeKept

LEMMA ThreadInTime ==
  ASSUME PipeInv, WP!IInv, OnSchedule, Timely, InTime, ThreadStep
  PROVE  InTime'
<1>0. PipelineNext /\ UNCHANGED <<pc, todo, inMinute, minuteOf, found, size>>
  BY DEF ThreadStep, PipelineNext, vars, envVars, loopVars, headerVars, seenVars
<1>1. CASE W!StartLoop
  <2>1. /\ prevMinute' = Clock.min /\ sampleTime'.min = Clock.min
        /\ UNCHANGED reports
    BY <1>1 DEF W!StartLoop, W!MinuteStart, W!dataVars
  <2>2. ~sluggish' => ~sluggish
    BY <1>0, SluggishStays
  <2>3. ~sluggish' => \A i \in DOMAIN reports' : FoundInTime(reports[i].date)'
    BY <1>0, <2>1, <2>2, ReportsFound DEF FoundInTime
  <2>4. prevMinute' = sampleTime'.min /\ ~(prevMinute' < sampleTime'.min)
    BY <2>1, Past
  <2> QED
    BY <2>3, <2>4 DEF InTime
<1>2. CASE W!NewIteration
  <2>1. /\ UNCHANGED <<prevMinute, reports, sampleTime, sampled>>
        /\ loop = "check" /\ loop' = "read"
    BY <1>2 DEF W!NewIteration, W!dataVars, W!histVars
  <2>2. pc' = "idle"
    BY <1>0, <2>1 DEF PipeInv, Placed
  <2>3. Looking => Looking'
    BY <2>1, <2>2 DEF Looking, Ticks, GraceEnds
  <2>4. ~sluggish /\ Active' /\ prevMinute < sampleTime'.min =>
           FoundInTime(prevMinute) \/ Looking'
    BY <2>1, <2>3 DEF InTime, Active
  <2> QED
    BY <1>0, <2>1, <2>4, InTimeKept
<1>3. CASE W!NoReport
  <2>1. /\ UNCHANGED <<prevMinute, reports, sampleTime>>
        /\ loop = "report" /\ loop' = "pace"
    BY <1>3 DEF W!NoReport, W!dataVars
  <2>2. ~sluggish /\ Active' /\ prevMinute < sampleTime'.min =>
           FoundInTime(prevMinute) \/ Looking'
    BY <2>1 DEF InTime, Active, Looking
  <2> QED
    BY <1>0, <2>1, <2>2, InTimeKept
<1>4. CASE W!SendReport
  <2>1. PICK body :
          /\ reports' = Append(reports, [date |-> prevMinute, body |-> body])
          /\ prevMinute' = sampleTime.min /\ sampleTime' = sampleTime /\ isNew
          /\ loop = "report" /\ loop' = "pace"
    BY <1>4 DEF W!SendReport, W!ReportDue
  <2>2. prevMinute \in Nat /\ prevMinute < sampleTime.min /\ prevMinute < Clock.min
    <3>1. Active /\ now \in Nat
      BY <2>1, Past DEF Active
    <3>2. prevMinute <= sampleTime.min /\ prevMinute # sampleTime.min
      BY <2>1, <3>1, WorkerFacts
    <3> QED
      BY <3>2, Past
  <2>3. ~sluggish => FoundInTime(prevMinute)
    BY <2>1, <2>2 DEF InTime, Active, Looking
  <2>4. ASSUME ~sluggish', NEW i \in DOMAIN reports'
        PROVE  FoundInTime(reports[i].date)'
    <3>1. ~sluggish
      BY <1>0, <2>4, SluggishStays
    <3>2. reports \in Seq(WP!Report)
      BY Past, WorkerFacts
    <3>3. CASE i \in DOMAIN reports
      <4>1. reports'[i] = reports[i]
        BY <2>1, <3>2, <3>3
      <4> QED
        BY <1>0, <3>1, <3>3, <4>1, ReportsFound DEF FoundInTime
    <3>4. CASE i \notin DOMAIN reports
      <4>1. reports'[i].date = prevMinute
        BY <2>1, <2>4, <3>2, <3>4
      <4>2. \A e \in inMinute' : minuteOf'[e] = prevMinute => e \in Known' \ late'
        BY <1>0, <2>2, <2>3, <3>1, StaysFound
      <4> QED
        BY <4>1, <4>2 DEF FoundInTime
    <3> QED
      BY <3>3, <3>4
  <2>5. loop' # "init" /\ ~(prevMinute' < sampleTime'.min)
    BY <2>1, Past
  <2> QED
    BY <2>4, <2>5 DEF InTime
<1>5. CASE W!Pace
  BY <1>5, PaceInTime
<1> QED
  BY <1>1, <1>2, <1>3, <1>4, <1>5 DEF ThreadStep

-----------------------------------------------------------------------------
LEMMA PromptInitial == PipelineInit => PromptInv
<1> SUFFICES ASSUME PipelineInit PROVE PromptInv
  OBVIOUS
<1>1. PipeInv /\ WP!IInv
  BY PipeInitial, SameInit, WorkerStep
<1>2. /\ now = 0 /\ loop = "start" /\ prevMinute = 0 /\ reports = <<>>
      /\ sampleTime = [min |-> 0, sec |-> 0] /\ sampled = [min |-> 0, sec |-> 0]
      /\ inMinute = {} /\ late = {}
  BY DEF PipelineInit, Init, W!MinuteStart
<1>3. OnSchedule
  <2>1. 0 * SecPerMin = 0 /\ Brisk \in Nat
    BY Constants, CompositionAssumption, SMT DEF Positive
  <2> QED
    BY <1>2, <2>1 DEF OnSchedule, Ticks
<1>4. Timely /\ InTime
  BY <1>2 DEF Timely, InTime
<1> QED
  BY <1>1, <1>3, <1>4 DEF PromptInv

LEMMA PromptStep ==
  ASSUME PromptInv, [PipelineNext]_<<vars, threadVars, headerVars, seenVars, sluggish>>
  PROVE  PromptInv'
<1>0. PipeInv /\ WP!IInv /\ OnSchedule /\ Timely /\ InTime /\ Base
  BY DEF PromptInv, PipeInv
<1>1. PipeInv' /\ WP!IInv'
  BY <1>0, PipeStep, SameStep, WorkerStep
<1>2. OnSchedule' /\ Timely'
  BY <1>0, OnScheduleStep, TimelyStep
<1>3. InTime'
  <2>1. CASE UNCHANGED <<vars, threadVars, headerVars, seenVars, sluggish>>
    <3>1. UNCHANGED <<loop, pc, todo, prevMinute, reports, sampleTime, sampled>>
          /\ UNCHANGED <<size, minuteOf, inMinute, found, late, sluggish>>
      BY <2>1 DEF vars, envVars, loopVars, threadVars, headerVars, seenVars
    <3>2. \A m : FoundInTime(m)' <=> FoundInTime(m)
      BY <3>1 DEF FoundInTime, Known, Records
    <3>3. Known' = Known
      BY <3>1 DEF Known, Records
    <3> QED
      BY <1>0, <3>1, <3>3
      DEF InTime, Active, FoundInTime, Looking, Ticks, GraceEnds
  <2> QED
    BY <1>0, <2>1, OutsideInTime, FileSeenInTime, CallInTime, WorkInTime,
       ThreadInTime
    DEF PipelineNext
<1> QED
  BY <1>1, <1>2, <1>3 DEF PromptInv

(* What the worker reports on time is, for a brisk loop, what the log has  *)
(* of the minute by its end.                                               *)
LEMMA PromptMeans == PromptInv => PromptEventsReported
<1> SUFFICES ASSUME PromptInv, ~sluggish, NEW i \in DOMAIN reports,
                    NEW s \in W!Aggregators, NEW e \in W!RoutedTo(s, inMinute),
                    minuteOf[e] = reports[i].date
             PROVE  e \in reports[i].body[s] \cup lost[s]
  BY DEF PromptEventsReported
<1>1. e \in inMinute /\ e \in Event /\ s \in W!SectionsOf(KindOf[e])
  BY DEF PromptInv, Timely, W!RoutedTo
<1>2. e \in Known \ late
  BY <1>1 DEF PromptInv, InTime, FoundInTime
<1>3. e \in WP!RoutedTo(s, Known) /\ s \in WP!Aggregators
  BY <1>1, <1>2, SameRouting DEF W!RoutedTo
<1>4. WP!OnTimeEventsReported
  BY DEF PromptInv, WP!IInv
<1> QED
  BY <1>1, <1>2, <1>3, <1>4 DEF WP!OnTimeEventsReported

(* From the file to the report, for any files, hours, periods and kinds of *)
(* events and minutes of any length: what is in the log by the end of its  *)
(* minute is in the report of that minute, if there is one, unless Init    *)
(* passed over it and as long as no iteration takes more than half the     *)
(* grace period.  The file may be new.                                     *)
THEOREM PromptEventsReportedHolds == PipelineSpec => []PromptEventsReported
<1>1. PipelineInit => PromptInv
  BY PromptInitial
<1>2. PromptInv /\ [PipelineNext]_<<vars, threadVars, headerVars, seenVars, sluggish>>
        => PromptInv'
  BY PromptStep
<1>3. PromptInv => PromptEventsReported
  BY PromptMeans
<1> QED
  BY <1>1, <1>2, <1>3, PTL DEF PipelineSpec

=============================================================================
