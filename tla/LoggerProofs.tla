---------------------------- MODULE LoggerProofs ----------------------------
(***************************************************************************)
(* Proofs about Logger, for any number of threads that print and whatever  *)
(* the durations: no line is broken, and no file goes before its time.     *)
(***************************************************************************)
EXTENDS Logger, TLAPS

Durations == {Default, Configured}

Places == {"main", "idle", "check", "checkOnly", "clean", "cleanOnly", "filter",
           "message", "unlock"}

Piece == [by : Thread, nr : Nat, piece : {"stamp", "message"}, at : Hour]

TypeOK ==
    /\ now \in Hour /\ print_ \in Thread \cup {None}
    /\ pc \in [Thread -> Places] /\ count \in [Thread -> Nat]
    /\ fs_ \in Hour \cup {None}
    /\ log_storage_duration_ \in Durations
    /\ files \subseteq Hour
    /\ content \in [Hour -> Seq(Piece)]

\* Only the holder of the lock is between idle and idle.
Held == \A t \in Thread : pc[t] \notin {"main", "idle"} => print_ = t

Writes(t, h) == pc[t] = "message" /\ fs_ = h

\* The pieces of file h alternate, each message after the stamp of its line.
Alternates(h) ==
    \A i \in DOMAIN content[h] :
        IF i % 2 = 1 THEN content[h][i].piece = "stamp"
        ELSE /\ content[h][i].piece = "message"
             /\ content[h][i].by = content[h][i - 1].by
             /\ content[h][i].nr = content[h][i - 1].nr

\* A line is open at the end of file h exactly while a thread is to end it.
Complete(h) == (\A t \in Thread : ~Writes(t, h)) => Len(content[h]) % 2 = 0

OpenLine(h) ==
    \A t \in Thread : Writes(t, h) =>
        /\ Len(content[h]) % 2 = 1
        /\ content[h][Len(content[h])].by = t
        /\ content[h][Len(content[h])].nr = count[t]

FileInv(h) == Alternates(h) /\ Complete(h) /\ OpenLine(h)

LineInv == TypeOK /\ Held /\ \A h \in Hour : FileInv(h)

\* A cleaner goes by a limit that one of the durations allows.
CleanerInv ==
    \A c \in cleaners :
        /\ c.duration \in Durations
        /\ \/ c.limit = None
           \/ /\ c.limit \in Int
              /\ \E d \in Durations : c.limit <= now - d

KeptInv == TypeOK /\ CleanerInv /\ KeptLongEnough

-----------------------------------------------------------------------------
LEMMA Hours == /\ \A h \in Hour : h \in Nat /\ None \notin Hour
               /\ Durations \subseteq Nat
  BY NoneAssumption, HourAssumption DEF Hour, Durations

LEMMA Parity ==
  ASSUME NEW n \in Nat
  PROVE  /\ n % 2 = 0 => (n + 1) % 2 = 1
         /\ n % 2 = 1 => (n + 1) % 2 = 0 /\ n > 0
         /\ n % 2 = 0 \/ n % 2 = 1
         /\ n % 2 # 1 => n # 1
  OBVIOUS

(* The program starts without a file, a line or a cleaner.                 *)
LEMMA Initial == Init => LineInv /\ KeptInv
<1> SUFFICES ASSUME Init PROVE LineInv /\ KeptInv
  OBVIOUS
<1>1. 0 \in Hour
  BY HourAssumption DEF Hour
<1>2. TypeOK
  BY <1>1 DEF Init, TypeOK, Places, Durations
<1>3. Held
  BY DEF Init, Held
<1>4. ASSUME NEW h \in Hour PROVE FileInv(h)
  <2>1. content[h] = << >> /\ \A t \in Thread : ~Writes(t, h)
    BY DEF Init, Writes
  <2>2. Len(content[h]) = 0 /\ DOMAIN content[h] = {}
    BY <2>1
  <2> QED
    BY <2>1, <2>2, Parity DEF FileInv, Alternates, Complete, OpenLine
<1>5. CleanerInv /\ KeptLongEnough
  BY DEF Init, CleanerInv, KeptLongEnough
<1> QED
  BY <1>2, <1>3, <1>4, <1>5 DEF LineInv, KeptInv

-----------------------------------------------------------------------------
(* Types, action by action; only the two that write touch the content.     *)
LEMMA TypeStep == TypeOK /\ [Next]_vars => TypeOK'
<1> SUFFICES ASSUME TypeOK, [Next]_vars PROVE TypeOK'
  OBVIOUS
<1> USE DEF TypeOK, file, storage, disk, Go, Lock, Places
<1>1. CASE Tick
  BY <1>1, HourAssumption DEF Tick, Hour
<1>2. CASE OpenFirst
  BY <1>2 DEF OpenFirst, OpenFile, Durations
<1>3. CASE SetLogStorageDuration
  BY <1>3 DEF SetLogStorageDuration, Durations
<1>4. ASSUME NEW t \in Thread, BeginPrint(t) PROVE TypeOK'
  BY <1>4 DEF BeginPrint
<1>5. ASSUME NEW t \in Thread, NewFileWithLock(t) PROVE TypeOK'
  BY <1>5 DEF NewFileWithLock
<1>6. ASSUME NEW t \in Thread, NewFile(t) PROVE TypeOK'
  BY <1>6 DEF NewFile, OpenFile, After, Durations
<1>7. ASSUME NEW t \in Thread, SpawnCleaner(t) PROVE TypeOK'
  BY <1>7 DEF SpawnCleaner, After
<1>8. ASSUME NEW t \in Thread, BelowMinimum(t) PROVE TypeOK'
  BY <1>8 DEF BelowMinimum
<1>9. ASSUME NEW t \in Thread, NEW piece \in {"stamp", "message"}, Put(t, piece)
      PROVE  content' \in [Hour -> Seq(Piece)]
  <2>1. [by |-> t, nr |-> count[t], piece |-> piece, at |-> now] \in Piece
    BY DEF Piece
  <2>2. CASE fs_ = None
    BY <1>9, <2>2 DEF Put
  <2>3. CASE fs_ # None
    BY <1>9, <2>1, <2>3 DEF Put
  <2> QED
    BY <2>2, <2>3
<1>10. ASSUME NEW t \in Thread, PutStamp(t) PROVE TypeOK'
  BY <1>9, <1>10 DEF PutStamp
<1>11. ASSUME NEW t \in Thread, PutMessage(t) PROVE TypeOK'
  BY <1>9, <1>11 DEF PutMessage
<1>12. ASSUME NEW t \in Thread, Unlock(t) PROVE TypeOK'
  BY <1>12 DEF Unlock
<1>13. ASSUME NEW c \in cleaners, Cleaner(c) PROVE TypeOK'
  BY <1>13 DEF Cleaner, FindLimit, Remove, EndCleaner
<1>14. CASE UNCHANGED vars
  BY <1>14 DEF vars
<1> QED
  BY <1>1, <1>2, <1>3, <1>4, <1>5, <1>6, <1>7, <1>8, <1>10, <1>11, <1>12, <1>13, <1>14
     DEF Next, Writing

-----------------------------------------------------------------------------
(* A limit stays allowed as the clock goes on, and what it lets go is old  *)
(* enough at the moment it goes.                                           *)
LEMMA KeptStep == KeptInv /\ [Next]_vars => KeptInv'
<1> SUFFICES ASSUME KeptInv, [Next]_vars PROVE KeptInv'
  OBVIOUS
<1>1. TypeOK'
  BY TypeStep DEF KeptInv
<1> USE Hours DEF KeptInv, TypeOK, CleanerInv, KeptLongEnough, file, storage, disk
<1>2. CASE Tick
  BY <1>1, <1>2 DEF Tick
<1>0. ASSUME UNCHANGED <<now, removed>>,
             NEW new, cleaners' \subseteq cleaners \cup {new},
             new.duration \in Durations,
             new.limit = None \/ new.limit = now - new.duration
      PROVE  KeptInv'
  <2>1. \A d \in Durations : now - d \in Int
    OBVIOUS
  <2>2. \/ new.limit = None
        \/ /\ new.limit \in Int
           /\ \E d \in Durations : new.limit <= now - d
    <3>1. CASE new.limit = None
      BY <3>1
    <3>2. CASE new.limit = now - new.duration
      <4>1. now - new.duration \in Int
        BY <1>0, <2>1
      <4>2. new.limit <= now - new.duration
        BY <3>2, <4>1
      <4> QED
        BY <1>0, <3>2, <4>1, <4>2
    <3> QED
      BY <1>0, <3>1, <3>2
  <2>3. CleanerInv'
    BY <1>0, <2>2
  <2> QED
    BY <1>0, <1>1, <2>3
<1>3. CASE OpenFirst
  <2> DEFINE new == [started |-> now, duration |-> Default, limit |-> None, told |-> FALSE]
  <2>1. cleaners' = {new} /\ UNCHANGED <<now, removed>>
    BY <1>3 DEF OpenFirst, OpenFile
  <2>2. new.duration \in Durations /\ new.limit = None
    BY DEF Durations
  <2> HIDE DEF new
  <2> QED
    BY <1>0, <2>1, <2>2
<1>4. ASSUME NEW t \in Thread, SpawnCleaner(t) PROVE KeptInv'
  <2> DEFINE new == [started |-> now, duration |-> log_storage_duration_, limit |-> None,
                     told |-> configured]
  <2>1. cleaners' = cleaners \cup {new} /\ UNCHANGED <<now, removed>>
    BY <1>4 DEF SpawnCleaner, StartCleaner
  <2>2. new.duration \in Durations /\ new.limit = None
    OBVIOUS
  <2> HIDE DEF new
  <2> QED
    BY <1>0, <2>1, <2>2
<1>5. ASSUME NEW c \in cleaners, FindLimit(c) PROVE KeptInv'
  <2> DEFINE new == [started |-> c.started, duration |-> c.duration,
                     limit |-> now - c.duration, told |-> c.told]
  <2>1. cleaners' = (cleaners \ {c}) \cup {new} /\ UNCHANGED <<now, removed>>
    BY <1>5 DEF FindLimit
  <2>2. new.duration \in Durations /\ new.limit = now - new.duration
    OBVIOUS
  <2> HIDE DEF new
  <2> QED
    BY <1>0, <2>1, <2>2
<1>6. ASSUME NEW c \in cleaners, NEW h \in Hour, Remove(c, h) PROVE KeptInv'
  <2> DEFINE r == [hour |-> h, at |-> now, told |-> c.told]
  <2>1. c.limit # None /\ c.limit \in Int /\ h < c.limit
    BY <1>6 DEF Remove, Old
  <2>2. PICK d \in Durations : c.limit <= now - d
    BY <2>1
  <2>3. now - h > d
    BY <2>1, <2>2
  <2>4. r.at - r.hour > Default \/ r.at - r.hour > Configured
    BY <2>3 DEF Durations
  <2>5. removed' = removed \cup {r} /\ UNCHANGED <<now, cleaners>>
    BY <1>6 DEF Remove
  <2> HIDE DEF r
  <2> QED
    BY <1>1, <2>4, <2>5
<1>7. ASSUME NEW c \in cleaners, EndCleaner(c) PROVE KeptInv'
  <2>1. cleaners' \subseteq cleaners /\ UNCHANGED <<now, removed>>
    BY <1>7 DEF EndCleaner
  <2> QED
    BY <1>1, <2>1
<1>8. CASE UNCHANGED <<now, cleaners, removed>>
  BY <1>1, <1>8
<1>9. ASSUME NEW t \in Thread,
             \/ BeginPrint(t) \/ NewFileWithLock(t) \/ NewFile(t)
             \/ BelowMinimum(t) \/ PutStamp(t) \/ PutMessage(t) \/ Unlock(t)
      PROVE  UNCHANGED <<now, cleaners, removed>>
  BY <1>9 DEF BeginPrint, NewFileWithLock, NewFile, OpenFile, BelowMinimum, PutStamp,
              PutMessage, Unlock
<1>10. SetLogStorageDuration => UNCHANGED <<now, cleaners, removed>>
  BY DEF SetLogStorageDuration
<1>11. UNCHANGED vars => UNCHANGED <<now, cleaners, removed>>
  BY DEF vars
<1> QED
  BY <1>2, <1>3, <1>4, <1>5, <1>6, <1>7, <1>8, <1>9, <1>10, <1>11
     DEF Next, Writing, Cleaner

(* No file goes before the shorter of the two durations.                   *)
THEOREM KeptLongEnoughHolds == Spec => []KeptLongEnough
<1>1. Init => KeptInv
  BY Initial
<1>2. KeptInv => KeptLongEnough
  BY DEF KeptInv
<1> QED
  BY <1>1, <1>2, KeptStep, PTL DEF Spec

-----------------------------------------------------------------------------
(* The holder of the lock stays the only one between idle and idle.        *)
LEMMA HeldStep == TypeOK /\ Held /\ [Next]_vars => Held'
<1> SUFFICES ASSUME TypeOK, Held, [Next]_vars PROVE Held'
  OBVIOUS
<1> USE DEF TypeOK, Held, Go, Lock
<1>1. CASE OpenFirst
  BY <1>1 DEF OpenFirst
<1>2. ASSUME NEW t \in Thread, BeginPrint(t) \/ NewFileWithLock(t) PROVE Held'
  BY <1>2, NoneAssumption DEF BeginPrint, NewFileWithLock
<1>3. ASSUME NEW t \in Thread, Writing(t) PROVE Held'
  BY <1>3 DEF Writing, NewFile, SpawnCleaner, BelowMinimum, PutStamp, PutMessage, Unlock
<1>4. CASE Tick \/ SetLogStorageDuration \/ UNCHANGED vars
  BY <1>4 DEF Tick, SetLogStorageDuration, vars
<1>5. ASSUME NEW c \in cleaners, Cleaner(c) PROVE Held'
  BY <1>5 DEF Cleaner, FindLimit, Remove, EndCleaner
<1> QED
  BY <1>1, <1>2, <1>3, <1>4, <1>5 DEF Next

(* A file keeps its whole lines while nothing is written into it and the   *)
(* threads that write into it are the same, with the same number.          *)
LEMMA Untouched ==
  ASSUME NEW h \in Hour, FileInv(h), content'[h] = content[h],
         \A t \in Thread : Writes(t, h)' <=> Writes(t, h),
         \A t \in Thread : Writes(t, h) => count'[t] = count[t]
  PROVE  FileInv(h)'
<1>1. Alternates(h)'
  BY DEF FileInv, Alternates
<1>2. Complete(h)'
  BY DEF FileInv, Complete
<1>3. OpenLine(h)'
  BY DEF FileInv, OpenLine
<1> QED
  BY <1>1, <1>2, <1>3 DEF FileInv

(* A piece at the end of a sequence.                                       *)
LEMMA AtTheEnd ==
  ASSUME NEW S, NEW s \in Seq(S), NEW e \in S, NEW u, u = Append(s, e)
  PROVE  /\ Len(s) \in Nat /\ Len(u) = Len(s) + 1
         /\ u[Len(s) + 1] = e
         /\ \A i \in 1 .. Len(s) : u[i] = s[i]
         /\ DOMAIN s = 1 .. Len(s)
         /\ \A i \in DOMAIN u : i \in 1 .. Len(s) \/ i = Len(s) + 1
  OBVIOUS

(* The alternation goes on with a piece that fits.                         *)
LEMMA Alternation ==
  ASSUME NEW h \in Hour, NEW e \in Piece, content[h] \in Seq(Piece), Alternates(h),
         content'[h] = Append(content[h], e),
         LET n == Len(content[h]) IN
             \/ n % 2 = 0 /\ e.piece = "stamp"
             \/ /\ n % 2 = 1 /\ e.piece = "message"
                /\ e.by = content[h][n].by /\ e.nr = content[h][n].nr
  PROVE  Alternates(h)'
<1> DEFINE n == Len(content[h])
           s == content[h]
           u == content'[h]
<1>1. /\ n \in Nat /\ Len(u) = n + 1 /\ u[n + 1] = e /\ DOMAIN s = 1 .. n
      /\ \A i \in 1 .. n : u[i] = s[i]
      /\ \A i \in DOMAIN u : i \in 1 .. n \/ i = n + 1
  BY AtTheEnd
<1>2. \A i \in 1 .. n :
          IF i % 2 = 1 THEN s[i].piece = "stamp"
          ELSE /\ s[i].piece = "message"
               /\ s[i].by = s[i - 1].by
               /\ s[i].nr = s[i - 1].nr
  BY <1>1 DEF Alternates
<1>3. \/ n % 2 = 0 /\ e.piece = "stamp"
      \/ /\ n % 2 = 1 /\ e.piece = "message"
         /\ e.by = s[n].by /\ e.nr = s[n].nr
  OBVIOUS
<1> HIDE DEF n, s, u
<1>4. ASSUME NEW i \in DOMAIN u
      PROVE  IF i % 2 = 1 THEN u[i].piece = "stamp"
             ELSE /\ u[i].piece = "message"
                  /\ u[i].by = u[i - 1].by
                  /\ u[i].nr = u[i - 1].nr
  <2>1. CASE i \in 1 .. n
    <3>1. i \in Nat /\ (i % 2 # 1 => i # 1)
      BY <1>1, <2>1, Parity
    <3>2. i % 2 # 1 => i - 1 \in 1 .. n
      BY <1>1, <2>1, <3>1
    <3>3. u[i] = s[i] /\ (i % 2 # 1 => u[i - 1] = s[i - 1])
      BY <1>1, <2>1, <3>2
    <3> QED
      BY <1>2, <2>1, <3>3
  <2>2. CASE i = n + 1 /\ n % 2 = 0
    <3>1. i % 2 = 1 /\ e.piece = "stamp"
      BY <1>1, <1>3, <2>2, Parity
    <3> QED
      BY <1>1, <2>2, <3>1
  <2>3. CASE i = n + 1 /\ n % 2 = 1
    <3>1. i % 2 = 0 /\ i - 1 = n /\ n \in 1 .. n
      BY <1>1, <2>3, Parity
    <3>2. u[i - 1] = s[n] /\ u[i] = e
      BY <1>1, <2>3, <3>1
    <3>3. e.piece = "message" /\ e.by = s[n].by /\ e.nr = s[n].nr
      BY <1>3, <2>3
    <3> QED
      BY <3>1, <3>2, <3>3
  <2> QED
    BY <1>1, <2>1, <2>2, <2>3, Parity
<1> QED
  BY <1>4 DEF Alternates, u

(* The stamp begins a line: no other thread was writing one, so the lines  *)
(* before it are complete.                                                 *)
LEMMA StampInv ==
  ASSUME TypeOK, Held, NEW t \in Thread, NEW h \in Hour, FileInv(h), PutStamp(t), fs_ = h
  PROVE  FileInv(h)'
<1> DEFINE e == [by |-> t, nr |-> count[t], piece |-> "stamp", at |-> now]
<1>1. content'[h] = Append(content[h], e)
  BY Hours DEF PutStamp, Put, TypeOK
<1>2. /\ e.by = t /\ e.nr = count[t] /\ e.piece = "stamp" /\ e \in Piece
      /\ content[h] \in Seq(Piece) /\ count' = count /\ fs_' = fs_
  BY DEF PutStamp, TypeOK, file, Piece
<1> HIDE DEF e
<1>3. \A u \in Thread : ~Writes(u, h)
  BY DEF Writes, Held, PutStamp, Go
<1>4. Len(content[h]) % 2 = 0
  BY <1>3 DEF FileInv, Complete
<1>5. \A u \in Thread : Writes(u, h)' <=> u = t
  BY <1>2, <1>3 DEF Writes, PutStamp, Go, TypeOK
<1>6. /\ Len(content[h]) \in Nat /\ Len(content'[h]) = Len(content[h]) + 1
      /\ content'[h][Len(content[h]) + 1] = e
  BY <1>1, <1>2, AtTheEnd
<1>7. Len(content'[h]) % 2 = 1
  BY <1>4, <1>6, Parity
<1>8. Alternates(h)'
  BY <1>1, <1>2, <1>4, Alternation DEF FileInv
<1>9. Complete(h)'
  BY <1>5 DEF Complete
<1>10. OpenLine(h)'
  BY <1>2, <1>5, <1>6, <1>7 DEF OpenLine
<1> QED
  BY <1>8, <1>9, <1>10 DEF FileInv

(* The message of the thread that wrote the stamp ends the line.           *)
LEMMA MessageInv ==
  ASSUME TypeOK, Held, NEW t \in Thread, NEW h \in Hour, FileInv(h), PutMessage(t), fs_ = h
  PROVE  FileInv(h)'
<1> DEFINE e == [by |-> t, nr |-> count[t], piece |-> "message", at |-> now]
<1>1. content'[h] = Append(content[h], e)
  BY Hours DEF PutMessage, Put, TypeOK
<1>2. /\ e.by = t /\ e.nr = count[t] /\ e.piece = "message" /\ e \in Piece
      /\ content[h] \in Seq(Piece) /\ fs_' = fs_
  BY DEF PutMessage, TypeOK, file, Piece
<1> HIDE DEF e
<1>3. Writes(t, h)
  BY DEF Writes, PutMessage, Go
<1>4. /\ Len(content[h]) % 2 = 1
      /\ content[h][Len(content[h])].by = t /\ content[h][Len(content[h])].nr = count[t]
  BY <1>3 DEF FileInv, OpenLine
<1>5. \A u \in Thread : ~Writes(u, h)'
  BY <1>3 DEF Writes, PutMessage, Go, TypeOK, Held
<1>6. Len(content[h]) \in Nat /\ Len(content'[h]) = Len(content[h]) + 1
  BY <1>1, <1>2, AtTheEnd
<1>7. Len(content'[h]) % 2 = 0
  BY <1>4, <1>6, Parity
<1>8. Alternates(h)'
  BY <1>1, <1>2, <1>4, Alternation DEF FileInv
<1>9. Complete(h)'
  BY <1>7 DEF Complete
<1>10. OpenLine(h)'
  BY <1>5 DEF OpenLine
<1> QED
  BY <1>8, <1>9, <1>10 DEF FileInv

(* Every step keeps the lines of every file.  The file changes only while  *)
(* its changer has the lock and has not begun its line.                    *)
LEMMA FileStep ==
  ASSUME TypeOK, Held, [Next]_vars, NEW h \in Hour, FileInv(h)
  PROVE  FileInv(h)'
<1> USE DEF TypeOK, Writes, Go, file, storage, disk
<1>1. CASE OpenFirst
  <2>1. content' = content /\ \A t \in Thread : ~Writes(t, h) /\ ~Writes(t, h)'
    BY <1>1 DEF OpenFirst, OpenFile
  <2> QED
    BY <2>1, Untouched
<1>2. ASSUME NEW t \in Thread, NewFile(t) PROVE FileInv(h)'
  <2>1. content' = content /\ count' = count
    BY <1>2 DEF NewFile, OpenFile
  <2>2. pc[t] \in {"check", "checkOnly"} /\ pc'[t] # "message"
        /\ \A u \in Thread \ {t} : pc'[u] = pc[u]
    BY <1>2 DEF NewFile, After
  <2>3. \A u \in Thread : ~Writes(u, h) /\ ~Writes(u, h)'
    BY <2>2 DEF Held
  <2> QED
    BY <2>1, <2>3, Untouched
<1>3. ASSUME NEW t \in Thread,
             BeginPrint(t) \/ NewFileWithLock(t) \/ SpawnCleaner(t) \/ Unlock(t)
      PROVE  FileInv(h)'
  <2>1. content' = content /\ count' = count /\ fs_' = fs_
    BY <1>3 DEF BeginPrint, NewFileWithLock, SpawnCleaner, Unlock
  <2>2. \A u \in Thread : pc'[u] = "message" <=> pc[u] = "message"
    BY <1>3 DEF BeginPrint, NewFileWithLock, SpawnCleaner, Unlock, After
  <2> QED
    BY <2>1, <2>2, Untouched
<1>4. ASSUME NEW t \in Thread, BelowMinimum(t) PROVE FileInv(h)'
  <2>1. /\ content' = content /\ fs_' = fs_
        /\ \A u \in Thread : pc[u] = "message" => count'[u] = count[u]
    BY <1>4 DEF BelowMinimum
  <2>2. \A u \in Thread : pc'[u] = "message" <=> pc[u] = "message"
    BY <1>4 DEF BelowMinimum
  <2> QED
    BY <2>1, <2>2, Untouched
<1>5. ASSUME NEW t \in Thread, PutStamp(t) \/ PutMessage(t), fs_ # h PROVE FileInv(h)'
  <2>1. content'[h] = content[h] /\ fs_' = fs_
    BY <1>5 DEF PutStamp, PutMessage, Put
  <2> QED
    BY <1>5, <2>1, Untouched
<1>6. CASE Tick \/ SetLogStorageDuration \/ UNCHANGED vars
  <2>1. UNCHANGED <<content, count, fs_, pc>>
    BY <1>6 DEF Tick, SetLogStorageDuration, vars
  <2> QED
    BY <2>1, Untouched
<1>7. ASSUME NEW c \in cleaners, Cleaner(c) PROVE FileInv(h)'
  <2>1. UNCHANGED <<content, count, fs_, pc>>
    BY <1>7 DEF Cleaner, FindLimit, Remove, EndCleaner
  <2> QED
    BY <2>1, Untouched
<1> QED
  BY <1>1, <1>2, <1>3, <1>4, <1>5, <1>6, <1>7, StampInv, MessageInv DEF Next, Writing

(* No thread writes into the line of another and no line is split over     *)
(* two files, for any number of threads, messages and failed openings.     *)
THEOREM LinesWholeHolds == Spec => []LinesWhole
<1>1. Init => LineInv
  BY Initial
<1>2. LineInv /\ [Next]_vars => LineInv'
  BY TypeStep, HeldStep, FileStep DEF LineInv
<1>3. LineInv => LinesWhole
  BY DEF LineInv, FileInv, Alternates, LinesWhole
<1> QED
  BY <1>1, <1>2, <1>3, PTL DEF Spec

-----------------------------------------------------------------------------
(* Hours of the day. *)

Positive == Nat \ {0}

LEMMA Product ==
  ASSUME NEW n \in Nat, NEW u \in Positive
  PROVE  n * u \in Nat
BY SMT DEF Positive

LEMMA Times ==
  ASSUME NEW n \in Int, NEW b \in Int, NEW u \in Positive, n <= b
  PROVE  n * u <= b * u
BY SMT DEF Positive

(* What is left of a multiple and less than a day is the less.             *)
LEMMA Remainder ==
  ASSUME NEW u \in Positive, NEW q \in Nat, NEW r \in Nat, r < u
  PROVE  (q * u + r) % u = r
<1> DEFINE a == q * u + r
           d == a \div u
           m == a % u
<1>1. q * u \in Nat /\ a \in Nat
  BY Product, SMT DEF Positive
<1>2. d \in Int /\ m \in Int /\ 0 <= m /\ m < u /\ a = d * u + m
  BY <1>1, SMT DEF Positive
<1> HIDE DEF d, m
<1>3. ASSUME d + 1 <= q PROVE FALSE
  <2>1. (d + 1) * u <= q * u
    BY <1>2, <1>3, Times
  <2>2. (d + 1) * u = d * u + u
    BY <1>2, SMT DEF Positive
  <2> QED
    BY <1>1, <1>2, <2>1, <2>2, SMT DEF Positive
<1>4. ASSUME q + 1 <= d PROVE FALSE
  <2>1. (q + 1) * u <= d * u
    BY <1>2, <1>4, Times
  <2>2. (q + 1) * u = q * u + u
    BY SMT DEF Positive
  <2> QED
    BY <1>1, <1>2, <2>1, <2>2, SMT DEF Positive
<1>5. d = q
  BY <1>2, <1>3, <1>4, SMT
<1>6. m = r
  BY <1>1, <1>2, <1>5, SMT DEF Positive
<1> QED
  BY <1>6 DEF m

(* A number is so many days and its hour of the day.                       *)
LEMMA Split ==
  ASSUME NEW n \in Nat, NEW u \in Positive
  PROVE  /\ n \div u \in Nat /\ n % u \in Nat /\ n % u < u
         /\ n = (n \div u) * u + (n % u)
<1> DEFINE d == n \div u
           m == n % u
<1>1. d \in Int /\ m \in Nat /\ m < u /\ n = d * u + m
  BY SMT DEF Positive
<1> HIDE DEF d, m
<1>2. ASSUME d + 1 <= 0 PROVE FALSE
  <2>1. (d + 1) * u <= 0 * u /\ (d + 1) * u = d * u + u /\ 0 * u = 0
    BY <1>1, <1>2, Times, SMT DEF Positive
  <2> QED
    BY <1>1, <2>1, SMT DEF Positive
<1>3. d \in Nat
  BY <1>1, <1>2, SMT
<1> QED
  BY <1>1, <1>3 DEF d, m

(* The same hour of the day comes after whole days.                        *)
LEMMA WholeDays ==
  ASSUME NEW u \in Positive, NEW a \in Nat, NEW b \in Nat, a <= b, a % u = b % u
  PROVE  (b - a) % u = 0
<1> DEFINE c == a \div u
           d == b \div u
           m == a % u
<1>1. /\ c \in Nat /\ d \in Nat /\ m \in Nat /\ m < u
      /\ a = c * u + m /\ b = d * u + m
  BY Split, SMT
<1> HIDE DEF c, d, m
<1>2. c <= d
  <2>1. SUFFICES ASSUME d + 1 <= c PROVE FALSE
    BY <1>1, SMT
  <2>2. (d + 1) * u <= c * u
    BY <1>1, <2>1, Times
  <2>3. (d + 1) * u = d * u + u
    BY <1>1, SMT DEF Positive
  <2> QED
    BY <1>1, <2>2, <2>3, Product, SMT DEF Positive
<1>3. d - c \in Nat /\ b - a = (d - c) * u + 0
  BY <1>1, <1>2, SMT DEF Positive
<1>4. 0 \in Nat /\ 0 < u
  BY SMT DEF Positive
<1> QED
  BY <1>3, <1>4, Remainder

(* An hour after whole days is the next hour of the day.                   *)
LEMMA NextHour ==
  ASSUME NEW u \in Positive, NEW n \in Nat, n % u = 0
  PROVE  (n + 1) % u <= 1
<1>1. CASE u = 1
  BY <1>1, SMT
<1>2. CASE u # 1
  <2> DEFINE q == n \div u
  <2>0. q \in Nat /\ n = q * u + (n % u)
    BY Split
  <2> HIDE DEF q
  <2>1. q \in Nat /\ n + 1 = q * u + 1
    BY <2>0, Product, SMT
  <2>2. 1 \in Nat /\ 1 < u
    BY <1>2, SMT DEF Positive
  <2>3. (n + 1) % u = 1
    BY <2>1, <2>2, Remainder
  <2> QED
    BY <2>3
<1> QED
  BY <1>1, <1>2

-----------------------------------------------------------------------------
(* The file of the hour. *)

\* The file that is open is of this hour of the day, or of the one before if
\* the hour ended under the lock.
Fitting ==
    /\ fs_ <= now
    /\ \/ (now - fs_) % HoursPerDay = 0
       \/ now # since /\ (now - fs_) % HoursPerDay <= 1

\* Where a thread that has made the check is, and still writes.
Checked(t) == pc[t] \in {"clean", "filter", "message"}

HourInv ==
    /\ TypeOK /\ Held
    /\ fs_ # None => fs_ <= now /\ cur_hour_ = fs_ % HoursPerDay
    /\ fs_ # None => \A t \in Thread : Checked(t) => Fitting
    /\ FileOfTheHour

(* The check lets a thread on with a file that fits.                       *)
LEMMA CheckFits ==
  ASSUME HourInv, NEW t \in Thread, NewFile(t)
  PROVE  HourInv'
<1>1. TypeOK' /\ Held'
  BY TypeStep, HeldStep DEF HourInv, Next, Writing
<1>2. HoursPerDay \in Positive /\ now \in Nat /\ (fs_ # None => fs_ \in Nat)
  BY Hours, HourAssumption DEF HourInv, TypeOK, Positive
<1>3. now' = now /\ content' = content /\ since' = since
  BY DEF NewFile, file, storage, disk, OpenFile
<1>4. FileOfTheHour'
  BY <1>3 DEF FileOfTheHour, HourInv
<1>5. CASE UNCHANGED file /\ cur_hour_ = CurHour
  <2>1. fs_' = fs_ /\ cur_hour_' = cur_hour_
    BY <1>5 DEF file
  <2>2. fs_ # None => fs_ <= now /\ fs_ % HoursPerDay = now % HoursPerDay
    BY <1>5 DEF HourInv, CurHour
  <2>3. fs_ # None => (now - fs_) % HoursPerDay = 0
    BY <1>2, <2>2, WholeDays
  <2> QED
    BY <1>1, <1>3, <1>4, <2>1, <2>2, <2>3 DEF HourInv, Fitting
<1>6. CASE OpenFile
  <2>1. fs_' \in {now, None} /\ cur_hour_' = now % HoursPerDay
    BY <1>6 DEF OpenFile, CurHour
  <2>2. (now - now) % HoursPerDay = 0
    BY <1>2, WholeDays
  <2> QED
    BY <1>1, <1>2, <1>3, <1>4, <2>1, <2>2 DEF HourInv, Fitting
<1> QED
  BY <1>5, <1>6 DEF NewFile

(* What is written is written into a file that fits, within the hour.      *)
LEMMA WriteFits ==
  ASSUME HourInv, NEW t \in Thread, PutStamp(t) \/ PutMessage(t)
  PROVE  HourInv'
<1>1. TypeOK' /\ Held'
  BY TypeStep, HeldStep DEF HourInv, Next, Writing
<1>2. /\ UNCHANGED <<now, since, fs_, cur_hour_>> /\ Checked(t)
      /\ \A u \in Thread : Checked(u)' => Checked(u)
  BY DEF PutStamp, PutMessage, file, Checked, Go, HourInv, TypeOK
<1>3. fs_ # None => Fitting
  BY <1>2 DEF HourInv
<1>4. ASSUME NEW h \in Hour, NEW i \in DOMAIN content'[h]
      PROVE  /\ content'[h][i].at >= h
             /\ (content'[h][i].at - h) % HoursPerDay <= 1
  <2>1. CASE content'[h] = content[h]
    BY <1>4, <2>1 DEF HourInv, FileOfTheHour
  <2>2. CASE content'[h] # content[h]
    <3>1. PICK piece \in {"stamp", "message"} : Put(t, piece)
      BY DEF PutStamp, PutMessage
    <3> DEFINE e == [by |-> t, nr |-> count[t], piece |-> piece, at |-> now]
    <3>2. fs_ = h /\ fs_ # None /\ content'[h] = Append(content[h], e)
      BY <2>2, <3>1, Hours DEF Put, HourInv, TypeOK
    <3>3. e \in Piece /\ e.at = now /\ content[h] \in Seq(Piece)
      BY DEF Piece, HourInv, TypeOK
    <3>4. h <= now /\ (now - h) % HoursPerDay <= 1
      BY <1>3, <3>2 DEF Fitting
    <3>5. now \in Nat /\ h \in Nat
      BY Hours DEF HourInv, TypeOK
    <3> HIDE DEF e
    <3>6. \/ i \in DOMAIN content[h] /\ content'[h][i] = content[h][i]
          \/ content'[h][i] = e
      BY <1>4, <3>2, <3>3
    <3>7. CASE i \in DOMAIN content[h] /\ content'[h][i] = content[h][i]
      BY <3>7 DEF HourInv, FileOfTheHour
    <3>8. CASE content'[h][i] = e
      BY <3>3, <3>4, <3>5, <3>8
    <3> QED
      BY <3>6, <3>7, <3>8
  <2> QED
    BY <2>1, <2>2
<1>5. FileOfTheHour'
  BY <1>4 DEF FileOfTheHour
<1> QED
  BY <1>1, <1>2, <1>5 DEF HourInv, Fitting

(* The clock goes on by an hour at most while a thread has the lock.       *)
LEMMA TickFits ==
  ASSUME HourInv, Tick
  PROVE  HourInv'
<1>1. TypeOK' /\ Held'
  BY TypeStep, HeldStep DEF HourInv, Next
<1>2. /\ now' = now + 1 /\ UNCHANGED <<since, fs_, cur_hour_, pc, content>>
      /\ print_ # None => now = since
  BY DEF Tick, file, disk
<1>3. HoursPerDay \in Positive /\ now \in Nat /\ (fs_ # None => fs_ \in Nat)
  BY Hours, HourAssumption DEF HourInv, TypeOK, Positive
<1>4. ASSUME fs_ # None, NEW t \in Thread, Checked(t) PROVE Fitting'
  <2>1. Fitting /\ now = since
    BY <1>2, <1>4, NoneAssumption DEF HourInv, Held, Checked
  <2>2. now - fs_ \in Nat /\ (now - fs_) % HoursPerDay = 0
    BY <1>3, <1>4, <2>1 DEF Fitting
  <2>3. ((now - fs_) + 1) % HoursPerDay <= 1
    BY <1>3, <2>2, NextHour
  <2>4. now' - fs_' = (now - fs_) + 1 /\ fs_' <= now' /\ now' # since'
    BY <1>2, <1>3, <1>4, <2>1, <2>2
  <2> QED
    BY <2>3, <2>4 DEF Fitting
<1>5. fs_ # None => fs_' <= now' /\ cur_hour_' = fs_' % HoursPerDay
  BY <1>2, <1>3 DEF HourInv
<1>6. FileOfTheHour'
  BY <1>2 DEF HourInv, FileOfTheHour
<1> QED
  BY <1>1, <1>2, <1>4, <1>5, <1>6 DEF HourInv, Checked

(* Who takes the lock finds no thread that has made the check.             *)
LEMMA LockFits ==
  ASSUME HourInv, NEW t \in Thread, BeginPrint(t) \/ NewFileWithLock(t)
  PROVE  HourInv'
<1>1. TypeOK' /\ Held'
  BY TypeStep, HeldStep DEF HourInv, Next
<1>2. UNCHANGED <<now, fs_, cur_hour_, content>> /\ print_ = None
  BY DEF BeginPrint, NewFileWithLock, Lock, file, disk
<1>3. \A u \in Thread : ~Checked(u) /\ ~Checked(u)'
  BY <1>2, NoneAssumption
  DEF HourInv, TypeOK, Held, Checked, BeginPrint, NewFileWithLock, Go
<1>4. FileOfTheHour'
  BY <1>2 DEF HourInv, FileOfTheHour
<1> QED
  BY <1>1, <1>2, <1>3, <1>4 DEF HourInv

(* The first opening makes the file of its hour.                           *)
LEMMA FirstFits ==
  ASSUME HourInv, OpenFirst
  PROVE  HourInv'
<1>1. TypeOK' /\ Held'
  BY TypeStep, HeldStep DEF HourInv, Next
<1>2. /\ now' = now /\ content' = content /\ now \in Nat
      /\ fs_' \in {now, None} /\ cur_hour_' = now % HoursPerDay
  BY Hours DEF OpenFirst, OpenFile, CurHour, HourInv, TypeOK
<1>3. \A u \in Thread : ~Checked(u)'
  BY DEF OpenFirst, Checked
<1>4. FileOfTheHour'
  BY <1>2 DEF HourInv, FileOfTheHour
<1> QED
  BY <1>1, <1>2, <1>3, <1>4 DEF HourInv

(* Every step keeps the file that is open fitting for who writes.          *)
LEMMA HourStep == HourInv /\ [Next]_vars => HourInv'
<1> SUFFICES ASSUME HourInv, [Next]_vars PROVE HourInv'
  OBVIOUS
<1>1. ASSUME UNCHANGED <<now, since, fs_, cur_hour_, content>>,
             \A u \in Thread : Checked(u)' => Checked(u)
      PROVE  HourInv'
  <2>1. TypeOK' /\ Held'
    BY TypeStep, HeldStep DEF HourInv
  <2>2. FileOfTheHour'
    BY <1>1 DEF HourInv, FileOfTheHour
  <2> QED
    BY <1>1, <2>1, <2>2 DEF HourInv, Fitting
<1>2. ASSUME NEW t \in Thread, SpawnCleaner(t) \/ BelowMinimum(t) \/ Unlock(t)
      PROVE  HourInv'
  BY <1>1, <1>2
  DEF SpawnCleaner, BelowMinimum, Unlock, After, Go, Checked, file, disk, HourInv, TypeOK
<1>3. CASE SetLogStorageDuration \/ UNCHANGED vars
  BY <1>1, <1>3 DEF SetLogStorageDuration, vars, Checked, file, disk
<1>4. ASSUME NEW c \in cleaners, Cleaner(c) PROVE HourInv'
  BY <1>1, <1>4 DEF Cleaner, FindLimit, Remove, EndCleaner, Checked, file, disk
<1> QED
  BY <1>2, <1>3, <1>4, CheckFits, WriteFits, TickFits, LockFits, FirstFits
  DEF Next, Writing

(* A line is in the file of its hour of the day or of the hour before, for *)
(* any length of the day, any threads and failed openings.                 *)
THEOREM FileOfTheHourHolds == Spec => []FileOfTheHour
<1>1. Init => HourInv
  <2>1. Init => TypeOK /\ Held
    BY Initial DEF LineInv
  <2>2. Init => fs_ = None /\ \A h \in Hour : DOMAIN content[h] = {}
    BY DEF Init
  <2> QED
    BY <2>1, <2>2 DEF HourInv, FileOfTheHour
<1>2. HourInv => FileOfTheHour
  BY DEF HourInv
<1> QED
  BY <1>1, <1>2, HourStep, PTL DEF Spec
=============================================================================
