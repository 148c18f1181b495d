----------------------------- MODULE InputProofs -----------------------------
(***************************************************************************)
(* Proofs about what the program makes of what it is given: that every     *)
(* DBMSSQL event of the log is in one request of LoadStressTest, once and  *)
(* in its place (StressTest); that the packed dates can be read back       *)
(* (Dates); where reading a file starts, how long it is watched, what the  *)
(* settings say, and that an analysis adds up (ProgramInputs).             *)
(*                                                                         *)
(* FlattenSeq, the searches of FindStartPosition and the loop of           *)
(* RunAnalysis are recursive functions.  What they compute is proved by    *)
(* induction over sets of numbers, NatSetInduction; that such a function   *)
(* exists at all is part of it.                                            *)
(***************************************************************************)
EXTENDS StressTest, Dates, ProgramInputs, SequenceTheorems, WellFoundedInduction, TLAPS

-----------------------------------------------------------------------------
(* Induction, and sequences of sequences.                                  *)

(* The order of the natural numbers has no infinite descent.               *)
LEMMA NatWF == IsWellFoundedOn({p \in Nat \X Nat : p[1] < p[2]}, Nat)
    BY NatLessThanWellFounded DEF OpToRel

(* Induction: a set with 0 that is closed under successors has all         *)
(* numbers.                                                                *)
LEMMA NatSetInduction ==
    ASSUME NEW S, 0 \in S, \A n \in Nat : n \in S => n + 1 \in S
    PROVE  Nat \subseteq S
<1> DEFINE R == {p \in Nat \X Nat : p[1] < p[2]}
           T == Nat \ S
<1>1. \A x, y \in Nat : <<x, y>> \in R <=> x < y
    OBVIOUS
<1>2. ASSUME T # {} PROVE FALSE
    <2>1. IsWellFoundedOn(R, Nat)
        BY NatWF
    <2>2. T \subseteq Nat
        OBVIOUS
    <2>h. HIDE DEF R, T
    <2>3. PICK x \in T : \A y \in T : ~ (<<y, x>> \in R)
        BY <1>2, <2>1, <2>2, WFMin, Zenon
    <2>4. x \in Nat /\ x \notin S /\ \A y \in Nat : y \notin S => ~(y < x)
        BY <1>1, <2>2, <2>3 DEF T
    <2>5. x - 1 \in Nat /\ x - 1 < x /\ x = (x - 1) + 1
        BY <2>4
    <2>. QED
        BY <2>4, <2>5
<1> QED
    BY <1>2

Joins(s, n, g) == \A i \in 1 .. n : g[i] = IF i = 1 THEN s[i] ELSE g[i - 1] \o s[i]

(* There is a sequence of the partial results of joining s[1], s[2], ...   *)
LEMMA JoinsExists ==
    ASSUME NEW s, NEW n \in Nat
    PROVE  \E g : Joins(s, n, g)
<1> DEFINE S == {m \in Nat : \E g : Joins(s, m, g)}
<1>1. 0 \in S
    BY DEF Joins
<1>2. ASSUME NEW m \in Nat, m \in S PROVE m + 1 \in S
    <2>1. PICK g : Joins(s, m, g)
        BY <1>2
    <2> DEFINE last == IF m = 0 THEN s[1] ELSE g[m] \o s[m + 1]
               h == [i \in 1 .. m + 1 |-> IF i <= m THEN g[i] ELSE last]
    <2>2. ASSUME NEW i \in 1 .. m + 1
          PROVE  h[i] = IF i = 1 THEN s[i] ELSE h[i - 1] \o s[i]
        <3>1. CASE i <= m
            BY <2>1, <3>1 DEF Joins
        <3>2. CASE i = m + 1
            BY <2>1, <3>2 DEF Joins
        <3> QED
            BY <3>1, <3>2
    <2>h. HIDE DEF h
    <2>3. Joins(s, m + 1, h)
        BY <2>2, Zenon DEF Joins
    <2> QED
        BY <2>3
<1> QED
    BY <1>1, <1>2, NatSetInduction

(* FlattenSeq answers with the last of the partial results.                *)
LEMMA FlattenUnfold ==
    ASSUME NEW s, Len(s) \in Nat
    PROVE  \E g : /\ Joins(s, Len(s), g)
                  /\ FlattenSeq(s) = IF Len(s) = 0 THEN s ELSE g[Len(s)]
<1> DEFINE n == Len(s)
           Is(f) == f = [i \in 1 .. n |-> IF i = 1 THEN s[i] ELSE f[i - 1] \o s[i]]
           h == CHOOSE f : Is(f)
<1>1. PICK g : Joins(s, n, g)
    BY JoinsExists
<1> DEFINE k == [i \in 1 .. n |-> g[i]]
           e == [i \in 1 .. n |-> IF i = 1 THEN s[i] ELSE k[i - 1] \o s[i]]
<1>2. ASSUME NEW i \in 1 .. n PROVE k[i] = e[i]
    BY <1>1 DEF Joins
<1>3. k = e
    BY <1>2
<1>4. Is(k)
    BY <1>3
<1>5. Is(h)
    BY <1>4, Zenon
<1>6. FlattenSeq(s) = IF n = 0 THEN s ELSE h[n]
    BY Zenon DEF FlattenSeq
<1>h. HIDE DEF h
<1>7. Joins(s, n, h)
    BY <1>5 DEF Joins
<1> QED
    BY <1>6, <1>7

(* Nothing joined is nothing.                                              *)
LEMMA FlattenEmpty == FlattenSeq(<<>>) = <<>>
    BY FlattenUnfold

(* The partial results depend on the parts joined so far only.             *)
LEMMA JoinsUnique ==
    ASSUME NEW s, NEW t, NEW m \in Nat, \A i \in 1 .. m : s[i] = t[i],
           NEW g, NEW h, Joins(s, m, g), Joins(t, m, h)
    PROVE  \A i \in 1 .. m : g[i] = h[i]
<1> DEFINE S == {k \in Nat : k \in 1 .. m => g[k] = h[k]}
<1>1. /\ \A i \in 1 .. m : g[i] = IF i = 1 THEN s[i] ELSE g[i - 1] \o s[i]
      /\ \A i \in 1 .. m : h[i] = IF i = 1 THEN t[i] ELSE h[i - 1] \o t[i]
    BY DEF Joins
<1>2. 0 \in S
    OBVIOUS
<1>3. ASSUME NEW k \in Nat, k \in S PROVE k + 1 \in S
    <2> SUFFICES ASSUME k + 1 \in 1 .. m PROVE g[k + 1] = h[k + 1]
        OBVIOUS
    <2>1. CASE k = 0
        BY <1>1, <2>1
    <2>2. CASE k # 0
        BY <1>1, <1>3, <2>2
    <2> QED
        BY <2>1, <2>2
<1>4. Nat \subseteq S
    BY <1>2, <1>3, NatSetInduction
<1> QED
    BY <1>4

(* Joining one part more appends it.                                       *)
LEMMA FlattenLast ==
    ASSUME NEW s, NEW t, Len(s) \in Nat, Len(t) = Len(s) + 1,
           \A i \in 1 .. Len(s) : s[i] = t[i]
    PROVE  FlattenSeq(t) = IF Len(s) = 0 THEN t[1] ELSE FlattenSeq(s) \o t[Len(t)]
<1> DEFINE n == Len(s)
<1>0. n \in Nat /\ \A i \in 1 .. n : s[i] = t[i]
    OBVIOUS
<1>1. PICK g : Joins(s, n, g) /\ FlattenSeq(s) = IF n = 0 THEN s ELSE g[n]
    BY FlattenUnfold
<1>2. Len(t) \in Nat /\ Len(t) = n + 1 /\ Len(t) # 0
    OBVIOUS
<1>3. PICK h : Joins(t, n + 1, h) /\ FlattenSeq(t) = h[n + 1]
    BY <1>2, FlattenUnfold
<1>4. h[n + 1] = IF n = 0 THEN t[1] ELSE h[n] \o t[n + 1]
    BY <1>3 DEF Joins
<1>5. CASE n = 0
    BY <1>3, <1>4, <1>5
<1>6. CASE n # 0
    <2>1. Joins(t, n, h)
        BY <1>3 DEF Joins
    <2> HIDE DEF n
    <2>a. Joins(s, n, g)
        BY <1>1
    <2>2. \A i \in 1 .. n : g[i] = h[i]
        BY <1>0, <2>a, <2>1, JoinsUnique, SMTT(20)
    <2>3. g[n] = h[n]
        BY <1>0, <1>6, <2>2
    <2> USE DEF n
    <2> QED
        BY <1>1, <1>2, <1>3, <1>4, <1>6, <2>3, Zenon
<1> QED
    BY <1>5, <1>6

(* Joining an appended part appends it.                                    *)
LEMMA FlattenAppend ==
    ASSUME NEW S, NEW s \in Seq(Seq(S)), NEW x \in Seq(S)
    PROVE  FlattenSeq(Append(s, x)) = FlattenSeq(s) \o x
<1>1. FlattenSeq(Append(s, x))
          = IF Len(s) = 0 THEN x ELSE FlattenSeq(s) \o x
    <2> DEFINE t == Append(s, x)
    <2>1. /\ Len(s) \in Nat /\ Len(t) = Len(s) + 1 /\ t[Len(s) + 1] = x
          /\ \A i \in 1 .. Len(s) : s[i] = t[i]
        OBVIOUS
    <2>h. HIDE DEF t
    <2>2. FlattenSeq(t) = IF Len(s) = 0 THEN t[1] ELSE FlattenSeq(s) \o t[Len(t)]
        BY <2>1, FlattenLast
    <2>3. FlattenSeq(t) = IF Len(s) = 0 THEN x ELSE FlattenSeq(s) \o x
        BY <2>1, <2>2
    <2> QED
        BY <2>3 DEF t
<1>2. Len(s) = 0 => s = <<>> /\ FlattenSeq(s) = <<>> /\ x = <<>> \o x
    BY FlattenEmpty
<1> QED
    BY <1>1, <1>2

(* Parts over a set are joined to a sequence over it.                      *)
LEMMA FlattenType ==
    ASSUME NEW S, NEW s \in Seq(Seq(S))
    PROVE  FlattenSeq(s) \in Seq(S)
<1> DEFINE N == {n \in Nat : \A t \in Seq(Seq(S)) : Len(t) = n => FlattenSeq(t) \in Seq(S)}
<1>1. 0 \in N
    BY FlattenEmpty
<1>2. ASSUME NEW n \in Nat, n \in N PROVE n + 1 \in N
    <2> SUFFICES ASSUME NEW t \in Seq(Seq(S)), Len(t) = n + 1
                 PROVE  FlattenSeq(t) \in Seq(S)
        OBVIOUS
    <2>0. t # <<>>
        OBVIOUS
    <2>1. PICK u \in Seq(Seq(S)), x \in Seq(S) : t = Append(u, x)
        BY <2>0, SequenceEmptyOrAppend, Zenon
    <2>2. Len(u) = n
        BY <2>1
    <2>3. FlattenSeq(u) \in Seq(S)
        BY <1>2, <2>2
    <2>4. FlattenSeq(t) = FlattenSeq(u) \o x
        BY <2>1, FlattenAppend
    <2> QED
        BY <2>3, <2>4
<1>3. Nat \subseteq N
    BY <1>1, <1>2, NatSetInduction
<1> QED
    BY <1>3

(* Joining two lists of parts joins what they give.                        *)
LEMMA FlattenConcat ==
    ASSUME NEW S, NEW s \in Seq(Seq(S)), NEW t \in Seq(Seq(S))
    PROVE  FlattenSeq(s \o t) = FlattenSeq(s) \o FlattenSeq(t)
<1> DEFINE N == {n \in Nat : \A u \in Seq(Seq(S)) :
                    Len(u) = n => FlattenSeq(s \o u) = FlattenSeq(s) \o FlattenSeq(u)}
<1>0. FlattenSeq(s) \in Seq(S)
    BY FlattenType
<1>1. 0 \in N
    <2> SUFFICES ASSUME NEW u \in Seq(Seq(S)), Len(u) = 0
                 PROVE  FlattenSeq(s \o u) = FlattenSeq(s) \o FlattenSeq(u)
        OBVIOUS
    <2>1. u = <<>> /\ s \o <<>> = s /\ FlattenSeq(s) \o <<>> = FlattenSeq(s)
        BY <1>0
    <2> QED
        BY <2>1, FlattenEmpty
<1>2. ASSUME NEW n \in Nat, n \in N PROVE n + 1 \in N
    <2> SUFFICES ASSUME NEW u \in Seq(Seq(S)), Len(u) = n + 1
                 PROVE  FlattenSeq(s \o u) = FlattenSeq(s) \o FlattenSeq(u)
        OBVIOUS
    <2> HIDE DEF N
    <2>0. u # <<>>
        OBVIOUS
    <2>1. PICK v \in Seq(Seq(S)), x \in Seq(S) : u = Append(v, x)
        BY <2>0, SequenceEmptyOrAppend, Zenon
    <2>2. Len(v) = n /\ s \o v \in Seq(Seq(S)) /\ s \o u = Append(s \o v, x)
        BY <2>1
    <2>3. FlattenSeq(s \o v) = FlattenSeq(s) \o FlattenSeq(v)
        BY <1>2, <2>2 DEF N
    <2>4. /\ FlattenSeq(u) = FlattenSeq(v) \o x
          /\ FlattenSeq(s \o u) = FlattenSeq(s \o v) \o x
        BY <2>1, <2>2, FlattenAppend
    <2>5. FlattenSeq(v) \in Seq(S)
        BY FlattenType
    <2>6. (FlattenSeq(s) \o FlattenSeq(v)) \o x = FlattenSeq(s) \o (FlattenSeq(v) \o x)
        BY <1>0, <2>5, SMTT(30)
    <2> QED
        BY <2>3, <2>4, <2>6, Zenon
<1>3. Nat \subseteq N
    BY <1>1, <1>2, NatSetInduction
<1> QED
    BY <1>3

(* One part is its own join.                                               *)
LEMMA FlattenOne ==
    ASSUME NEW S, NEW x \in Seq(S)
    PROVE  FlattenSeq(<<x>>) = x
<1>1. <<x>> = Append(<<>>, x) /\ <<>> \in Seq(Seq(S)) /\ <<>> \o x = x
    OBVIOUS
<1> QED
    BY <1>1, FlattenAppend, FlattenEmpty

-----------------------------------------------------------------------------
(* The DBMSSQL events among others. *)

One(e) == IF e.dbmssql THEN <<e>> ELSE <<>>
Pieces(s) == [i \in DOMAIN s |-> One(s[i])]

(* What each event contributes, one by one.                                *)
LEMMA PiecesType ==
    ASSUME NEW s \in Seq(Event)
    PROVE  Pieces(s) \in Seq(Seq(Event)) /\ Len(Pieces(s)) = Len(s)
<1>1. \A i \in 1 .. Len(s) : One(s[i]) \in Seq(Event)
    BY DEF One
<1> QED
    BY <1>1 DEF Pieces

(* The DBMSSQL events are these contributions joined.                      *)
LEMMA DBMSSQLPieces ==
    ASSUME NEW s
    PROVE  DBMSSQL(s) = FlattenSeq(Pieces(s))
    BY Zenon DEF DBMSSQL, Pieces, One

(* The DBMSSQL events are events.                                          *)
LEMMA DBMSSQLType ==
    ASSUME NEW s \in Seq(Event)
    PROVE  DBMSSQL(s) \in Seq(Event)
    BY PiecesType, DBMSSQLPieces, FlattenType

(* There are none among none.                                              *)
LEMMA DBMSSQLEmpty == DBMSSQL(<<>>) = <<>>
<1>1. Pieces(<<>>) = <<>>
    BY DEF Pieces
<1> QED
    BY <1>1, DBMSSQLPieces, FlattenEmpty

(* The DBMSSQL events of two sequences are those of one, then of the       *)
(* other.                                                                  *)
LEMMA DBMSSQLConcat ==
    ASSUME NEW s \in Seq(Event), NEW t \in Seq(Event)
    PROVE  DBMSSQL(s \o t) = DBMSSQL(s) \o DBMSSQL(t)
<1>1. Pieces(s) \in Seq(Seq(Event)) /\ Pieces(t) \in Seq(Seq(Event))
    BY PiecesType
<1>2. Pieces(s \o t) = Pieces(s) \o Pieces(t)
    <2>1. s \o t \in Seq(Event) /\ Len(s \o t) = Len(s) + Len(t)
        OBVIOUS
    <2>2. Pieces(s \o t) \in Seq(Seq(Event)) /\ Len(Pieces(s \o t)) = Len(s) + Len(t)
        BY <2>1, PiecesType
    <2>3. \A i \in 1 .. Len(s) + Len(t) : Pieces(s \o t)[i] = (Pieces(s) \o Pieces(t))[i]
        <3> SUFFICES ASSUME NEW i \in 1 .. Len(s) + Len(t)
                     PROVE  Pieces(s \o t)[i] = (Pieces(s) \o Pieces(t))[i]
            OBVIOUS
        <3>1. Pieces(s \o t)[i] = One((s \o t)[i])
            BY DEF Pieces
        <3>2. CASE i <= Len(s)
            BY <3>1, <3>2 DEF Pieces
        <3>3. CASE i > Len(s)
            <4>1. i - Len(s) \in 1 .. Len(t) /\ (s \o t)[i] = t[i - Len(s)]
                BY <3>3
            <4>2. Len(Pieces(s)) = Len(s) /\ Len(Pieces(t)) = Len(t)
                BY PiecesType
            <4>3. (Pieces(s) \o Pieces(t))[i] = Pieces(t)[i - Len(s)]
                BY <1>1, <3>3, <4>2, ConcatProperties
            <4>4. Pieces(t)[i - Len(s)] = One(t[i - Len(s)])
                BY <4>1 DEF Pieces
            <4>. QED
                BY <3>1, <4>1, <4>3, <4>4, Zenon
        <3>4. i <= Len(s) \/ i > Len(s)
            OBVIOUS
        <3>. QED
            BY <3>2, <3>3, <3>4, Zenon
    <2>4. /\ Pieces(s) \o Pieces(t) \in Seq(Seq(Event))
          /\ Len(Pieces(s) \o Pieces(t)) = Len(Pieces(s)) + Len(Pieces(t))
        BY <1>1, ConcatProperties, Zenon
    <2>5. Len(Pieces(s)) = Len(s) /\ Len(Pieces(t)) = Len(t)
        BY PiecesType, Zenon
    <2> QED
        BY <2>2, <2>3, <2>4, <2>5, SeqEqual
<1>3. FlattenSeq(Pieces(s) \o Pieces(t)) = FlattenSeq(Pieces(s)) \o FlattenSeq(Pieces(t))
    BY <1>1, FlattenConcat
<1> QED
    BY <1>2, <1>3, DBMSSQLPieces

(* One event is DBMSSQL or contributes nothing.                            *)
LEMMA DBMSSQLOne ==
    ASSUME NEW e \in Event
    PROVE  DBMSSQL(<<e>>) = One(e) /\ One(e) \in Seq(Event) /\ Len(One(e)) \in {0, 1}
<1>1. One(e) \in Seq(Event) /\ Len(One(e)) \in {0, 1}
    BY DEF One
<1>2. Pieces(<<e>>) = <<One(e)>>
    BY DEF Pieces
<1> QED
    BY <1>1, <1>2, DBMSSQLPieces, FlattenOne

-----------------------------------------------------------------------------
(* What is left of a sequence.                                             *)

(* What is left of a sequence, from each place on.                         *)
LEMMA RestFacts ==
    ASSUME NEW S, NEW s \in Seq(S)
    PROVE  /\ Rest(s, 1) = s
           /\ Rest(s, Len(s) + 1) = <<>>
           /\ \A i \in 1 .. Len(s) + 1 : Rest(s, i) \in Seq(S)
           /\ \A i \in 1 .. Len(s) : Rest(s, i) = <<s[i]>> \o Rest(s, i + 1)
    BY DEF Rest

(* What is appended is left at the end.                                    *)
LEMMA RestAppend ==
    ASSUME NEW S, NEW s \in Seq(S), NEW x \in S, NEW i \in 1 .. Len(s) + 1
    PROVE  Rest(Append(s, x), i) = Rest(s, i) \o <<x>>
    BY DEF Rest

-----------------------------------------------------------------------------
(* Types, and where the cursor is at each place of the program.            *)

CursorType ==
    /\ files_ \in Seq(Seq(Seq(Event)))
    /\ it_file_ \in 1 .. Len(files_) + 1
    /\ reader_ \in BOOLEAN
    /\ reader_ => it_file_ <= Len(files_) /\ buffer \in 1 .. Len(files_[it_file_]) + 1

BatchType ==
    /\ events_temp_ \in Seq(Event) /\ it_event_temp_ \in 1 .. Len(events_temp_) + 1
    /\ events_ \in Seq(Event) /\ it \in 1 .. Len(events_) + 1

RequestType ==
    /\ dbmssql \in Seq(Event) /\ sent \in Seq(Seq(Event)) /\ rows \in Nat

TypeInv ==
    /\ pc \in {"next", "files", "buffer", "take", "use", "rest", "done", "died"}
    /\ CursorType /\ BatchType /\ RequestType

Control ==
    /\ pc \in {"buffer", "take"} => reader_
    /\ pc \in {"files", "buffer", "rest", "done"}
           => it_event_temp_ = Len(events_temp_) + 1
    /\ pc # "use" => it = 1
    /\ pc \in {"rest", "done"} => it_file_ = Len(files_) + 1 /\ events_ = <<>>

Requests ==
    /\ pc # "done" => rows = Len(dbmssql) /\ rows < MaxRows
    /\ pc # "done" => \A i \in DOMAIN sent : Len(sent[i]) = MaxRows

\* The events that the cursor has read or will read, and nobody has used.
Ahead == Rest(events_, it) \o Rest(events_temp_, it_event_temp_) \o Unread

Later(n) == FlattenSeq([f \in 1 .. (Len(files_) - n) |-> Events(n + f)])

(* A file is a sequence of buffers, and its events are events.             *)
LEMMA EventsType ==
    ASSUME TypeInv, NEW f \in 1 .. Len(files_)
    PROVE  files_[f] \in Seq(Seq(Event)) /\ Events(f) \in Seq(Event)
<1>1. files_[f] \in Seq(Seq(Event))
    BY DEF TypeInv, CursorType
<1> QED
    BY <1>1, FlattenType DEF Events

(* The events of the files from a place on are events.                     *)
LEMMA LaterType ==
    ASSUME TypeInv, NEW n \in 0 .. Len(files_)
    PROVE  /\ [f \in 1 .. (Len(files_) - n) |-> Events(n + f)] \in Seq(Seq(Event))
           /\ Later(n) \in Seq(Event)
<1>1. Len(files_) \in Nat
    BY DEF TypeInv, CursorType
<1>2. \A f \in 1 .. (Len(files_) - n) : Events(n + f) \in Seq(Event)
    BY <1>1, EventsType
<1>3. [f \in 1 .. (Len(files_) - n) |-> Events(n + f)] \in Seq(Seq(Event))
    BY <1>1, <1>2
<1> QED
    BY <1>3, FlattenType DEF Later

\* The events of the files from one on are its events and those of the files after it.
LEMMA LaterUnfold ==
    ASSUME TypeInv, NEW n \in 0 .. Len(files_)
    PROVE  Later(n) = IF n = Len(files_) THEN <<>> ELSE Events(n + 1) \o Later(n + 1)
<1>0. Len(files_) \in Nat
    BY DEF TypeInv, CursorType
<1>1. CASE n = Len(files_)
    <2>1. [f \in 1 .. (Len(files_) - n) |-> Events(n + f)] = <<>>
        BY <1>0, <1>1
    <2> QED
        BY <1>1, <2>1, FlattenEmpty DEF Later
<1>2. CASE n # Len(files_)
    <2> DEFINE all == [f \in 1 .. (Len(files_) - n) |-> Events(n + f)]
               first == Events(n + 1)
               others == [f \in 1 .. (Len(files_) - (n + 1)) |-> Events((n + 1) + f)]
               joined == <<first>> \o others
    <2>1. n + 1 \in 0 .. Len(files_) /\ n + 1 \in 1 .. Len(files_)
        BY <1>0, <1>2
    <2>2. all \in Seq(Seq(Event)) /\ others \in Seq(Seq(Event)) /\ first \in Seq(Event)
        BY <2>1, LaterType, EventsType
    <2>3. /\ Len(all) = Len(files_) - n /\ Len(others) = Len(files_) - (n + 1)
          /\ \A i \in 1 .. Len(files_) - n : all[i] = Events(n + i)
          /\ \A i \in 1 .. Len(files_) - (n + 1) : others[i] = Events((n + 1) + i)
        BY <1>0, <1>2
    <2>4. first = Events(n + 1)
        OBVIOUS
    <2> HIDE DEF all, first, others
    <2>5. joined \in Seq(Seq(Event)) /\ Len(joined) = Len(all)
        <3>1. <<first>> \in Seq(Seq(Event)) /\ Len(<<first>>) = 1
            BY <2>2
        <3>2. joined \in Seq(Seq(Event)) /\ Len(joined) = 1 + Len(others)
            BY <2>2, <3>1, ConcatProperties
        <3>. HIDE DEF joined
        <3>. QED
            BY <1>0, <2>3, <3>2
    <2>6. ASSUME NEW i \in 1 .. Len(all) PROVE all[i] = joined[i]
        <3>1. CASE i = 1
            BY <1>0, <2>2, <2>3, <2>4, <3>1
        <3>2. CASE i # 1
            <4>1. i - 1 \in 1 .. Len(files_) - (n + 1) /\ (n + 1) + (i - 1) = n + i
                BY <1>0, <2>3, <3>2
            <4>2. joined[i] = others[i - 1]
                BY <1>0, <2>2, <2>3, <3>2, SMTT(20)
            <4> QED
                BY <2>3, <4>1, <4>2
        <3> QED
            BY <3>1, <3>2
    <2> HIDE DEF joined
    <2>7. all = joined
        BY <2>2, <2>5, <2>6, SeqEqual
    <2>8. FlattenSeq(joined) = FlattenSeq(<<first>>) \o FlattenSeq(others)
        <3>1. <<first>> \in Seq(Seq(Event))
            BY <2>2
        <3>. QED
            BY <2>2, <3>1, FlattenConcat, Zenon DEF joined
    <2>9. FlattenSeq(all) = first \o FlattenSeq(others)
        BY <2>2, <2>7, <2>8, FlattenOne
    <2> QED
        BY <1>2, <2>9 DEF Later, all, first, others
<1> QED
    BY <1>1, <1>2

UnreadIs ==
    /\ Unread \in Seq(Event)
    /\ ~reader_ => Unread = Later(it_file_ - 1)
    /\ reader_ => Unread = FlattenSeq(Rest(files_[it_file_], buffer)) \o Later(it_file_)

(* What is unread is what is left of the open file, and the files after    *)
(* it.                                                                     *)
LEMMA UnreadFacts == TypeInv => UnreadIs
<1>. SUFFICES ASSUME TypeInv PROVE UnreadIs
    OBVIOUS
<1>0. Len(files_) \in Nat /\ it_file_ \in 1 .. Len(files_) + 1
    BY DEF TypeInv, CursorType
<1>1. Unread = IF it_file_ > Len(files_) THEN <<>>
               ELSE FlattenSeq(Rest(files_[it_file_], IF reader_ THEN buffer ELSE 1))
                    \o Later(it_file_)
    BY DEF Unread, Later
<1>2. CASE it_file_ = Len(files_) + 1
    <2>1. Unread = <<>> /\ ~reader_ /\ it_file_ - 1 = Len(files_)
        BY <1>0, <1>1, <1>2 DEF TypeInv, CursorType
    <2>2. Later(Len(files_)) = <<>>
        BY <1>0, LaterUnfold
    <2> QED
        BY <2>1, <2>2 DEF UnreadIs
<1>3. CASE it_file_ \in 1 .. Len(files_)
    <2>1. files_[it_file_] \in Seq(Seq(Event)) /\ Later(it_file_) \in Seq(Event)
        BY <1>3, EventsType, LaterType
    <2>2. CASE reader_
        <3>1. Unread = FlattenSeq(Rest(files_[it_file_], buffer)) \o Later(it_file_)
            BY <1>0, <1>1, <1>3, <2>2
        <3>2. Rest(files_[it_file_], buffer) \in Seq(Seq(Event))
            BY <2>1, <2>2, RestFacts DEF TypeInv, CursorType
        <3>3. FlattenSeq(Rest(files_[it_file_], buffer)) \in Seq(Event)
            BY <3>2, FlattenType
        <3> QED
            BY <2>1, <2>2, <3>1, <3>3 DEF UnreadIs
    <2>3. CASE ~reader_
        <3>1. Unread = FlattenSeq(Rest(files_[it_file_], 1)) \o Later(it_file_)
            BY <1>0, <1>1, <1>3, <2>3
        <3>2. Rest(files_[it_file_], 1) = files_[it_file_]
            BY <2>1, RestFacts
        <3>3. Unread = Events(it_file_) \o Later(it_file_)
            BY <3>1, <3>2 DEF Events
        <3>4. Later(it_file_ - 1) = Events(it_file_) \o Later(it_file_)
            BY <1>0, <1>3, LaterUnfold
        <3>5. Later(it_file_ - 1) \in Seq(Event)
            BY <1>0, <1>3, LaterType
        <3> QED
            BY <2>3, <3>3, <3>4, <3>5 DEF UnreadIs
    <2> QED
        BY <2>2, <2>3
<1> QED
    BY <1>0, <1>2, <1>3

\* The same in the state after a step.
LEMMA UnreadAfter == TypeInv' => UnreadIs'
    BY UnreadFacts, PTL

-----------------------------------------------------------------------------
(* Types, control and the count of the rows are kept by every step.        *)

Types == TypeInv /\ Control /\ Requests

(* Initially the types and the control are as stated.                      *)
LEMMA InitTypes == Init => Types
<1>. SUFFICES ASSUME Init PROVE Types
    OBVIOUS
<1>1. CursorType
    <2>1. files_ \in Seq(Seq(Seq(Event))) /\ it_file_ = 1 /\ reader_ = FALSE
        BY LogAssumption DEF Init
    <2>2. it_file_ \in 1 .. Len(files_) + 1
        BY <2>1
    <2>3. reader_ \in BOOLEAN /\ ~reader_
        BY <2>1
    <2>. QED
        BY <2>1, <2>2, <2>3, Zenon DEF CursorType
<1>2. BatchType /\ RequestType
    BY DEF Init, BatchType, RequestType
<1>3. Control
    BY DEF Init, Control
<1>4. Requests
    BY LimitAssumption DEF Init, Requests
<1> QED
    BY <1>1, <1>2, <1>3, <1>4 DEF Init, Types, TypeInv

(* Taking an event of the last buffer keeps them.                          *)
LEMMA TakeTypes ==
    ASSUME Types, NEW next \in {"next", "take"}, pc = next, Take(next)
    PROVE  Types'
<1>1. BatchType
    BY DEF Types, TypeInv
<1>2. events_temp_[it_event_temp_] \in Event
    BY <1>1 DEF BatchType, Take
<1>3. BatchType'
    BY <1>1, <1>2 DEF BatchType, Take
<1>4. CursorType'
    BY DEF Types, TypeInv, CursorType, Take, log
<1>5. pc' \in {"use", next} /\ pc \in {"next", "take"}
    BY DEF Take
<1>6. RequestType' /\ Requests'
    BY <1>5 DEF Types, TypeInv, RequestType, Requests, Take, request
<1>7. it' = it /\ it = 1 /\ (next = "take" => reader_) /\ reader_' = reader_
    BY DEF Types, Control, Take
<1>8. Control'
    BY <1>5, <1>7 DEF Control
<1> QED
    BY <1>3, <1>4, <1>5, <1>6, <1>8 DEF Types, TypeInv

\* A test that leaves everything but the place in the program.
LEMMA TestTypes ==
    ASSUME Types, UNCHANGED <<log, cursor, batch, request>>, pc' # "done",
           pc \notin {"use", "done", "rest"},
           pc' \in {"buffer", "take"} => reader_,
           pc' \in {"files", "buffer", "rest"} => it_event_temp_ = Len(events_temp_) + 1,
           pc' = "rest" => it_file_ = Len(files_) + 1 /\ events_ = <<>>,
           pc' \in {"next", "files", "buffer", "take", "use", "rest", "done", "died"}
    PROVE  Types'
<1>1. CursorType'
    BY DEF Types, TypeInv, CursorType, log, cursor
<1>2. BatchType'
    BY DEF Types, TypeInv, BatchType, cursor, temp, batch
<1>3. RequestType' /\ Requests'
    BY DEF Types, TypeInv, RequestType, Requests, request
<1>4. Control'
    BY DEF Types, Control, log, cursor, temp, batch
<1> QED
    BY <1>1, <1>2, <1>3, <1>4 DEF Types, TypeInv

(* Opening a file keeps them.                                              *)
LEMMA OpenFileTypes ==
    ASSUME Types, OpenFile
    PROVE  Types'
<1>1. files_[it_file_] \in Seq(Seq(Event)) /\ it_file_ \in 1 .. Len(files_) /\ pc = "files"
    BY DEF Types, TypeInv, CursorType, OpenFile
<1>2. Len(files_[it_file_]) \in Nat
    BY <1>1
<1>3. CursorType'
    <2>1. /\ files_' = files_ /\ it_file_' = it_file_ /\ reader_' \in BOOLEAN
          /\ reader_' => buffer' \in 1 .. Len(files_[it_file_]) + 1
        <3>1. files_' = files_ /\ it_file_' = it_file_
            BY DEF OpenFile, log
        <3>2. reader_ \in BOOLEAN /\ (reader_ => buffer \in 1 .. Len(files_[it_file_]) + 1)
            BY DEF Types, TypeInv, CursorType
        <3>3. 1 \in 1 .. Len(files_[it_file_]) + 1
            BY <1>2
        <3>4. \/ reader_' = reader_ /\ buffer' = buffer
              \/ reader_' = TRUE /\ buffer' = 1
            BY DEF OpenFile
        <3>5. reader_' \in BOOLEAN
            BY <3>2, <3>4
        <3>6. ASSUME reader_' PROVE buffer' \in 1 .. Len(files_[it_file_]) + 1
            BY <3>2, <3>3, <3>4, <3>6
        <3>. QED
            BY <3>1, <3>5, <3>6
    <2>. QED
        BY <1>1, <2>1 DEF Types, TypeInv, CursorType
<1>4. BatchType' /\ it' = it /\ it = 1
    BY DEF Types, TypeInv, BatchType, Control, OpenFile, temp, batch
<1>5. RequestType' /\ Requests'
    BY DEF Types, TypeInv, RequestType, Requests, OpenFile, request
<1>6. pc' \in {"buffer", "died"} /\ (pc' = "buffer" => reader_')
    BY DEF OpenFile
<1>7. it_event_temp_' = Len(events_temp_') + 1
    BY <1>1 DEF Types, Control, OpenFile, temp
<1>8. Control'
    BY <1>4, <1>6, <1>7 DEF Control
<1> QED
    BY <1>3, <1>4, <1>5, <1>6, <1>8 DEF Types, TypeInv

(* Parsing the next buffer keeps them, and there is one.                   *)
LEMMA NextBufferTypes ==
    ASSUME Types, NextBuffer
    PROVE  /\ Types'
           /\ files_[it_file_] \in Seq(Seq(Event)) /\ buffer \in 1 .. Len(files_[it_file_])
           /\ reader_
<1>1. reader_ /\ CursorType /\ pc = "buffer" /\ it = 1
    BY DEF Types, Control, TypeInv, NextBuffer
<1>2. files_[it_file_] \in Seq(Seq(Event)) /\ buffer \in 1 .. Len(files_[it_file_])
    BY <1>1 DEF CursorType, NextBuffer
<1>3. files_[it_file_][buffer] \in Seq(Event)
    BY <1>2
<1>4. CursorType'
    <2>1. /\ files_' = files_ /\ it_file_' = it_file_ /\ reader_' = reader_
          /\ buffer' \in 1 .. Len(files_[it_file_]) + 1
        BY <1>2 DEF NextBuffer, log
    <2>. QED
        BY <1>1, <2>1 DEF CursorType
<1>5. BatchType'
    BY <1>3 DEF Types, TypeInv, BatchType, NextBuffer, batch
<1>6. RequestType' /\ Requests'
    BY DEF Types, TypeInv, RequestType, Requests, NextBuffer, request
<1>7. pc' = "take" /\ reader_' = reader_ /\ it' = it
    BY DEF NextBuffer, batch
<1>8. Control'
    BY <1>1, <1>7 DEF Control
<1> QED
    BY <1>1, <1>2, <1>4, <1>5, <1>6, <1>7, <1>8 DEF Types, TypeInv

(* Closing a file keeps them, and nothing is left of it.                   *)
LEMMA CloseFileTypes ==
    ASSUME Types, CloseFile
    PROVE  Types' /\ reader_ /\ buffer = Len(files_[it_file_]) + 1
<1>1. reader_ /\ CursorType /\ pc = "buffer" /\ it = 1 /\ it_event_temp_ = Len(events_temp_) + 1
    BY DEF Types, Control, TypeInv, CloseFile
<1>2. files_[it_file_] \in Seq(Seq(Event)) /\ it_file_ \in 1 .. Len(files_)
    BY <1>1 DEF CursorType
<1>3. buffer = Len(files_[it_file_]) + 1
    BY <1>1, <1>2 DEF CursorType, CloseFile
<1>4. CursorType'
    <2>1. files_' = files_ /\ it_file_' = it_file_ + 1 /\ reader_' = FALSE
        BY DEF CloseFile, log
    <2>2. it_file_' \in 1 .. Len(files_') + 1
        BY <1>2, <2>1
    <2>3. reader_' \in BOOLEAN /\ ~reader_'
        BY <2>1
    <2>. QED
        BY <1>1, <2>1, <2>2, <2>3, Zenon DEF CursorType
<1>5. BatchType' /\ it' = it /\ it_event_temp_' = Len(events_temp_') + 1
    BY <1>1 DEF Types, TypeInv, BatchType, CloseFile, temp, batch
<1>6. RequestType' /\ Requests'
    BY DEF Types, TypeInv, RequestType, Requests, CloseFile, request
<1>7. Control' /\ pc' = "files"
    BY <1>1, <1>5 DEF Control, CloseFile
<1> QED
    BY <1>1, <1>3, <1>4, <1>5, <1>6, <1>7 DEF Types, TypeInv

(* Every step of ReadNext keeps them.                                      *)
LEMMA ReadNextTypes ==
    ASSUME Types, ReadNext
    PROVE  Types'
<1>1. CASE (pc = "next" /\ Take("next")) \/ (pc = "take" /\ Take("take"))
    BY <1>1, TakeTypes
<1>2. CASE /\ Go("next", "files") /\ it_event_temp_ > Len(events_temp_)
           /\ UNCHANGED <<log, cursor, batch, request>>
    <2>1. it_event_temp_ = Len(events_temp_) + 1
        BY <1>2 DEF Types, TypeInv, BatchType
    <2> QED
        BY <1>2, <2>1, TestTypes DEF Go
<1>3. CASE /\ Go("take", "buffer") /\ it_event_temp_ > Len(events_temp_)
           /\ UNCHANGED <<log, cursor, batch, request>>
    <2>1. it_event_temp_ = Len(events_temp_) + 1 /\ reader_
        BY <1>3 DEF Types, TypeInv, BatchType, Control, Go
    <2> QED
        BY <1>3, <2>1, TestTypes DEF Go
<1>4. CASE EndOfFiles
    <2>1. it_file_ = Len(files_) + 1 /\ it_event_temp_ = Len(events_temp_) + 1
        BY <1>4 DEF Types, TypeInv, CursorType, Control, EndOfFiles
    <2> QED
        BY <1>4, <2>1, TestTypes DEF EndOfFiles
<1>5. CASE OpenFile \/ NextBuffer \/ CloseFile
    BY <1>5, OpenFileTypes, NextBufferTypes, CloseFileTypes
<1> QED
    BY <1>1, <1>2, <1>3, <1>4, <1>5, Zenon DEF ReadNext, TakeLeft, TakeParsed

\* What Use does with the next event of the batch.
LEMMA UseFacts ==
    ASSUME Types, Use
    PROVE  LET e == events_[it]
               gathered == dbmssql \o One(e)
           IN  /\ e \in Event /\ One(e) \in Seq(Event) /\ gathered \in Seq(Event)
               /\ \/ /\ Len(gathered) = MaxRows
                     /\ sent' = Append(sent, gathered) /\ dbmssql' = <<>> /\ rows' = 0
                  \/ /\ Len(gathered) < MaxRows
                     /\ sent' = sent /\ dbmssql' = gathered /\ rows' = Len(gathered)
<1> DEFINE e == events_[it]
           gathered == dbmssql \o One(e)
<1>1. e \in Event
    BY DEF Types, TypeInv, BatchType, Use
<1>2. DBMSSQL(<<e>>) = One(e) /\ One(e) \in Seq(Event) /\ Len(One(e)) \in {0, 1}
    BY <1>1, DBMSSQLOne
<1>3. rows = Len(dbmssql) /\ rows < MaxRows /\ rows \in Nat /\ MaxRows \in Nat
    BY LimitAssumption DEF Types, Requests, Use, TypeInv, RequestType
<1>4. dbmssql \in Seq(Event)
    BY DEF Types, TypeInv, RequestType
<1>5. gathered \in Seq(Event) /\ Len(gathered) = Len(dbmssql) + Len(One(e))
    BY <1>2, <1>4, ConcatProperties
<1>6. IF rows + Len(One(e)) = MaxRows
      THEN sent' = Append(sent, gathered) /\ dbmssql' = <<>> /\ rows' = 0
      ELSE /\ dbmssql' = gathered /\ rows' = rows + Len(One(e))
           /\ sent' = sent
    BY <1>2 DEF Use
<1>. HIDE DEF e, gathered
<1>7. CASE Len(gathered) = MaxRows
    <2>1. rows + Len(One(e)) = MaxRows
        BY <1>2, <1>3, <1>5, <1>7
    <2>. QED
        BY <1>1, <1>2, <1>5, <1>6, <1>7, <2>1 DEF e, gathered
<1>8. CASE Len(gathered) # MaxRows
    <2>1. rows + Len(One(e)) # MaxRows /\ Len(gathered) < MaxRows /\ rows + Len(One(e)) = Len(gathered)
        <3>1. Len(dbmssql) \in Nat
            BY <1>3
        <3>2. CASE Len(One(e)) = 0
            BY <1>3, <1>5, <1>8, <3>1, <3>2
        <3>3. CASE Len(One(e)) = 1
            BY <1>3, <1>5, <1>8, <3>1, <3>3
        <3>. QED
            BY <1>2, <3>2, <3>3
    <2>. QED
        BY <1>1, <1>2, <1>5, <1>6, <1>8, <2>1 DEF e, gathered
<1> QED
    BY <1>7, <1>8

(* Every step of LoadStressTest keeps them.                                *)
LEMMA LoadTypes ==
    ASSUME Types, LoadStressTest
    PROVE  Types'
<1>1. CASE Use
    <2> DEFINE gathered == dbmssql \o One(events_[it])
    <2>1. /\ gathered \in Seq(Event)
          /\ \/ /\ Len(gathered) = MaxRows
                /\ sent' = Append(sent, gathered) /\ dbmssql' = <<>> /\ rows' = 0
             \/ /\ Len(gathered) < MaxRows
                /\ sent' = sent /\ dbmssql' = gathered /\ rows' = Len(gathered)
        BY <1>1, UseFacts
    <2> HIDE DEF gathered
    <2>2. /\ pc = "use" /\ it \in 1 .. Len(events_) /\ it' = it + 1
          /\ UNCHANGED <<files_, wanted, pc, it_file_, reader_, buffer, events_temp_, it_event_temp_, events_>>
        BY <1>1 DEF Use, Types, TypeInv, BatchType, log, cursor, temp
    <2>3. sent \in Seq(Seq(Event)) /\ \A i \in 1 .. Len(sent) : Len(sent[i]) = MaxRows
        BY <2>2 DEF Types, TypeInv, RequestType, Requests
    <2>4. RequestType'
        <3>1. Append(sent, gathered) \in Seq(Seq(Event))
            BY <2>1, <2>3, AppendProperties
        <3>2. dbmssql' \in Seq(Event) /\ rows' \in Nat
            <4>1. Len(gathered) \in Nat /\ <<>> \in Seq(Event) /\ 0 \in Nat
                BY <2>1
            <4>. QED
                BY <2>1, <4>1, Zenon
        <3>3. sent' \in Seq(Seq(Event))
            BY <2>1, <2>3, <3>1
        <3>. QED
            BY <3>2, <3>3 DEF RequestType
    <2>5. rows' = Len(dbmssql') /\ rows' < MaxRows
        BY <2>1, LimitAssumption
    <2>6. \A i \in 1 .. Len(sent') : Len(sent'[i]) = MaxRows
        <3>1. /\ Len(Append(sent, gathered)) = Len(sent) + 1
              /\ \A i \in 1 .. Len(sent) : Append(sent, gathered)[i] = sent[i]
              /\ Append(sent, gathered)[Len(sent) + 1] = gathered
            BY <2>1, <2>3, AppendProperties
        <3>2. Len(sent) \in Nat
            BY <2>3
        <3>3. CASE sent' = Append(sent, gathered) /\ Len(gathered) = MaxRows
            <4>1. \A i \in 1 .. Len(sent) + 1 : i \in 1 .. Len(sent) \/ i = Len(sent) + 1
                BY <3>2
            <4>. QED
                BY <2>3, <3>1, <3>3, <4>1, Zenon
        <3>4. CASE sent' = sent
            BY <2>3, <3>4
        <3>. QED
            BY <2>1, <3>3, <3>4
    <2>7. Requests'
        <3>1. DOMAIN sent' = 1 .. Len(sent')
            BY <2>4 DEF RequestType
        <3>. QED
            BY <2>5, <2>6, <3>1 DEF Requests
    <2>8. CursorType' /\ BatchType' /\ Control'
        BY <2>2 DEF Types, TypeInv, CursorType, BatchType, Control
    <2> QED
        BY <2>2, <2>4, <2>7, <2>8 DEF Types, TypeInv
<1>2. CASE ClearEvents
    <2>1. CursorType' /\ BatchType' /\ RequestType'
        BY <1>2 DEF Types, TypeInv, CursorType, BatchType, RequestType, ClearEvents, log, cursor, temp, request
    <2>2. Control' /\ Requests' /\ pc' = "next"
        BY <1>2 DEF Types, Control, Requests, ClearEvents, Go, log, cursor, temp, request
    <2> QED
        BY <2>1, <2>2 DEF Types, TypeInv
<1>3. CASE SendRest
    <2>1. CursorType' /\ BatchType'
        BY <1>3 DEF Types, TypeInv, CursorType, BatchType, SendRest, log, cursor, temp, batch
    <2>2. RequestType'
        <3>1. dbmssql \in Seq(Event) /\ sent \in Seq(Seq(Event)) /\ rows \in Nat
            BY DEF Types, TypeInv, RequestType
        <3>2. Append(sent, dbmssql) \in Seq(Seq(Event))
            BY <3>1, AppendProperties
        <3>3. rows' = rows /\ dbmssql' \in Seq(Event) /\ sent' \in Seq(Seq(Event))
            <4>1. <<>> \in Seq(Event)
                OBVIOUS
            <4>2. /\ rows' = rows
                  /\ \/ sent' = Append(sent, dbmssql) /\ dbmssql' = <<>>
                     \/ sent' = sent /\ dbmssql' = dbmssql
                BY <1>3 DEF SendRest
            <4>. QED
                BY <3>1, <3>2, <4>1, <4>2, Zenon
        <3>. QED
            BY <3>1, <3>3 DEF RequestType
    <2>3. Control' /\ Requests' /\ pc' = "done"
        BY <1>3 DEF Types, Control, Requests, SendRest, Go, log, cursor, temp, batch
    <2> QED
        BY <2>1, <2>2, <2>3 DEF Types, TypeInv
<1> QED
    BY <1>1, <1>2, <1>3 DEF LoadStressTest

(* Every step keeps them.                                                  *)
LEMMA TypesStep == Types /\ [Next]_vars => Types'
<1>. SUFFICES ASSUME Types, [Next]_vars PROVE Types'
    OBVIOUS
<1>1. CASE UNCHANGED vars
    <2>1. UNCHANGED <<files_, pc, it_file_, reader_, buffer, events_temp_, it_event_temp_, events_, it,
                      rows, dbmssql, sent>>
        BY <1>1 DEF vars, log, cursor, temp, batch, request
    <2>. QED
        BY <2>1 DEF Types, TypeInv, CursorType, BatchType, RequestType, Control, Requests
<1> QED
    BY <1>1, ReadNextTypes, LoadTypes DEF Next

-----------------------------------------------------------------------------
(* Reading moves the events ahead from one place to the next.              *)

(* All that is ahead are events.                                           *)
LEMMA AheadType ==
    ASSUME Types
    PROVE  /\ Rest(events_, it) \in Seq(Event)
           /\ Rest(events_temp_, it_event_temp_) \in Seq(Event)
           /\ Unread \in Seq(Event)
           /\ Ahead \in Seq(Event)
<1>1. /\ events_ \in Seq(Event) /\ it \in 1 .. Len(events_) + 1
      /\ events_temp_ \in Seq(Event) /\ it_event_temp_ \in 1 .. Len(events_temp_) + 1
    BY DEF Types, TypeInv, BatchType
<1>2. Rest(events_, it) \in Seq(Event) /\ Rest(events_temp_, it_event_temp_) \in Seq(Event)
    BY <1>1, RestFacts
<1>3. Unread \in Seq(Event)
    BY UnreadFacts DEF Types, UnreadIs
<1>4. Rest(events_, it) \o Rest(events_temp_, it_event_temp_) \in Seq(Event)
    BY <1>2, ConcatProperties
<1>5. Ahead \in Seq(Event)
    BY <1>3, <1>4, ConcatProperties DEF Ahead
<1> QED
    BY <1>2, <1>3, <1>5

(* Taking an event moves it from the last buffer to the batch.             *)
LEMMA TakeKeeps ==
    ASSUME Types, NEW next \in {"next", "take"}, pc = next, Take(next)
    PROVE  Ahead' = Ahead
<1> DEFINE x == events_temp_[it_event_temp_]
           a == Rest(events_, it)
           b == Rest(events_temp_, it_event_temp_ + 1)
<1>1. /\ events_ \in Seq(Event) /\ it \in 1 .. Len(events_) + 1
      /\ events_temp_ \in Seq(Event) /\ it_event_temp_ \in 1 .. Len(events_temp_)
    BY DEF Types, TypeInv, BatchType, Take
<1>2. x \in Event
    BY <1>1
<1>3. Rest(events_temp_, it_event_temp_) = <<x>> \o b /\ Rest(Append(events_, x), it) = a \o <<x>>
    <2>1. it \in 1 .. Len(events_) + 1 /\ events_ \in Seq(Event)
        BY <1>1
    <2>2. Rest(Append(events_, x), it) = Rest(events_, it) \o <<x>>
        BY <2>1, <1>2, RestAppend
    <2>3. Rest(events_temp_, it_event_temp_) = <<x>> \o b
        BY <1>1, RestFacts, Zenon
    <2>. QED
        BY <2>2, <2>3
<1>4. a \in Seq(Event) /\ b \in Seq(Event) /\ <<x>> \in Seq(Event)
    <2>1. it_event_temp_ + 1 \in 1 .. Len(events_temp_) + 1
        BY <1>1
    <2>. QED
        BY <1>1, <1>2, <2>1, RestFacts
<1>5. Unread' = Unread
    BY DEF Unread, Events, Rest, Take, log
<1>6. /\ events_' = Append(events_, x) /\ it' = it
      /\ events_temp_' = events_temp_ /\ it_event_temp_' = it_event_temp_ + 1
    BY DEF Take
<1>7. Rest(events_, it)' = a \o <<x>> /\ Rest(events_temp_, it_event_temp_)' = b
    BY <1>3, <1>6 DEF Rest
<1>8. Ahead' = (a \o <<x>>) \o b \o Unread
    BY <1>5, <1>7 DEF Ahead
<1>9. Ahead = a \o (<<x>> \o b) \o Unread
    BY <1>3 DEF Ahead
<1>. HIDE DEF a, b, x
<1>10. (a \o <<x>>) \o b = a \o (<<x>> \o b)
    BY <1>4, ConcatAssociative
<1> QED
    BY <1>8, <1>9, <1>10

(* Opening a file reads nothing, and it is opened at its beginning.        *)
LEMMA OpenFileKeeps ==
    ASSUME Types, OpenFile
    PROVE  Unread' = Unread
<1>1. UnreadIs /\ UnreadIs'
    BY UnreadFacts, UnreadAfter, OpenFileTypes DEF Types
<1>2. it_file_ \in 1 .. Len(files_) /\ Len(files_) \in Nat /\ TypeInv
    BY DEF Types, TypeInv, CursorType, OpenFile
<1>3. files_' = files_ /\ it_file_' = it_file_
    BY DEF OpenFile, log
<1>4. CASE reader_' = reader_ /\ buffer' = buffer
    BY <1>3, <1>4 DEF Unread, Events
<1>5. CASE ~reader_ /\ reader_' = TRUE /\ buffer' = 1
    <2>1. Unread = Later(it_file_ - 1)
        BY <1>1, <1>5 DEF UnreadIs
    <2>2. Later(it_file_ - 1) = Events(it_file_) \o Later(it_file_)
        <3>1. /\ it_file_ - 1 \in 0 .. Len(files_) /\ it_file_ - 1 # Len(files_)
              /\ (it_file_ - 1) + 1 = it_file_
            BY <1>2
        <3>2. Later(it_file_ - 1) = Events((it_file_ - 1) + 1) \o Later((it_file_ - 1) + 1)
            BY <1>2, <3>1, LaterUnfold
        <3>. QED
            BY <3>1, <3>2
    <2>3. Unread' = FlattenSeq(Rest(files_[it_file_], 1)) \o Later(it_file_)
        BY <1>1, <1>3, <1>5 DEF UnreadIs, Later, Events, Rest
    <2>4. files_[it_file_] \in Seq(Seq(Event))
        BY <1>2, EventsType
    <2>5. Rest(files_[it_file_], 1) = files_[it_file_]
        BY <2>4, RestFacts
    <2> QED
        BY <2>1, <2>2, <2>3, <2>5 DEF Events
<1> QED
    BY <1>4, <1>5 DEF OpenFile

(* The buffer that is parsed was the next of what is unread.               *)
LEMMA NextBufferKeeps ==
    ASSUME Types, NextBuffer
    PROVE  Unread = files_[it_file_][buffer] \o Unread' /\ Unread' \in Seq(Event)
<1> DEFINE file == files_[it_file_]
           b == Rest(file, buffer + 1)
<1>1. /\ UnreadIs /\ UnreadIs' /\ reader_
      /\ file \in Seq(Seq(Event)) /\ buffer \in 1 .. Len(file)
    BY UnreadFacts, UnreadAfter, NextBufferTypes DEF Types
<1>2. it_file_ \in 0 .. Len(files_) /\ TypeInv
    BY <1>1 DEF Types, TypeInv, CursorType
<1>3. /\ Rest(file, buffer) = <<file[buffer]>> \o b
      /\ b \in Seq(Seq(Event)) /\ file[buffer] \in Seq(Event) /\ <<file[buffer]>> \in Seq(Seq(Event))
    <2>1. buffer + 1 \in 1 .. Len(file) + 1 /\ file[buffer] \in Seq(Event)
        BY <1>1
    <2>2. Rest(file, buffer) = <<file[buffer]>> \o b /\ b \in Seq(Seq(Event))
        BY <1>1, <2>1, RestFacts
    <2>. QED
        BY <2>1, <2>2
<1>4. Unread = FlattenSeq(Rest(file, buffer)) \o Later(it_file_)
    BY <1>1 DEF UnreadIs
<1>5. Unread' = FlattenSeq(b) \o Later(it_file_)
    BY <1>1 DEF UnreadIs, Later, Events, Rest, NextBuffer, log
<1>6. Later(it_file_) \in Seq(Event)
    BY <1>2, LaterType
<1>. HIDE DEF file, b
<1>7. FlattenSeq(Rest(file, buffer)) = file[buffer] \o FlattenSeq(b)
    <2>1. FlattenSeq(<<file[buffer]>> \o b) = FlattenSeq(<<file[buffer]>>) \o FlattenSeq(b)
        BY <1>3, FlattenConcat, Zenon
    <2>2. FlattenSeq(<<file[buffer]>>) = file[buffer]
        BY <1>3, FlattenOne, Zenon
    <2>. QED
        BY <1>3, <2>1, <2>2, Zenon
<1>8. FlattenSeq(b) \in Seq(Event)
    BY <1>3, FlattenType
<1>9. Unread = file[buffer] \o (FlattenSeq(b) \o Later(it_file_))
    <2>1. (file[buffer] \o FlattenSeq(b)) \o Later(it_file_)
              = file[buffer] \o (FlattenSeq(b) \o Later(it_file_))
        <3> DEFINE x == file[buffer]
        <3>1. x \in Seq(Event)
            BY <1>3
        <3>. HIDE DEF x
        <3>2. (x \o FlattenSeq(b)) \o Later(it_file_) = x \o (FlattenSeq(b) \o Later(it_file_))
            BY <3>1, <1>6, <1>8, ConcatAssociative
        <3>. QED
            BY <3>2 DEF x
    <2>. QED
        BY <1>4, <1>7, <2>1, Zenon
<1> QED
    BY <1>1, <1>5, <1>9 DEF file, UnreadIs

(* A file is closed when nothing of it is unread.                          *)
LEMMA CloseFileKeeps ==
    ASSUME Types, CloseFile
    PROVE  Unread' = Unread
<1>1. /\ UnreadIs /\ UnreadIs' /\ reader_ /\ buffer = Len(files_[it_file_]) + 1
    BY UnreadFacts, UnreadAfter, CloseFileTypes DEF Types
<1>2. it_file_ \in 1 .. Len(files_) /\ TypeInv
    BY <1>1 DEF Types, TypeInv, CursorType
<1>3. files_[it_file_] \in Seq(Seq(Event)) /\ Later(it_file_) \in Seq(Event)
    BY <1>2, EventsType, LaterType
<1>4. Rest(files_[it_file_], buffer) = <<>>
    BY <1>1, <1>3, RestFacts
<1>5. Unread = <<>> \o Later(it_file_)
    BY <1>1, <1>4, FlattenEmpty DEF UnreadIs
<1>6. ~reader_' /\ it_file_' - 1 = it_file_ /\ files_' = files_
    BY <1>2 DEF CloseFile, log
<1>7. Unread' = Later(it_file_)
    BY <1>1, <1>6 DEF UnreadIs, Later, Events
<1> QED
    BY <1>3, <1>5, <1>7, ConcatEmptySeq

(* No step of ReadNext loses an event, repeats one or changes their order. *)
LEMMA ReadNextKeeps ==
    ASSUME Types, ReadNext
    PROVE  Ahead' = Ahead
<1>1. CASE (pc = "next" /\ Take("next")) \/ (pc = "take" /\ Take("take"))
    BY <1>1, TakeKeeps
<1>2. CASE UNCHANGED <<log, cursor, batch, request>>
    BY <1>2 DEF Ahead, Unread, Events, Rest, log, cursor, temp, batch
<1>3. CASE OpenFile
    <2>1. UNCHANGED <<events_, it, events_temp_, it_event_temp_>>
        BY <1>3 DEF OpenFile, temp, batch
    <2> QED
        BY <1>3, <2>1, OpenFileKeeps DEF Ahead, Rest
<1>4. CASE CloseFile
    <2>1. UNCHANGED <<events_, it, events_temp_, it_event_temp_>>
        BY <1>4 DEF CloseFile, temp, batch
    <2> QED
        BY <1>4, <2>1, CloseFileKeeps DEF Ahead, Rest
<1>5. CASE NextBuffer
    <2> DEFINE new == files_[it_file_][buffer]
               a == Rest(events_, it)
    <2>1. new \in Seq(Event)
        BY <1>5, NextBufferTypes
    <2>2. /\ Unread = new \o Unread' /\ Unread' \in Seq(Event)
        BY <1>5, NextBufferKeeps
    <2>3. /\ events_temp_ \in Seq(Event) /\ it_event_temp_ = Len(events_temp_) + 1
        BY <1>5 DEF Types, TypeInv, BatchType, Control, NextBuffer
    <2>4. Rest(events_temp_, it_event_temp_) = <<>> /\ Rest(new, 1) = new
        BY <2>1, <2>3, RestFacts
    <2>5. Rest(events_temp_, it_event_temp_)' = new /\ Rest(events_, it)' = a
        BY <1>5, <2>4 DEF NextBuffer, batch, Rest
    <2>6. a \in Seq(Event)
        BY AheadType
    <2>7. Ahead = a \o <<>> \o (new \o Unread') /\ Ahead' = a \o new \o Unread'
        BY <2>2, <2>4, <2>5 DEF Ahead
    <2>. HIDE DEF new, a
    <2> QED
        BY <2>1, <2>2, <2>6, <2>7, ConcatAssociative, ConcatEmptySeq, SMTT(20)
<1> QED
    BY <1>1, <1>2, <1>3, <1>4, <1>5 DEF ReadNext, TakeLeft, TakeParsed, EndOfFiles

(* After the last file nothing is ahead.                                   *)
LEMMA NothingAhead ==
    ASSUME Types, pc \in {"rest", "done"}
    PROVE  Ahead = <<>>
<1>1. /\ it_file_ = Len(files_) + 1 /\ events_ = <<>> /\ it = 1
      /\ events_temp_ \in Seq(Event) /\ it_event_temp_ = Len(events_temp_) + 1
    BY DEF Types, TypeInv, BatchType, Control
<1>2. Len(files_) \in Nat
    BY DEF Types, TypeInv, CursorType
<1>3. Unread = <<>>
    BY <1>1, <1>2 DEF Unread
<1>4. Rest(events_temp_, it_event_temp_) = <<>>
    BY <1>1, RestFacts
<1>5. Rest(events_, it) = <<>>
    BY <1>1 DEF Rest
<1>6. Ahead = <<>> \o <<>> \o <<>>
    BY <1>3, <1>4, <1>5 DEF Ahead
<1> QED
    BY <1>6

-----------------------------------------------------------------------------
(* Every event is in one place, and at the end it has been sent.           *)

(* Gathering an event, and sending a full request, keeps every event once. *)
LEMMA UseKeeps ==
    ASSUME Types, EveryEventOnce, Use
    PROVE  EveryEventOnce'
<1> DEFINE e == events_[it]
           g == dbmssql \o One(e)
           F == FlattenSeq(sent)
           ahead == Rest(events_, it + 1) \o Rest(events_temp_, it_event_temp_) \o Unread
<1>1. /\ One(e) \in Seq(Event) /\ e \in Event
      /\ \/ sent' = Append(sent, g) /\ dbmssql' = <<>>
         \/ sent' = sent /\ dbmssql' = g
    BY UseFacts
<1>2. dbmssql \in Seq(Event) /\ sent \in Seq(Seq(Event)) /\ F \in Seq(Event) /\ g \in Seq(Event)
    <2>1. dbmssql \in Seq(Event) /\ sent \in Seq(Seq(Event))
        BY DEF Types, TypeInv, RequestType
    <2>. QED
        BY <1>1, <2>1, FlattenType, ConcatProperties
<1>3. Ahead = <<e>> \o ahead /\ ahead \in Seq(Event)
    <2> DEFINE r == Rest(events_, it + 1)
               t == Rest(events_temp_, it_event_temp_)
    <2>1. events_ \in Seq(Event) /\ it \in 1 .. Len(events_) /\ it + 1 \in 1 .. Len(events_) + 1
        BY DEF Types, TypeInv, BatchType, Use
    <2>2. Rest(events_, it) = <<e>> \o r /\ r \in Seq(Event)
        BY <2>1, RestFacts
    <2>3. t \in Seq(Event) /\ Unread \in Seq(Event) /\ <<e>> \in Seq(Event)
        BY <1>1, AheadType
    <2>4. Ahead = (<<e>> \o r) \o t \o Unread
        BY <2>2 DEF Ahead
    <2>. HIDE DEF e, r, t
    <2>5. r \o t \in Seq(Event) /\ (r \o t) \o Unread \in Seq(Event)
        BY <2>2, <2>3, ConcatProperties
    <2>6. (<<e>> \o r) \o t = <<e>> \o (r \o t)
        BY <2>2, <2>3, ConcatAssociative
    <2>7. (<<e>> \o (r \o t)) \o Unread = <<e>> \o ((r \o t) \o Unread)
        BY <2>3, <2>5, ConcatAssociative
    <2>8. Ahead = <<e>> \o ((r \o t) \o Unread)
        BY <2>4, <2>6, <2>7, Zenon
    <2>. QED
        BY <2>5, <2>8 DEF r, t
<1>4. Ahead' = ahead
    <2>1. UNCHANGED <<files_, it_file_, reader_, buffer, events_, events_temp_, it_event_temp_>>
        BY DEF Use, log, cursor, temp
    <2>2. it' = it + 1
        BY DEF Use
    <2>. QED
        BY <2>1, <2>2 DEF Ahead, Unread, Events, Rest
<1>5. wanted = (F \o dbmssql) \o DBMSSQL(Ahead) /\ wanted' = wanted
    BY DEF EveryEventOnce, Ahead, Use, log
<1>6. DBMSSQL(Ahead) = One(e) \o DBMSSQL(ahead) /\ DBMSSQL(ahead) \in Seq(Event)
    <2>1. <<e>> \in Seq(Event)
        BY <1>1
    <2>2. DBMSSQL(<<e>>) = One(e)
        BY <1>1, DBMSSQLOne
    <2>3. DBMSSQL(<<e>> \o ahead) = DBMSSQL(<<e>>) \o DBMSSQL(ahead)
        BY <1>3, <2>1, DBMSSQLConcat, Zenon
    <2>4. DBMSSQL(ahead) \in Seq(Event)
        BY <1>3, DBMSSQLType, Zenon
    <2>. QED
        BY <1>3, <2>2, <2>3, <2>4, Zenon
<1>. HIDE DEF e, F, ahead
<1>7. F \o dbmssql \in Seq(Event)
    BY <1>2, ConcatProperties
<1>8. wanted = ((F \o dbmssql) \o One(e)) \o DBMSSQL(ahead)
    <2>1. One(e) \in Seq(Event) /\ DBMSSQL(ahead) \in Seq(Event)
        BY <1>1, <1>6
    <2>2. \A x, y, z \in Seq(Event) : (x \o y) \o z = x \o (y \o z)
        BY ConcatAssociative
    <2>3. ((F \o dbmssql) \o One(e)) \o DBMSSQL(ahead) = (F \o dbmssql) \o (One(e) \o DBMSSQL(ahead))
        BY <1>7, <2>1, <2>2, Zenon
    <2>. QED
        BY <1>5, <1>6, <2>3, Zenon
<1>9. (F \o dbmssql) \o One(e) = F \o g
    <2>1. \A x, y, z \in Seq(Event) : (x \o y) \o z = x \o (y \o z)
        BY ConcatAssociative
    <2>. QED
        BY <1>1, <1>2, <2>1, Zenon
<1>10. wanted = (F \o g) \o DBMSSQL(ahead) /\ F \o g \in Seq(Event)
    <2>1. F \o g \in Seq(Event)
        BY <1>2, ConcatProperties, Zenon
    <2>. QED
        BY <1>8, <1>9, <2>1, Zenon
<1>. HIDE DEF g
<1>11. FlattenSeq(sent') \o dbmssql' = F \o g
    <2>1. CASE sent' = Append(sent, g) /\ dbmssql' = <<>>
        <3>1. FlattenSeq(Append(sent, g)) = F \o g
            BY <1>2, FlattenAppend, Zenon DEF F
        <3>2. (F \o g) \o <<>> = F \o g
            BY <1>10, ConcatEmptySeq, Zenon
        <3>. QED
            BY <2>1, <3>1, <3>2, Zenon
    <2>2. CASE sent' = sent /\ dbmssql' = g
        BY <2>2 DEF F
    <2>. QED
        BY <1>1, <2>1, <2>2
<1>12. wanted' = (FlattenSeq(sent') \o dbmssql') \o DBMSSQL(Ahead')
    BY <1>4, <1>5, <1>10, <1>11, Zenon
<1> QED
    BY <1>12 DEF EveryEventOnce, Ahead

(* Sending the rest sends all that was not.                                *)
LEMMA SendRestKeeps ==
    ASSUME Types, EveryEventOnce, SendRest
    PROVE  EveryEventOnce' /\ DoneMeansSent'
<1>1. /\ dbmssql \in Seq(Event) /\ sent \in Seq(Seq(Event))
      /\ rows = Len(dbmssql) /\ rows < MaxRows /\ \A i \in DOMAIN sent : Len(sent[i]) = MaxRows
    BY DEF Types, TypeInv, RequestType, Requests, SendRest, Go
<1>2. Ahead = <<>> /\ Ahead' = <<>>
    <2>1. Ahead = <<>>
        BY NothingAhead DEF SendRest, Go
    <2>2. Ahead' = Ahead
        BY DEF SendRest, Ahead, Unread, Events, Rest, log, cursor, temp, batch
    <2>. QED
        BY <2>1, <2>2
<1>3. wanted = FlattenSeq(sent) \o dbmssql
    <2>1. wanted = (FlattenSeq(sent) \o dbmssql) \o DBMSSQL(<<>>)
        BY <1>2 DEF EveryEventOnce, Ahead
    <2>2. FlattenSeq(sent) \in Seq(Event)
        BY <1>1, FlattenType
    <2>3. FlattenSeq(sent) \o dbmssql \in Seq(Event)
        BY <1>1, <2>2, ConcatProperties
    <2>. QED
        BY <2>1, <2>3, DBMSSQLEmpty, ConcatEmptySeq
<1>4. wanted' = wanted /\ wanted \in Seq(Event)
    <2>1. FlattenSeq(sent) \in Seq(Event)
        BY <1>1, FlattenType
    <2>. QED
        BY <1>1, <1>3, <2>1, ConcatProperties DEF SendRest, log
<1>5. dbmssql' = <<>> /\ FlattenSeq(sent') = wanted
    <2>1. CASE rows # 0
        BY <1>1, <1>3, <2>1, FlattenAppend DEF SendRest
    <2>2. CASE rows = 0
        <3>1. dbmssql = <<>> /\ sent' = sent /\ dbmssql' = dbmssql
            <4>1. dbmssql = <<>>
                BY <1>1, <2>2, EmptySeq
            <4>. QED
                BY <2>2, <4>1 DEF SendRest
        <3>2. FlattenSeq(sent) \in Seq(Event)
            BY <1>1, FlattenType
        <3>. QED
            BY <1>3, <3>1, <3>2, ConcatEmptySeq
    <2>. QED
        BY <2>1, <2>2
<1>6. EveryEventOnce'
    <2>1. wanted' = (FlattenSeq(sent') \o dbmssql') \o DBMSSQL(Ahead')
        BY <1>2, <1>4, <1>5, DBMSSQLEmpty, ConcatEmptySeq
    <2>. QED
        BY <2>1 DEF EveryEventOnce, Ahead
<1>7. ASSUME NEW i \in DOMAIN sent'
      PROVE  IF i < Len(sent') THEN Len(sent'[i]) = MaxRows ELSE Len(sent'[i]) \in 1 .. MaxRows
    <2>1. Len(dbmssql) \in Nat /\ DOMAIN sent = 1 .. Len(sent) /\ MaxRows \in Nat \ {0}
        BY <1>1, LimitAssumption
    <2>2. CASE rows # 0
        <3>1. sent' = Append(sent, dbmssql)
            BY <2>2 DEF SendRest
        <3>2. /\ DOMAIN sent' = 1 .. Len(sent) + 1 /\ Len(sent') = Len(sent) + 1
              /\ sent'[Len(sent) + 1] = dbmssql
              /\ \A j \in 1 .. Len(sent) : sent'[j] = sent[j]
            BY <1>1, <3>1
        <3>3. CASE i = Len(sent) + 1
            BY <1>1, <2>1, <2>2, <3>2, <3>3
        <3>4. CASE i \in 1 .. Len(sent)
            BY <1>1, <2>1, <3>2, <3>4
        <3>. QED
            BY <3>2, <3>3, <3>4
    <2>3. CASE rows = 0
        <3>1. sent' = sent
            BY <2>3 DEF SendRest
        <3>. QED
            BY <1>1, <2>1, <3>1
    <2>. QED
        BY <2>2, <2>3
<1> QED
    BY <1>4, <1>5, <1>6, <1>7 DEF DoneMeansSent

IInv == Types /\ EveryEventOnce /\ DoneMeansSent

(* Initially every event is unread.                                        *)
LEMMA InitInv == Init => IInv
<1>. SUFFICES ASSUME Init PROVE IInv
    OBVIOUS
<1>1. Types
    BY InitTypes
<1>2. /\ wanted = DBMSSQL(FlattenSeq([f \in DOMAIN files_ |-> FlattenSeq(files_[f])]))
      /\ pc = "next" /\ it_file_ = 1 /\ reader_ = FALSE
      /\ events_temp_ = <<>> /\ it_event_temp_ = 1 /\ events_ = <<>> /\ it = 1
      /\ sent = <<>> /\ dbmssql = <<>>
    BY DEF Init
<1>3. TypeInv /\ UnreadIs
    BY <1>1, UnreadFacts DEF Types
<1>4. Len(files_) \in Nat /\ DOMAIN files_ = 1 .. Len(files_)
    BY <1>3 DEF TypeInv, CursorType
<1>5. Unread = Later(0)
    BY <1>2, <1>3 DEF UnreadIs
<1>6. [f \in DOMAIN files_ |-> FlattenSeq(files_[f])] = [f \in 1 .. (Len(files_) - 0) |-> Events(0 + f)]
    BY <1>4 DEF Events
<1>7. wanted = DBMSSQL(Unread)
    BY <1>2, <1>5, <1>6 DEF Later
<1>8. Rest(events_, it) = <<>> /\ Rest(events_temp_, it_event_temp_) = <<>>
    BY <1>2 DEF Rest
<1>9. Unread \in Seq(Event) /\ DBMSSQL(Unread) \in Seq(Event)
    BY <1>3, DBMSSQLType DEF UnreadIs
<1>10. wanted = (FlattenSeq(sent) \o dbmssql) \o DBMSSQL(<<>> \o <<>> \o Unread)
    <2>1. <<>> \o <<>> \o Unread = Unread
        BY <1>9, ConcatEmptySeq
    <2>2. (FlattenSeq(sent) \o dbmssql) \o DBMSSQL(Unread) = DBMSSQL(Unread)
        BY <1>2, <1>9, FlattenEmpty, ConcatEmptySeq
    <2>. QED
        BY <1>7, <2>1, <2>2
<1> QED
    BY <1>1, <1>2, <1>8, <1>10 DEF IInv, EveryEventOnce, DoneMeansSent

(* Every step keeps the invariant.                                         *)
LEMMA NextInv == IInv /\ [Next]_vars => IInv'
<1>. SUFFICES ASSUME IInv, [Next]_vars PROVE IInv'
    OBVIOUS
<1>1. Types /\ Types' /\ EveryEventOnce /\ DoneMeansSent
    BY TypesStep DEF IInv
<1>2. CASE ReadNext
    <2>1. Ahead' = Ahead
        BY <1>1, <1>2, ReadNextKeeps
    <2>2. /\ UNCHANGED <<wanted, sent, dbmssql>> /\ pc' # "done"
        BY <1>2 DEF ReadNext, TakeLeft, Take, OpenFile, NextBuffer, TakeParsed, CloseFile, EndOfFiles,
                    Go, log, request
    <2>. QED
        BY <1>1, <2>1, <2>2 DEF IInv, EveryEventOnce, DoneMeansSent, Ahead
<1>3. CASE Use
    <2>1. EveryEventOnce'
        BY <1>1, <1>3, UseKeeps
    <2>2. pc' # "done"
        BY <1>3 DEF Use
    <2>. QED
        BY <1>1, <2>1, <2>2 DEF IInv, DoneMeansSent
<1>4. CASE ClearEvents
    <2>1. UNCHANGED <<files_, wanted, it_file_, reader_, buffer, events_temp_, it_event_temp_, sent, dbmssql>>
        BY <1>4 DEF ClearEvents, log, cursor, temp, request
    <2>2. events_ \in Seq(Event) /\ it = Len(events_) + 1 /\ events_' = <<>> /\ it' = 1 /\ pc' = "next"
        BY <1>1, <1>4 DEF Types, TypeInv, BatchType, ClearEvents, Go
    <2>3. Rest(events_, it) = <<>>
        BY <2>2, RestFacts
    <2>4. Rest(events_, it)' = <<>>
        BY <2>2 DEF Rest
    <2>5. Ahead' = Ahead
        BY <2>1, <2>3, <2>4 DEF Ahead, Unread, Events, Rest
    <2>. QED
        BY <1>1, <2>1, <2>2, <2>5 DEF IInv, EveryEventOnce, DoneMeansSent, Ahead
<1>5. CASE SendRest
    BY <1>1, <1>5, SendRestKeeps DEF IInv
<1>6. CASE UNCHANGED vars
    <2>1. UNCHANGED <<files_, wanted, pc, it_file_, reader_, buffer, events_temp_, it_event_temp_, events_, it,
                      rows, dbmssql, sent>>
        BY <1>6 DEF vars, log, cursor, temp, batch, request
    <2>. QED
        BY <1>1, <2>1 DEF IInv, EveryEventOnce, DoneMeansSent, Unread, Events, Rest
<1> QED
    BY <1>2, <1>3, <1>4, <1>5, <1>6 DEF Next, LoadStressTest

(* Wherever batches and requests end, every DBMSSQL event is sent,         *)
(* gathered, in the batch, left of the last buffer or unread: in one of    *)
(* these, once and in order, for any files, any size of a batch and any    *)
(* size of a request.                                                      *)
THEOREM EveryEventOnceHolds == Spec => []EveryEventOnce
<1>1. IInv => EveryEventOnce
    BY DEF IInv
<1> QED
    BY <1>1, InitInv, NextInv, PTL DEF Spec

(* When LoadStressTest is done it has sent every DBMSSQL event in its      *)
(* order, in requests that are full but for the last, and none of them     *)
(* empty.                                                                  *)
THEOREM DoneMeansSentHolds == Spec => []DoneMeansSent
<1>1. IInv => DoneMeansSent
    BY DEF IInv
<1> QED
    BY <1>1, InitInv, NextInv, PTL DEF Spec

-----------------------------------------------------------------------------
(* Packed dates, for all bases: what is packed can be read back.           *)

Part == 0 .. Base - 1
Microsecond == 0 .. Micro - 1

Positive == Nat \ {0}

-----------------------------------------------------------------------------
(* Arithmetic.                                                             *)

LEMMA Product ==
    ASSUME NEW n \in Nat, NEW u \in Positive
    PROVE  n * u \in Nat
  BY SMT DEF Positive

LEMMA Times ==
    ASSUME NEW n \in Int, NEW b \in Int, NEW u \in Nat, n <= b
    PROVE  n * u <= b * u
  BY SMT

\* A digit and less than a unit are less than the next unit.
LEMMA Fits ==
    ASSUME NEW n \in Nat, NEW b \in Nat, n < b, NEW u \in Positive,
           NEW r \in Nat, r < u
    PROVE  n * u + r < b * u /\ n * u + r \in Nat
  <1>1. (n + 1) * u <= b * u
    BY Times DEF Positive
  <1>2. (n + 1) * u = n * u + u
    BY SMT DEF Positive
  <1>. QED BY <1>1, <1>2, Product, SMT DEF Positive

LEMMA Division ==
    ASSUME NEW u \in Positive, NEW q \in Nat, NEW r \in Nat, r < u
    PROVE  (q * u + r) \div u = q /\ (q * u + r) % u = r
  <1>. DEFINE a == q * u + r
              d == a \div u
              m == a % u
  <1>1. q * u \in Nat /\ a \in Nat
    BY Product, SMT DEF Positive
  <1>2. d \in Int /\ m \in Int /\ 0 <= m /\ m < u /\ a = d * u + m
    BY <1>1, SMT DEF Positive
  <1>. HIDE DEF d, m
  <1>3. ASSUME d + 1 <= q PROVE FALSE
    <2>1. (d + 1) * u <= q * u
      BY <1>2, <1>3, Times DEF Positive
    <2>2. (d + 1) * u = d * u + u
      BY <1>2, SMT DEF Positive
    <2>. QED BY <1>1, <1>2, <2>1, <2>2, SMT DEF Positive
  <1>4. ASSUME q + 1 <= d PROVE FALSE
    <2>1. (q + 1) * u <= d * u
      BY <1>2, <1>4, Times DEF Positive
    <2>2. (q + 1) * u = q * u + u
      BY SMT DEF Positive
    <2>. QED BY <1>1, <1>2, <2>1, <2>2, SMT DEF Positive
  <1>5. d = q
    BY <1>2, <1>3, <1>4, SMT
  <1>6. m = r
    BY <1>1, <1>2, <1>5, SMT DEF Positive
  <1>. QED BY <1>5, <1>6 DEF d, m

-----------------------------------------------------------------------------
(* The units.                                                              *)

LEMMA Units ==
    /\ SecondUnit \in Positive /\ MinuteUnit \in Positive /\ HourUnit \in Positive
    /\ DayUnit \in Positive /\ MonthUnit \in Positive /\ YearUnit \in Positive
  <1>1. \A b, u \in Positive : b * u \in Positive
    BY Product, Times, SMT DEF Positive
  <1>. QED BY <1>1, BaseAssumption DEF Positive, SecondUnit, MinuteUnit, HourUnit,
                                       DayUnit, MonthUnit, YearUnit

\* What is left of a moment below a unit.
BelowMinute(sec, mseconds) == sec * SecondUnit + mseconds
BelowHour(min, sec, mseconds) == min * MinuteUnit + BelowMinute(sec, mseconds)
BelowDay(hour, min, sec, mseconds) ==
    hour * HourUnit + BelowHour(min, sec, mseconds)
BelowMonth(day, hour, min, sec, mseconds) ==
    day * DayUnit + BelowDay(hour, min, sec, mseconds)
BelowYear(mon, day, hour, min, sec, mseconds) ==
    mon * MonthUnit + BelowMonth(day, hour, min, sec, mseconds)

LEMMA Below ==
    ASSUME NEW mon \in Part, NEW day \in Part, NEW hour \in Part,
           NEW min \in Part, NEW sec \in Part, NEW mseconds \in Microsecond
    PROVE  /\ mseconds \in Nat /\ mseconds < SecondUnit
           /\ BelowMinute(sec, mseconds) \in Nat
           /\ BelowMinute(sec, mseconds) < MinuteUnit
           /\ BelowHour(min, sec, mseconds) \in Nat
           /\ BelowHour(min, sec, mseconds) < HourUnit
           /\ BelowDay(hour, min, sec, mseconds) \in Nat
           /\ BelowDay(hour, min, sec, mseconds) < DayUnit
           /\ BelowMonth(day, hour, min, sec, mseconds) \in Nat
           /\ BelowMonth(day, hour, min, sec, mseconds) < MonthUnit
           /\ BelowYear(mon, day, hour, min, sec, mseconds) \in Nat
           /\ BelowYear(mon, day, hour, min, sec, mseconds) < YearUnit
  <1>1. Base \in Nat /\ \A n \in Part : n \in Nat /\ n < Base
    BY BaseAssumption, SMT DEF Part
  <1>2. mseconds \in Nat /\ mseconds < SecondUnit
    BY BaseAssumption, SMT DEF Microsecond, SecondUnit
  <1>3. /\ BelowMinute(sec, mseconds) \in Nat
        /\ BelowMinute(sec, mseconds) < MinuteUnit
    BY <1>1, <1>2, Units, Fits DEF BelowMinute, MinuteUnit
  <1>4. /\ BelowHour(min, sec, mseconds) \in Nat
        /\ BelowHour(min, sec, mseconds) < HourUnit
    BY <1>1, <1>3, Units, Fits DEF BelowHour, HourUnit
  <1>5. /\ BelowDay(hour, min, sec, mseconds) \in Nat
        /\ BelowDay(hour, min, sec, mseconds) < DayUnit
    BY <1>1, <1>4, Units, Fits DEF BelowDay, DayUnit
  <1>6. /\ BelowMonth(day, hour, min, sec, mseconds) \in Nat
        /\ BelowMonth(day, hour, min, sec, mseconds) < MonthUnit
    BY <1>1, <1>5, Units, Fits DEF BelowMonth, MonthUnit
  <1>7. /\ BelowYear(mon, day, hour, min, sec, mseconds) \in Nat
        /\ BelowYear(mon, day, hour, min, sec, mseconds) < YearUnit
    BY <1>1, <1>6, Units, Fits DEF BelowYear, YearUnit
  <1>. QED BY <1>2, <1>3, <1>4, <1>5, <1>6, <1>7

LEMMA Year ==
    ASSUME NEW year \in Nat
    PROVE  year % Base \in Nat
  BY BaseAssumption, SMT

\* A number is its year and what is below.
LEMMA Split ==
    ASSUME NEW year \in Nat, NEW mon \in Part, NEW day \in Part, NEW hour \in Part,
           NEW min \in Part, NEW sec \in Part, NEW mseconds \in Microsecond
    PROVE  ToUint64(year, mon, day, hour, min, sec, mseconds)
               = (year % Base) * YearUnit + BelowYear(mon, day, hour, min, sec, mseconds)
  <1>1. /\ (year % Base) * YearUnit \in Nat /\ mon * MonthUnit \in Nat
        /\ day * DayUnit \in Nat /\ hour * HourUnit \in Nat
        /\ min * MinuteUnit \in Nat /\ sec * SecondUnit \in Nat
        /\ mseconds \in Nat
    BY Year, Units, Product DEF Part, Microsecond
  <1>. DEFINE y == (year % Base) * YearUnit  mo == mon * MonthUnit  d == day * DayUnit
              h == hour * HourUnit  mi == min * MinuteUnit  s == sec * SecondUnit
  <1>2. ToUint64(year, mon, day, hour, min, sec, mseconds)
            = y + mo + d + h + mi + s + mseconds
    BY DEF ToUint64
  <1>3. BelowYear(mon, day, hour, min, sec, mseconds)
            = mo + (d + (h + (mi + (s + mseconds))))
    BY DEF BelowYear, BelowMonth, BelowDay, BelowHour, BelowMinute
  <1>. HIDE DEF y, mo, d, h, mi, s
  <1>4. y \in Nat /\ mo \in Nat /\ d \in Nat /\ h \in Nat /\ mi \in Nat /\ s \in Nat
    BY <1>1 DEF y, mo, d, h, mi, s
  <1>5. y + mo + d + h + mi + s + mseconds
            = y + (mo + (d + (h + (mi + (s + mseconds)))))
    BY <1>1, <1>4, SMT
  <1>. QED BY <1>2, <1>3, <1>5 DEF y

\* The first part of a number with that unit, and what remains.
LEMMA Peel ==
    ASSUME NEW u \in Positive, NEW n \in Nat, NEW r \in Nat, r < u
    PROVE  /\ (n * u + r) \div u = n
           /\ (n * u + r) - n * u = r
  BY Division, Product, SMT DEF Positive

(* What is packed is what a report shows, up to the century.               *)
THEOREM DateReadsBack ==
    ASSUME NEW year \in Nat, NEW mon \in Part, NEW day \in Part, NEW hour \in Part,
           NEW min \in Part, NEW sec \in Part, NEW mseconds \in Microsecond
    PROVE  ToDateFormatString(ToUint64(year, mon, day, hour, min, sec, mseconds))
               = <<year % Base, mon, day, hour, min, sec, mseconds>>
  <1>. DEFINE date == ToUint64(year, mon, day, hour, min, sec, mseconds)
              inYear == BelowYear(mon, day, hour, min, sec, mseconds)
              inMonth == BelowMonth(day, hour, min, sec, mseconds)
              inDay == BelowDay(hour, min, sec, mseconds)
              inHour == BelowHour(min, sec, mseconds)
              inMinute == BelowMinute(sec, mseconds)
  <1>1. /\ year % Base \in Nat /\ mon \in Nat /\ day \in Nat /\ hour \in Nat
        /\ min \in Nat /\ sec \in Nat
    BY Year DEF Part
  <1>2. /\ date = (year % Base) * YearUnit + inYear
        /\ inYear = mon * MonthUnit + inMonth
        /\ inMonth = day * DayUnit + inDay
        /\ inDay = hour * HourUnit + inHour
        /\ inHour = min * MinuteUnit + inMinute
        /\ inMinute = sec * SecondUnit + mseconds
    BY Split DEF BelowYear, BelowMonth, BelowDay, BelowHour, BelowMinute
  <1>3. /\ inYear \in Nat /\ inYear < YearUnit
        /\ inMonth \in Nat /\ inMonth < MonthUnit
        /\ inDay \in Nat /\ inDay < DayUnit
        /\ inHour \in Nat /\ inHour < HourUnit
        /\ inMinute \in Nat /\ inMinute < MinuteUnit
        /\ mseconds \in Nat /\ mseconds < SecondUnit
    BY Below
  <1>. HIDE DEF date, inYear, inMonth, inDay, inHour, inMinute
  <1>4. date \div YearUnit = year % Base /\ date - (year % Base) * YearUnit = inYear
    BY <1>1, <1>2, <1>3, Units, Peel
  <1>5. inYear \div MonthUnit = mon /\ inYear - mon * MonthUnit = inMonth
    BY <1>1, <1>2, <1>3, Units, Peel
  <1>6. inMonth \div DayUnit = day /\ inMonth - day * DayUnit = inDay
    BY <1>1, <1>2, <1>3, Units, Peel
  <1>7. inDay \div HourUnit = hour /\ inDay - hour * HourUnit = inHour
    BY <1>1, <1>2, <1>3, Units, Peel
  <1>8. inHour \div MinuteUnit = min /\ inHour - min * MinuteUnit = inMinute
    BY <1>1, <1>2, <1>3, Units, Peel
  <1>9. inMinute \div SecondUnit = sec /\ inMinute % SecondUnit = mseconds
    BY <1>1, <1>2, <1>3, Units, Division
  <1>10. ToDateFormatString(date) = <<year % Base, mon, day, hour, min, sec, mseconds>>
    BY <1>4, <1>5, <1>6, <1>7, <1>8, <1>9 DEF ToDateFormatString
  <1>. QED BY <1>10 DEF date

-----------------------------------------------------------------------------
(* Rounding.                                                               *)

\* The minutes of a moment.
Minutes(year, mon, day, hour, min) ==
    ((((year % Base) * Base + mon) * Base + day) * Base + hour) * Base + min

\* One unit higher.
LEMMA Regroup ==
    ASSUME NEW n \in Nat, NEW m \in Nat, NEW b \in Nat, NEW u \in Nat
    PROVE  n * (b * u) + m * u = (n * b + m) * u /\ n * b + m \in Nat
  BY SMT

LEMMA MinutesAndBelow ==
    ASSUME NEW year \in Nat, NEW mon \in Part, NEW day \in Part, NEW hour \in Part,
           NEW min \in Part, NEW sec \in Part, NEW mseconds \in Microsecond
    PROVE  /\ Minutes(year, mon, day, hour, min) \in Nat
           /\ ToUint64(year, mon, day, hour, min, sec, mseconds)
                  = Minutes(year, mon, day, hour, min) * MinuteUnit
                    + BelowMinute(sec, mseconds)
           /\ ToUint64(year, mon, day, hour, min, 0, 0)
                  = Minutes(year, mon, day, hour, min) * MinuteUnit
  <1>1. /\ year % Base \in Nat /\ mon \in Nat /\ day \in Nat /\ hour \in Nat
        /\ min \in Nat /\ Base \in Nat
    BY Year, BaseAssumption DEF Part
  <1>2. /\ MonthUnit \in Nat /\ DayUnit \in Nat /\ HourUnit \in Nat
        /\ MinuteUnit \in Nat /\ SecondUnit \in Nat
    BY Units DEF Positive
  <1>. DEFINE months == (year % Base) * Base + mon
              days == months * Base + day
              hours == days * Base + hour
              minutes == hours * Base + min
  <1>3. (year % Base) * YearUnit + mon * MonthUnit = months * MonthUnit /\ months \in Nat
    BY <1>1, <1>2, Regroup DEF YearUnit
  <1>. HIDE DEF months
  <1>4. months * MonthUnit + day * DayUnit = days * DayUnit /\ days \in Nat
    BY <1>1, <1>2, <1>3, Regroup DEF MonthUnit
  <1>. HIDE DEF days
  <1>5. days * DayUnit + hour * HourUnit = hours * HourUnit /\ hours \in Nat
    BY <1>1, <1>2, <1>4, Regroup DEF DayUnit
  <1>. HIDE DEF hours
  <1>6. hours * HourUnit + min * MinuteUnit = minutes * MinuteUnit /\ minutes \in Nat
    BY <1>1, <1>2, <1>5, Regroup DEF HourUnit
  <1>. HIDE DEF minutes
  <1>7. Minutes(year, mon, day, hour, min) = minutes
    BY DEF Minutes, minutes, hours, days, months
  <1>8. minutes * MinuteUnit \in Nat /\ sec * SecondUnit \in Nat /\ mseconds \in Nat
    BY <1>2, <1>6, SMT DEF Part, Microsecond
  <1>9. \A s, ms : ToUint64(year, mon, day, hour, min, s, ms)
            = minutes * MinuteUnit + s * SecondUnit + ms
    BY <1>3, <1>4, <1>5, <1>6 DEF ToUint64
  <1>10. minutes * MinuteUnit + sec * SecondUnit + mseconds
            = minutes * MinuteUnit + (sec * SecondUnit + mseconds)
    BY <1>8, SMT
  <1>11. minutes * MinuteUnit + 0 * SecondUnit + 0 = minutes * MinuteUnit
    BY <1>2, <1>8, SMT
  <1>. QED BY <1>6, <1>7, <1>9, <1>10, <1>11 DEF BelowMinute

-----------------------------------------------------------------------------
(* What the program relies on.                                             *)

(* Rounding a packed moment gives the packed minute: an event is kept      *)
(* under the key by which WorkerThread looks for its minute and deletes it.*)
THEOREM RoundMinuteKeepsTheMinute ==
    ASSUME NEW year \in Nat, NEW mon \in Part, NEW day \in Part, NEW hour \in Part,
           NEW min \in Part, NEW sec \in Part, NEW mseconds \in Microsecond
    PROVE  RoundMinute(ToUint64(year, mon, day, hour, min, sec, mseconds))
               = ToUint64(year, mon, day, hour, min, 0, 0)
  <1>. DEFINE q == Minutes(year, mon, day, hour, min)
              r == BelowMinute(sec, mseconds)
  <1>1. /\ q \in Nat
        /\ ToUint64(year, mon, day, hour, min, sec, mseconds) = q * MinuteUnit + r
        /\ ToUint64(year, mon, day, hour, min, 0, 0) = q * MinuteUnit
    BY MinutesAndBelow
  <1>2. r \in Nat /\ r < MinuteUnit
    BY Below
  <1>. HIDE DEF q, r
  <1>3. (q * MinuteUnit + r) \div MinuteUnit = q
    BY <1>1, <1>2, Units, Division
  <1>. QED BY <1>1, <1>3 DEF RoundMinute

\* What can be read back of a minute.
LEMMA MinuteReadsBack ==
    ASSUME NEW year \in Nat, NEW mon \in Part, NEW day \in Part, NEW hour \in Part,
           NEW min \in Part
    PROVE  ToDateFormatString(ToUint64(year, mon, day, hour, min, 0, 0))
               = <<year % Base, mon, day, hour, min, 0, 0>>
  <1>1. 0 \in Part /\ 0 \in Microsecond
    BY BaseAssumption, SMT DEF Part, Microsecond
  <1>2. ASSUME NEW sec \in Part, NEW mseconds \in Microsecond
        PROVE  ToDateFormatString(ToUint64(year, mon, day, hour, min, sec, mseconds))
                   = <<year % Base, mon, day, hour, min, sec, mseconds>>
    BY DateReadsBack
  <1>. QED BY <1>1, <1>2, Zenon

Instant == {<<year, mon, day, hour, min, sec, mseconds>> :
               year \in Nat, mon \in Part, day \in Part, hour \in Part,
               min \in Part, sec \in Part, mseconds \in Microsecond}
Packed(t) == ToUint64(t[1], t[2], t[3], t[4], t[5], t[6], t[7])

LEMMA KeyReadsBack ==
    ASSUME NEW t \in Instant
    PROVE  ToDateFormatString(RoundMinute(Packed(t)))
               = <<t[1] % Base, t[2], t[3], t[4], t[5], 0, 0>>
  <1>1. PICK year \in Nat, mon \in Part, day \in Part, hour \in Part, min \in Part,
             sec \in Part, mseconds \in Microsecond :
                 t = <<year, mon, day, hour, min, sec, mseconds>>
    BY DEF Instant
  <1>2. RoundMinute(ToUint64(year, mon, day, hour, min, sec, mseconds))
            = ToUint64(year, mon, day, hour, min, 0, 0)
    BY RoundMinuteKeepsTheMinute
  <1>3. ToDateFormatString(ToUint64(year, mon, day, hour, min, 0, 0))
            = <<year % Base, mon, day, hour, min, 0, 0>>
    BY MinuteReadsBack
  <1>. QED BY <1>1, <1>2, <1>3 DEF Packed

(* Two moments with one rounded number are of one minute of one day, of    *)
(* years with the same last digits: no two minutes share an aggregator.    *)
THEOREM OneKeyOneMinute ==
    ASSUME NEW t \in Instant, NEW u \in Instant,
           RoundMinute(Packed(t)) = RoundMinute(Packed(u))
    PROVE  <<t[1] % Base, t[2], t[3], t[4], t[5]>>
               = <<u[1] % Base, u[2], u[3], u[4], u[5]>>
  <1>1. <<t[1] % Base, t[2], t[3], t[4], t[5], 0, 0>>
            = <<u[1] % Base, u[2], u[3], u[4], u[5], 0, 0>>
    BY KeyReadsBack
  <1>. QED BY <1>1

-----------------------------------------------------------------------------
(* Reading a buffer from its end (FindStartPositionBuffer).                *)

\* How many characters of a header, from its end, have matched.
Place == 0 .. 13

\* What is found from the i-th character back, from what is found before it.
Back(text, i, pos, before) ==
    IF i = 0 THEN -1
    ELSE IF pos = 13
    THEN IF text[i] \in {"nl", "bf"} THEN Len(text) - i ELSE before[13]
    ELSE before[IF text[i] = Header[pos + 1] THEN pos + 1 ELSE 0]

\* g solves the recursion of FindStartPositionBuffer for n characters.
Backs(text, n, g) ==
    \A i \in 0 .. n : g[i] = [pos \in Place |-> Back(text, i, pos, g[i - 1])]

(* The recursion over the characters of a text has a solution.             *)
LEMMA BacksExist ==
    ASSUME NEW text, NEW n \in Nat
    PROVE  \E g : Backs(text, n, g)
<1> DEFINE S == {m \in Nat : \E g : Backs(text, m, g)}
<1>1. 0 \in S
  <2> DEFINE g == [i \in {0} |-> [pos \in Place |-> -1]]
  <2>1. \A i \in 0 .. 0 : i = 0
    OBVIOUS
  <2>2. g[0] = [pos \in Place |-> Back(text, 0, pos, g[0 - 1])]
    BY DEF Back
  <2>h. HIDE DEF g
  <2>3. Backs(text, 0, g)
    BY <2>1, <2>2 DEF Backs
  <2> QED BY <2>3
<1>2. ASSUME NEW m \in Nat, m \in S PROVE m + 1 \in S
  <2>1. PICK g : Backs(text, m, g)
    BY <1>2
  <2> DEFINE last == [pos \in Place |-> Back(text, m + 1, pos, g[m])]
             h == [i \in 0 .. m + 1 |-> IF i <= m THEN g[i] ELSE last]
  <2>2. ASSUME NEW i \in 0 .. m + 1
        PROVE  h[i] = [pos \in Place |-> Back(text, i, pos, h[i - 1])]
    <3>1. CASE i = 0
      <4>1. h[i] = g[0] /\ 0 \in 0 .. m
        BY <3>1
      <4>2. g[0] = [pos \in Place |-> Back(text, 0, pos, g[0 - 1])]
        BY <2>1, <4>1, Zenon DEF Backs
      <4>3. \A pos, a, b : Back(text, 0, pos, a) = Back(text, 0, pos, b)
        BY DEF Back
      <4>h. HIDE DEF h
      <4>4. [pos \in Place |-> Back(text, 0, pos, g[0 - 1])]
              = [pos \in Place |-> Back(text, 0, pos, h[0 - 1])]
        BY <4>3
      <4> QED BY <3>1, <4>1, <4>2, <4>4
    <3>2. CASE i # 0 /\ i <= m
      <4>1. h[i] = g[i] /\ h[i - 1] = g[i - 1] /\ i \in 0 .. m
        BY <3>2
      <4>h. HIDE DEF h
      <4>2. g[i] = [pos \in Place |-> Back(text, i, pos, g[i - 1])]
        BY <2>1, <4>1, Zenon DEF Backs
      <4> QED BY <4>1, <4>2, Zenon
    <3>3. CASE i = m + 1
      <4>1. h[i] = last /\ h[i - 1] = g[m]
        BY <3>3
      <4>h. HIDE DEF h
      <4> QED BY <3>3, <4>1
    <3> QED BY <3>1, <3>2, <3>3
  <2>h. HIDE DEF h
  <2>3. Backs(text, m + 1, h)
    BY <2>2, Zenon DEF Backs
  <2> QED
    BY <2>3
<1> QED
    BY <1>1, <1>2, NatSetInduction

(* FindStartPositionBuffer gives what a solution has for the whole text    *)
(* when nothing of a header has matched.                                   *)
LEMMA BackUnfold ==
    ASSUME NEW text, Len(text) \in Nat
    PROVE  \E g : /\ Backs(text, Len(text), g)
                  /\ FindStartPositionBuffer(text) = g[Len(text)][0]
<1> DEFINE n == Len(text)
           Is(f) == f = [i \in 0 .. n |-> [pos \in 0 .. 13 |->
               IF i = 0 THEN -1
            ELSE IF pos = 13
            THEN IF text[i] \in {"nl", "bf"} THEN Len(text) - i ELSE f[i - 1][13]
            ELSE f[i - 1][IF text[i] = Header[pos + 1] THEN pos + 1 ELSE 0]]]
           h == CHOOSE f : Is(f)
<1>1. PICK g : Backs(text, n, g)
    BY BacksExist
<1> DEFINE k == [i \in 0 .. n |-> g[i]]
           e == [i \in 0 .. n |-> [pos \in Place |-> Back(text, i, pos, k[i - 1])]]
<1>2. ASSUME NEW i \in 0 .. n PROVE k[i] = e[i]
  <2>1. k[i] = [pos \in Place |-> Back(text, i, pos, g[i - 1])]
    BY <1>1 DEF Backs
  <2>2. e[i] = [pos \in Place |-> Back(text, i, pos, k[i - 1])]
    OBVIOUS
  <2>3. ASSUME NEW pos \in Place PROVE Back(text, i, pos, g[i - 1]) = Back(text, i, pos, k[i - 1])
    <3>1. CASE i = 0
      BY <3>1 DEF Back
    <3>2. CASE i # 0
      <4>1. k[i - 1] = g[i - 1]
        BY <3>2
      <4> QED BY <4>1, Zenon
    <3> QED BY <3>1, <3>2
  <2> QED BY <2>1, <2>2, <2>3, Zenon
<1>3. k = e
    BY <1>2
<1>4. Is(k)
    BY <1>3, Zenon DEF Back, Place
<1>5. Is(h)
    BY <1>4, Zenon
<1>6. FindStartPositionBuffer(text) = h[n][0]
    BY Zenon DEF FindStartPositionBuffer
<1>h. HIDE DEF h
<1>7. Backs(text, n, h)
  <2>1. ASSUME NEW i \in 0 .. n
        PROVE  h[i] = [pos \in Place |-> Back(text, i, pos, h[i - 1])]
    <3>1. h[i] = [pos \in 0 .. 13 |->
               IF i = 0 THEN -1
            ELSE IF pos = 13
            THEN IF text[i] \in {"nl", "bf"} THEN Len(text) - i ELSE h[i - 1][13]
            ELSE h[i - 1][IF text[i] = Header[pos + 1] THEN pos + 1 ELSE 0]]
      BY <1>5
    <3> QED BY <3>1, Zenon DEF Back, Place
  <2> QED BY <2>1, Zenon DEF Backs
<1> QED
    BY <1>6, <1>7

\* No line break from the a-th to the b-th character.
Clear(text, a, b) == \A k \in a .. b : text[k] \notin Breaks

\* A line starts after the s-th character whose header has been read, or will
\* be when pos of its characters were after the i-th.
FoundFrom(text, i, pos, s) ==
    /\ s \in 1 .. i /\ text[s] \in Breaks
    /\ pos = 13 => Clear(text, s + 1, i)
    /\ pos # 13 => \E h \in s .. i :
          /\ Clear(text, s + 1, h)
          /\ \/ h + 13 <= i /\ \A k \in 1 .. 13 : text[h + 14 - k] = Header[k]
             \/ h = i + pos - 13 /\ \A k \in pos + 1 .. 13 : text[i + pos + 1 - k] = Header[k]

(* What is found is the start of a line with a header.                     *)
LEMMA BackSound ==
    ASSUME NEW text, Len(text) \in Nat, NEW g, Backs(text, Len(text), g)
    PROVE  \A i \in 0 .. Len(text) : \A pos \in Place :
              g[i][pos] = -1 \/ \E s \in 1 .. i : g[i][pos] = Len(text) - s /\ FoundFrom(text, i, pos, s)
<1> DEFINE n == Len(text)
           Ok(i) == \A pos \in Place :
              g[i][pos] = -1 \/ \E s \in 1 .. i : g[i][pos] = n - s /\ FoundFrom(text, i, pos, s)
           S == {i \in Nat : i \in 0 .. n => Ok(i)}
<1>a. \A i \in 0 .. n : \A pos \in Place : g[i][pos] = Back(text, i, pos, g[i - 1])
  BY Zenon DEF Backs
<1>1. 0 \in S
  <2>1. ASSUME NEW pos \in Place PROVE g[0][pos] = -1
    BY <1>a DEF Back
  <2> QED BY <2>1
<1>2. ASSUME NEW m \in Nat, m \in S PROVE m + 1 \in S
  <2> SUFFICES ASSUME m + 1 \in 0 .. n, NEW pos \in Place, g[m + 1][pos] # -1
               PROVE  \E s \in 1 .. m + 1 : g[m + 1][pos] = n - s /\ FoundFrom(text, m + 1, pos, s)
    OBVIOUS
  <2>1. g[m + 1][pos] = Back(text, m + 1, pos, g[m])
    BY <1>a
  <2>2. Ok(m)
    BY <1>2
  <2>h. HIDE DEF Ok
  <2>3. CASE pos = 13 /\ text[m + 1] \in Breaks
    <3>1. g[m + 1][pos] = n - (m + 1)
      BY <2>1, <2>3 DEF Back, Breaks
    <3>2. FoundFrom(text, m + 1, pos, m + 1)
      BY <2>3 DEF FoundFrom, Clear
    <3> QED BY <3>1, <3>2
  <2>4. CASE pos = 13 /\ text[m + 1] \notin Breaks
    <3>1. g[m + 1][pos] = g[m][13]
      BY <2>1, <2>4 DEF Back, Breaks
    <3>2. PICK s \in 1 .. m : g[m][13] = n - s /\ FoundFrom(text, m, 13, s)
      BY <2>2, <3>1 DEF Ok, Place
    <3>3. FoundFrom(text, m + 1, 13, s)
      BY <2>4, <3>2 DEF FoundFrom, Clear
    <3> QED BY <2>4, <3>1, <3>2, <3>3
  <2>5. CASE pos # 13 /\ text[m + 1] = Header[pos + 1]
    <3>1. g[m + 1][pos] = g[m][pos + 1] /\ pos + 1 \in Place
      BY <2>1, <2>5 DEF Back, Place
    <3>2. PICK s \in 1 .. m : g[m][pos + 1] = n - s /\ FoundFrom(text, m, pos + 1, s)
      BY <2>2, <3>1 DEF Ok
    <3>3. FoundFrom(text, m + 1, pos, s)
      <4>1. CASE pos = 12
        <5>1. s \in m .. m \/ Clear(text, s + 1, m)
          BY <3>2, <4>1 DEF FoundFrom
        <5>2. Clear(text, s + 1, m) /\ m = (m + 1) + pos - 13
          BY <3>2, <4>1 DEF FoundFrom
        <5>3. \A k \in pos + 1 .. 13 : k = 13 /\ (m + 1) + pos + 1 - k = m + 1
          BY <4>1
        <5>4. \A k \in pos + 1 .. 13 : text[(m + 1) + pos + 1 - k] = Header[k]
          BY <2>5, <4>1, <5>3
        <5> QED BY <3>2, <4>1, <5>2, <5>4 DEF FoundFrom
      <4>2. CASE pos # 12
        <5>1. PICK h \in s .. m :
                /\ Clear(text, s + 1, h)
                /\ \/ h + 13 <= m /\ \A k \in 1 .. 13 : text[h + 14 - k] = Header[k]
                   \/ /\ h = m + (pos + 1) - 13
                      /\ \A k \in pos + 2 .. 13 : text[m + (pos + 1) + 1 - k] = Header[k]
          BY <3>2, <4>2, <2>5 DEF FoundFrom, Place
        <5>2. ASSUME h = m + (pos + 1) - 13,
                     \A k \in pos + 2 .. 13 : text[m + (pos + 1) + 1 - k] = Header[k]
              PROVE  h = (m + 1) + pos - 13
                     /\ \A k \in pos + 1 .. 13 : text[(m + 1) + pos + 1 - k] = Header[k]
          <6>1. ASSUME NEW k \in pos + 1 .. 13 PROVE text[(m + 1) + pos + 1 - k] = Header[k]
            <7>1. CASE k = pos + 1
              BY <2>5, <7>1 DEF Place
            <7>2. CASE k # pos + 1
              <8>1. k \in pos + 2 .. 13 /\ m + (pos + 1) + 1 - k = (m + 1) + pos + 1 - k
                BY <7>2 DEF Place
              <8> QED BY <8>1, <5>2
            <7> QED BY <7>1, <7>2
          <6>2. h = (m + 1) + pos - 13
            BY <5>2 DEF Place
          <6> QED BY <6>1, <6>2, Zenon
        <5>3. \/ h + 13 <= m + 1 /\ \A k \in 1 .. 13 : text[h + 14 - k] = Header[k]
              \/ h = (m + 1) + pos - 13 /\ \A k \in pos + 1 .. 13 : text[(m + 1) + pos + 1 - k] = Header[k]
          BY <5>1, <5>2
        <5>4. h \in s .. m + 1 /\ s \in 1 .. m + 1 /\ text[s] \in Breaks
          BY <3>2 DEF FoundFrom
        <5> QED BY <2>5, <5>1, <5>3, <5>4, Zenon DEF FoundFrom
      <4> QED BY <4>1, <4>2
    <3> QED BY <3>1, <3>2, <3>3
  <2>6. CASE pos # 13 /\ text[m + 1] # Header[pos + 1]
    <3>1. g[m + 1][pos] = g[m][0] /\ 0 \in Place
      BY <2>1, <2>6 DEF Back, Place
    <3>2. PICK s \in 1 .. m : g[m][0] = n - s /\ FoundFrom(text, m, 0, s)
      BY <2>2, <3>1 DEF Ok
    <3>3. FoundFrom(text, m + 1, pos, s)
      <4>1. PICK h \in s .. m :
                /\ Clear(text, s + 1, h)
                /\ \/ h + 13 <= m /\ \A k \in 1 .. 13 : text[h + 14 - k] = Header[k]
                   \/ /\ h = m + 0 - 13
                      /\ \A k \in 0 + 1 .. 13 : text[m + 0 + 1 - k] = Header[k]
        <5>1. 0 # 13
          OBVIOUS
        <5> QED BY <3>2, <5>1, Zenon DEF FoundFrom
      <4>2. h + 13 <= m + 1 /\ \A k \in 1 .. 13 : text[h + 14 - k] = Header[k]
        <5>1. ASSUME h = m + 0 - 13, \A k \in 0 + 1 .. 13 : text[m + 0 + 1 - k] = Header[k],
                     NEW k \in 1 .. 13
              PROVE  text[h + 14 - k] = Header[k]
          <6>1. k \in 0 + 1 .. 13 /\ h + 14 - k = m + 0 + 1 - k
            BY <5>1
          <6> QED BY <5>1, <6>1
        <5>2. h = m + 0 - 13 => h + 13 <= m + 1
          OBVIOUS
        <5>3. h + 13 <= m => h + 13 <= m + 1
          OBVIOUS
        <5> QED BY <4>1, <5>1, <5>2, <5>3, Zenon
      <4>3. h \in s .. m + 1 /\ s \in 1 .. m + 1 /\ text[s] \in Breaks
        BY <3>2 DEF FoundFrom
      <4> QED BY <2>6, <4>1, <4>2, <4>3, Zenon DEF FoundFrom
    <3> QED BY <3>1, <3>2, <3>3
  <2> QED BY <2>3, <2>4, <2>5, <2>6
<1>3. Nat \subseteq S
  BY <1>1, <1>2, NatSetInduction
<1> QED BY <1>3

\* The characters of a header are those after the h-th.
HeaderIn(text, h) == \A k \in 1 .. 13 : text[h + 14 - k] = Header[k]
\* Only digits from the a-th to the b-th character.
Digits(text, a, b) == \A i \in a .. b : text[i] = "d"

(* A record is found, or something after its start.                        *)
LEMMA BackComplete ==
    ASSUME NEW text, Len(text) \in Nat, NEW g, Backs(text, Len(text), g),
           NEW s \in 1 .. Len(text), text[s] \in Breaks,
           HeaderIn(text, s), NEW e \in s + 13 .. Len(text), Digits(text, s + 14, e),
           e = Len(text) \/ text[e + 1] \in {"x"} \cup Breaks
    PROVE  g[Len(text)][0] # -1 /\ Len(text) - g[Len(text)][0] >= s
<1> DEFINE n == Len(text)
           Good(v) == v # -1 /\ n - v >= s
<1>n. n \in Nat /\ n >= s + 13 /\ s >= 1 /\ s \in Int /\ e \in Int /\ s + 13 <= e /\ e <= n
  OBVIOUS
<1>a. \A i \in 0 .. n : \A pos \in Place : g[i][pos] = Back(text, i, pos, g[i - 1])
  BY Zenon DEF Backs
<1>g. \A i \in Int : s <= i /\ i <= n => Good(n - i)
  BY <1>n
<1>h. HIDE DEF n, Good
<1>1. \A i \in s .. n : Good(g[i][13])
  <2> DEFINE S == {i \in Nat : s + i \in s .. n => Good(g[s + i][13])}
  <2>1. 0 \in S
    <3>1. 13 \in Place /\ s \in 0 .. n /\ s # 0
      BY <1>n DEF Place
    <3>2. g[s][13] = Back(text, s, 13, g[s - 1])
      BY <1>a, <3>1
    <3>3. g[s][13] = n - s
      BY <3>1, <3>2 DEF Back, Breaks, n
    <3>4. Good(g[s + 0][13])
      BY <3>3, <1>n, <1>g
    <3> QED BY <3>4
  <2>2. ASSUME NEW m \in Nat, m \in S PROVE m + 1 \in S
    <3> SUFFICES ASSUME s + (m + 1) \in s .. n PROVE Good(g[s + (m + 1)][13])
      OBVIOUS
    <3> DEFINE i == s + (m + 1)
    <3>1. g[i][13] = Back(text, i, 13, g[i - 1]) /\ i - 1 = s + m /\ i \in 1 .. n /\ i >= s /\ i \in Int
      BY <1>a, <1>n DEF Place
    <3>2. Good(g[s + m][13])
      <4>1. s + m \in s .. n
        BY <1>n
      <4> QED BY <2>2, <4>1, Zenon
    <3>h. HIDE DEF i
    <3>3. g[i][13] = n - i \/ g[i][13] = g[s + m][13]
      <4>1. i # 0 /\ i - 1 = s + m
        BY <3>1
      <4>2. g[i][13] = n - i \/ g[i][13] = g[i - 1][13]
        BY <3>1, <4>1, Zenon DEF Back, n
      <4> QED BY <4>1, <4>2, Zenon
    <3>4. ASSUME g[i][13] = n - i PROVE Good(g[i][13])
      BY <3>4, <3>1, <1>n, <1>g
    <3>5. Good(g[i][13])
      BY <3>2, <3>3, <3>4, Zenon
    <3> QED BY <3>5 DEF i
  <2>3. Nat \subseteq S
    BY <2>1, <2>2, NatSetInduction
  <2> QED
    <3> TAKE i \in s .. n
    <3>1. i - s \in Nat /\ s + (i - s) = i
      BY <1>n
    <3> QED BY <2>3, <3>1
<1>2. \A k \in 0 .. 13 : Good(g[s + k][13 - k])
  <2> DEFINE S == {k \in Nat : k \in 0 .. 13 => Good(g[s + k][13 - k])}
  <2>1. 0 \in S
    BY <1>1, <1>n
  <2>2. ASSUME NEW k \in Nat, k \in S PROVE k + 1 \in S
    <3> SUFFICES ASSUME k + 1 \in 0 .. 13 PROVE Good(g[s + (k + 1)][13 - (k + 1)])
      OBVIOUS
    <3> DEFINE i == s + (k + 1)
               pos == 13 - (k + 1)
    <3>1. i \in 1 .. n /\ i - 1 = s + k /\ pos \in Place /\ pos # 13 /\ pos + 1 = 13 - k /\ i = s + 14 - (pos + 1)
          /\ pos + 1 \in 1 .. 13 /\ i # 0 /\ i \in 0 .. n
      BY <1>n DEF Place
    <3>2. Good(g[s + k][13 - k])
      <4>1. k \in 0 .. 13
        OBVIOUS
      <4> QED BY <2>2, <4>1, Zenon
    <3>h. HIDE DEF i, pos
    <3>3. text[i] = Header[pos + 1]
      BY <3>1 DEF HeaderIn
    <3>4. g[i][pos] = g[i - 1][pos + 1]
      BY <1>a, <3>1, <3>3 DEF Back
    <3>5. i - 1 = s + k /\ pos + 1 = 13 - k
      BY <3>1
    <3>6. Good(g[i][pos])
      BY <3>2, <3>4, <3>5, Zenon
    <3> QED BY <3>6 DEF i, pos
  <2>3. Nat \subseteq S
    BY <2>1, <2>2, NatSetInduction
  <2> QED BY <2>3
<1>3. \A i \in s + 13 .. e : Good(g[i][0])
  <2> DEFINE S == {j \in Nat : s + 13 + j \in s + 13 .. e => Good(g[s + 13 + j][0])}
  <2>1. 0 \in S
    <3>1. 13 \in 0 .. 13 /\ 13 - 13 = 0 /\ s + 13 + 0 = s + 13
      OBVIOUS
    <3> QED BY <1>2, <3>1
  <2>2. ASSUME NEW m \in Nat, m \in S PROVE m + 1 \in S
    <3> SUFFICES ASSUME s + 13 + (m + 1) \in s + 13 .. e PROVE Good(g[s + 13 + (m + 1)][0])
      OBVIOUS
    <3> DEFINE i == s + 13 + (m + 1)
    <3>1. i \in 0 .. n /\ i # 0 /\ i - 1 = s + 13 + m /\ i \in s + 14 .. e /\ 0 \in Place
          /\ s + 13 + m \in s + 13 .. e
      BY <1>n DEF Place, n
    <3>2. Good(g[s + 13 + m][0])
      BY <2>2, <3>1
    <3>h. HIDE DEF i
    <3>3. text[i] = "d" /\ Header[0 + 1] = "-"
      BY <3>1 DEF Header, Digits
    <3>4. g[i][0] = g[i - 1][0]
      BY <1>a, <3>1, <3>3 DEF Back
    <3> QED BY <3>1, <3>2, <3>4 DEF i
  <2>3. Nat \subseteq S
    BY <2>1, <2>2, NatSetInduction
  <2> QED
    <3> TAKE i \in s + 13 .. e
    <3>1. i - (s + 13) \in Nat /\ s + 13 + (i - (s + 13)) = i
      BY <1>n
    <3> QED BY <2>3, <3>1
<1>4. CASE e = n
  BY <1>3, <1>4, <1>n DEF n, Good
<1>5. CASE e # n
  <2>1. \A i \in e + 1 .. n : \A pos \in Place : Good(g[i][pos])
    <3> DEFINE S == {j \in Nat : e + 1 + j \in e + 1 .. n =>
                                   \A pos \in Place : Good(g[e + 1 + j][pos])}
    <3>1. 0 \in S
      <4> SUFFICES ASSUME e + 1 \in e + 1 .. n, NEW pos \in Place PROVE Good(g[e + 1][pos])
        OBVIOUS
      <4> DEFINE i == e + 1
      <4>1. i \in 0 .. n /\ i # 0 /\ i - 1 = e /\ i \in s .. n /\ i \in s + 14 .. n
        BY <1>n DEF n
      <4>2. text[i] \in {"x"} \cup Breaks
        BY <1>5 DEF n
      <4>h. HIDE DEF i
      <4>3. CASE pos = 13
        BY <1>1, <4>1, <4>3 DEF i
      <4>4. CASE pos # 13
        <5>1. pos + 1 \in 1 .. 13
          BY <4>4 DEF Place
        <5>2. \A k \in 1 .. 13 : Header[k] \notin {"x", "nl", "bf"}
          BY SMTT(40) DEF Header
        <5>3. text[i] # Header[pos + 1]
          BY <4>2, <5>1, <5>2 DEF Breaks
        <5>4. g[i][pos] = g[e][0]
          BY <1>a, <4>1, <4>4, <5>3 DEF Back
        <5> QED BY <1>3, <5>4 DEF i
      <4> QED BY <4>3, <4>4 DEF i
    <3>2. ASSUME NEW m \in Nat, m \in S PROVE m + 1 \in S
      <4> SUFFICES ASSUME e + 1 + (m + 1) \in e + 1 .. n, NEW pos \in Place
                   PROVE  Good(g[e + 1 + (m + 1)][pos])
        OBVIOUS
      <4> DEFINE i == e + 1 + (m + 1)
      <4>1. i \in 0 .. n /\ i # 0 /\ i - 1 = e + 1 + m /\ e + 1 + m \in e + 1 .. n /\ i >= s /\ i \in Int
        BY <1>n DEF n
      <4>2. \A p \in Place : Good(g[i - 1][p])
        BY <3>2, <4>1
      <4>h. HIDE DEF i
      <4>3. \/ g[i][pos] = n - i
            \/ \E p \in Place : g[i][pos] = g[i - 1][p]
        <5>1. g[i][pos] = Back(text, i, pos, g[i - 1])
          BY <1>a, <4>1
        <5>2. 13 \in Place /\ 0 \in Place /\ (pos # 13 => pos + 1 \in Place)
          BY DEF Place
        <5> QED BY <4>1, <5>1, <5>2 DEF Back, n
      <4>4. ASSUME g[i][pos] = n - i PROVE Good(g[i][pos])
        BY <4>1, <4>4, <1>n, <1>g
      <4> QED BY <4>2, <4>3, <4>4 DEF i
    <3>3. Nat \subseteq S
      BY <3>1, <3>2, NatSetInduction
    <3> QED
      <4> TAKE i \in e + 1 .. n
      <4>1. i - (e + 1) \in Nat /\ e + 1 + (i - (e + 1)) = i
        BY <1>n
      <4> QED BY <3>3, <4>1
  <2>2. n \in e + 1 .. n /\ 0 \in Place
    BY <1>5, <1>n DEF Place, n
  <2> QED BY <2>1, <2>2 DEF n, Good
<1> QED BY <1>4, <1>5

\* s is the start of a line of the text that has a header on it.
Line(text, s) ==
    /\ s \in 1 .. Len(text) /\ text[s] \in Breaks
    /\ \E h \in s .. Len(text) : h + 13 <= Len(text) /\ HeaderIn(text, h) /\ Clear(text, s + 1, h)

\* ... of a record.
Good(text, s) ==
    /\ s \in 1 .. Len(text) /\ text[s] \in Breaks /\ HeaderIn(text, s)
    /\ \E e \in s + 13 .. Len(text) :
          /\ Digits(text, s + 14, e)
          /\ e = Len(text) \/ text[e + 1] \in {"x"} \cup Breaks

(* FindStartPositionBuffer: what it finds is the start of a line with a    *)
(* header, and no record of the text is after that.                        *)
LEMMA BufferFound ==
    ASSUME NEW text, Len(text) \in Nat
    PROVE  /\ \/ FindStartPositionBuffer(text) = -1
              \/ \E s \in 1 .. Len(text) :
                    FindStartPositionBuffer(text) = Len(text) - s /\ Line(text, s)
           /\ \A s \in 1 .. Len(text) :
                 Good(text, s) => /\ FindStartPositionBuffer(text) # -1
                                  /\ Len(text) - FindStartPositionBuffer(text) >= s
<1> DEFINE n == Len(text)
           off == FindStartPositionBuffer(text)
<1>1. PICK g : Backs(text, Len(text), g) /\ off = g[Len(text)][0]
    BY BackUnfold
<1>h. HIDE DEF off, n
<1>z. 0 \in Place /\ n \in 0 .. n /\ n \in Nat /\ Len(text) = n
    BY DEF Place, n
<1>2. ASSUME off # -1
      PROVE  \E s \in 1 .. n : off = n - s /\ Line(text, s)
    <2>1. PICK s \in 1 .. n : g[n][0] = n - s /\ FoundFrom(text, n, 0, s)
        BY <1>1, <1>2, <1>z, BackSound, Zenon
    <2>2. PICK h \in s .. n :
          /\ Clear(text, s + 1, h)
          /\ \/ h + 13 <= n /\ \A k \in 1 .. 13 : text[h + 14 - k] = Header[k]
             \/ h = n + 0 - 13 /\ \A k \in 0 + 1 .. 13 : text[n + 0 + 1 - k] = Header[k]
        BY <2>1 DEF FoundFrom
    <2>3. h + 13 <= n /\ HeaderIn(text, h)
        <3>1. CASE h + 13 <= n /\ \A k \in 1 .. 13 : text[h + 14 - k] = Header[k]
            BY <3>1, Zenon DEF HeaderIn
        <3>2. CASE h = n + 0 - 13 /\ \A k \in 0 + 1 .. 13 : text[n + 0 + 1 - k] = Header[k]
            <4>1. ASSUME NEW k \in 1 .. 13 PROVE text[h + 14 - k] = Header[k]
                <5>1. k \in 0 + 1 .. 13 /\ h + 14 - k = n + 0 + 1 - k
                    BY <3>2, <1>z
                <5> QED BY <5>1, <3>2, Zenon
            <4>2. h + 13 <= n
                BY <3>2, <1>z
            <4> QED BY <4>1, <4>2, Zenon DEF HeaderIn
        <3> QED BY <2>2, <3>1, <3>2, Zenon
    <2>4. s \in 1 .. n /\ text[s] \in Breaks
        BY <2>1, Zenon DEF FoundFrom
    <2>5. Line(text, s)
        BY <2>2, <2>3, <2>4, <1>z, Zenon DEF Line
    <2> QED BY <1>1, <2>1, <2>5, <1>z, Zenon
<1>3. ASSUME NEW s \in 1 .. n, Good(text, s)
      PROVE  off # -1 /\ n - off >= s
    <2>1. PICK e \in s + 13 .. n :
          /\ Digits(text, s + 14, e)
          /\ e = n \/ text[e + 1] \in {"x"} \cup Breaks
        BY <1>3, <1>z, Zenon DEF Good
    <2>2. text[s] \in Breaks /\ HeaderIn(text, s)
        BY <1>3, Zenon DEF Good
    <2> QED BY <1>1, <2>1, <2>2, <1>z, BackComplete, Zenon
<1> QED BY <1>2, <1>3, <1>z DEF off, n

\* Where the window that ends at end begins, and what it shows.
Lowest(end, w) == IF end > w THEN end - w ELSE 0
ShownBy(file, w, end) == SubSeq(file, Lowest(end, w) + 1, end)

\* What is found from a window on, from what is found before it.
Window(file, w, end, before) ==
    IF FindStartPositionBuffer(ShownBy(file, w, end)) # -1
    THEN end - FindStartPositionBuffer(ShownBy(file, w, end))
    ELSE IF Lowest(end, w) = 0 THEN 0 ELSE before

\* g solves the recursion of FindStartPosition for windows that end up to n.
Searched(file, w, n, g) ==
    \A end \in 0 .. n : g[end] = Window(file, w, end, g[Lowest(end, w)])

(* A window starts before its end.                                         *)
LEMMA LowestFacts ==
    ASSUME NEW end \in Nat, NEW w \in Positive
    PROVE  /\ Lowest(end, w) \in 0 .. end
           /\ Lowest(end, w) # 0 => Lowest(end, w) = end - w /\ Lowest(end, w) < end
           /\ end # 0 => Lowest(end, w) < end
           /\ Lowest(0, w) = 0
  BY DEF Lowest, Positive

(* The recursion over the windows has a solution.                          *)
LEMMA SearchExists ==
    ASSUME NEW file, NEW w \in Positive, NEW n \in Nat
    PROVE  \E g : Searched(file, w, n, g)
<1> DEFINE S == {m \in Nat : \E g : Searched(file, w, m, g)}
<1>1. 0 \in S
  <2> DEFINE g == [end \in {0} |-> Window(file, w, 0, 0)]
  <2>1. Lowest(0, w) = 0 /\ \A end \in 0 .. 0 : end = 0
    BY LowestFacts
  <2>2. g[0] = Window(file, w, 0, 0)
    OBVIOUS
  <2>3. Window(file, w, 0, 0) = Window(file, w, 0, g[0])
    BY <2>1, Zenon DEF Window
  <2>h. HIDE DEF g
  <2>4. Searched(file, w, 0, g)
    BY <2>1, <2>2, <2>3, Zenon DEF Searched
  <2> QED BY <2>4
<1>2. ASSUME NEW m \in Nat, m \in S PROVE m + 1 \in S
  <2>1. PICK g : Searched(file, w, m, g)
    BY <1>2
  <2> DEFINE last == Window(file, w, m + 1, g[Lowest(m + 1, w)])
             h == [end \in 0 .. m + 1 |-> IF end <= m THEN g[end] ELSE last]
  <2>2. ASSUME NEW end \in 0 .. m + 1
        PROVE  h[end] = Window(file, w, end, h[Lowest(end, w)])
    <3>1. CASE end <= m
      <4>1. Lowest(end, w) \in 0 .. m
        BY <3>1, LowestFacts
      <4>2. h[end] = g[end] /\ end \in 0 .. m
        BY <3>1
      <4>3. h[Lowest(end, w)] = g[Lowest(end, w)]
        BY <4>1
      <4>h. HIDE DEF h
      <4>4. g[end] = Window(file, w, end, g[Lowest(end, w)])
        BY <2>1, <4>2, Zenon DEF Searched
      <4> QED BY <4>2, <4>3, <4>4, Zenon
    <3>2. CASE end = m + 1
      <4>1. Lowest(end, w) \in 0 .. m
        BY <3>2, LowestFacts
      <4>2. h[end] = last
        BY <3>2
      <4>3. h[Lowest(end, w)] = g[Lowest(end, w)]
        BY <4>1
      <4>h. HIDE DEF h
      <4> QED BY <3>2, <4>2, <4>3
    <3> QED BY <3>1, <3>2
  <2>h. HIDE DEF h
  <2>3. Searched(file, w, m + 1, h)
    BY <2>2, Zenon DEF Searched
  <2> QED
    BY <2>3
<1> QED
    BY <1>1, <1>2, NatSetInduction

(* FindStartPosition gives what a solution has for the whole file.         *)
LEMMA SearchUnfold ==
    ASSUME NEW file, Len(file) \in Nat, NEW w \in Positive
    PROVE  \E g : /\ Searched(file, w, Len(file), g)
                  /\ FindStartPosition(file, w) = g[Len(file)]
<1> DEFINE n == Len(file)
           Is(f) == f = [end \in 0 .. n |->
            LET pos == IF end > w THEN end - w ELSE 0
                offset == FindStartPositionBuffer(SubSeq(file, pos + 1, end))
            IN IF offset # -1 THEN end - offset
               ELSE IF pos = 0 THEN 0 ELSE f[pos]]
           h == CHOOSE f : Is(f)
<1>1. PICK g : Searched(file, w, n, g)
    BY SearchExists
<1> DEFINE k == [end \in 0 .. n |-> g[end]]
           e == [end \in 0 .. n |-> Window(file, w, end, k[Lowest(end, w)])]
<1>2. ASSUME NEW end \in 0 .. n PROVE k[end] = e[end]
  <2>1. k[end] = Window(file, w, end, g[Lowest(end, w)])
    BY <1>1 DEF Searched
  <2>2. e[end] = Window(file, w, end, k[Lowest(end, w)])
    OBVIOUS
  <2>3. k[Lowest(end, w)] = g[Lowest(end, w)]
    BY LowestFacts
  <2> QED BY <2>1, <2>2, <2>3, Zenon
<1>3. k = e
    BY <1>2
<1>4. Is(k)
    BY <1>3, Zenon DEF Window, Lowest, ShownBy
<1>5. Is(h)
    BY <1>4, Zenon
<1>6. FindStartPosition(file, w) = h[n]
    BY Zenon DEF FindStartPosition
<1>h. HIDE DEF h
<1>7. Searched(file, w, n, h)
  <2>1. ASSUME NEW end \in 0 .. n
        PROVE  h[end] = Window(file, w, end, h[Lowest(end, w)])
    <3>1. h[end] = 
            LET pos == IF end > w THEN end - w ELSE 0
                offset == FindStartPositionBuffer(SubSeq(file, pos + 1, end))
            IN IF offset # -1 THEN end - offset
               ELSE IF pos = 0 THEN 0 ELSE h[pos]
      BY <1>5
    <3> QED BY <3>1, Zenon DEF Window, Lowest, ShownBy
  <2> QED BY <2>1, Zenon DEF Searched
<1> QED
    BY <1>6, <1>7

-----------------------------------------------------------------------------
(* Windows, and what is read together.                                     *)

(* A quotient and its remainder.                                           *)
LEMMA Quotient ==
    ASSUME NEW a \in Nat, NEW w \in Positive
    PROVE  a \div w \in Int /\ a % w \in Int /\ 0 <= a % w /\ a % w < w /\ a = ((a \div w) * w) + (a % w)
  BY SMT DEF Positive

\* A window ends after the end-th character.
Ends(file, w, end) == \E q \in Nat : Len(file) - end = q * w

(* The window before one that ends a number of windows from the end of     *)
(* the file does so too.                                                   *)
LEMMA NextWindow ==
    ASSUME NEW file, Len(file) \in Nat, NEW w \in Positive, NEW end \in 0 .. Len(file),
           Ends(file, w, end), Lowest(end, w) # 0
    PROVE  Ends(file, w, Lowest(end, w))
<1>1. PICK q \in Nat : Len(file) - end = q * w
  BY DEF Ends
<1>2. (q + 1) * w = q * w + w
  BY SMT DEF Positive
<1>3. Lowest(end, w) = end - w
  BY LowestFacts
<1>4. Len(file) - Lowest(end, w) = (q + 1) * w
  BY <1>1, <1>2, <1>3 DEF Positive
<1> QED BY <1>4 DEF Ends

(* What a window shows is read together.                                   *)
LEMMA ShownTogether ==
    ASSUME NEW file, Len(file) \in Nat, NEW w \in Positive, NEW end \in 0 .. Len(file),
           Ends(file, w, end),
           NEW i \in Lowest(end, w) + 1 .. end, NEW j \in Lowest(end, w) + 1 .. end
    PROVE  Together(file, w, i, j)
<1>1. PICK q \in Nat : Len(file) - end = q * w
  BY DEF Ends
<1>2. ASSUME NEW k \in Lowest(end, w) + 1 .. end
      PROVE  (Len(file) - k) \div w = q
  <2>1. end - k \in Nat /\ end - k < w
    BY DEF Lowest, Positive
  <2>2. Len(file) - k = q * w + (end - k)
    <3>1. Len(file) - k = (Len(file) - end) + (end - k)
      BY DEF Lowest, Positive
    <3> QED BY <3>1, <1>1
  <2> QED BY <2>1, <2>2, Division
<1> QED BY <1>2 DEF Together

(* Characters that are read together and of which one is before a window   *)
(* are both before it.                                                     *)
LEMMA TogetherBefore ==
    ASSUME NEW file, Len(file) \in Nat, NEW w \in Positive, NEW end \in 0 .. Len(file),
           Ends(file, w, end),
           NEW i \in 1 .. end, NEW j \in i .. end, Together(file, w, i, j), i <= Lowest(end, w)
    PROVE  j <= Lowest(end, w)
<1> SUFFICES ASSUME j > Lowest(end, w) PROVE FALSE
  BY DEF Lowest, Positive
<1>1. PICK q \in Nat : Len(file) - end = q * w
  BY DEF Ends
<1>2. Lowest(end, w) = end - w
  BY DEF Lowest, Positive
<1>3. (Len(file) - j) \div w = q
  <2>1. end - j \in Nat /\ end - j < w
    BY <1>2 DEF Positive
  <2>2. Len(file) - j = q * w + (end - j)
    <3>1. Len(file) - j = (Len(file) - end) + (end - j)
      OBVIOUS
    <3> QED BY <3>1, <1>1
  <2> QED BY <2>1, <2>2, Division
<1>4. (Len(file) - i) \div w = q
  BY <1>3 DEF Together
<1>5. Len(file) - i \in Nat
  OBVIOUS
<1> DEFINE d == (Len(file) - i) \div w
           m == (Len(file) - i) % w
<1>8. d \in Int /\ m \in Int /\ m < w /\ Len(file) - i = (d * w) + m
  BY <1>5, Quotient
<1>9. d = q
  BY <1>4
<1>h. HIDE DEF d, m
<1>7. q * w \in Int
  BY <1>1
<1>6. Len(file) - i < q * w + w
  BY <1>7, <1>8, <1>9 DEF Positive
<1> QED BY <1>1, <1>2, <1>6, <1>7 DEF Positive

(* A header has thirteen characters.                                       *)
LEMMA Header13 == Len(Header) = 13 /\ DOMAIN Header = 1 .. 13
  BY DEF Header

(* The characters of a window.                                             *)
LEMMA Shown ==
    ASSUME NEW file \in Seq(Character), NEW a \in 0 .. Len(file), NEW b \in a .. Len(file)
    PROVE  LET text == SubSeq(file, a + 1, b)
           IN Len(text) = b - a /\ \A k \in 1 .. b - a : text[k] = file[a + k]
<1>1. Len(file) \in Nat /\ a \in Nat /\ b \in Nat
  OBVIOUS
<1> QED BY <1>1

(* A line with a header in a window is one in the file.                    *)
LEMMA LineShown ==
    ASSUME NEW file \in Seq(Character), NEW w \in Positive, NEW end \in 0 .. Len(file),
           Ends(file, w, end), NEW s, Line(ShownBy(file, w, end), s)
    PROVE  LineWithHeader(file, w, Lowest(end, w) + s)
<1> DEFINE a == Lowest(end, w)
           text == ShownBy(file, w, end)
           n == end - a
<1>a. a \in 0 .. end /\ a \in 0 .. Len(file) /\ end \in a .. Len(file) /\ Len(file) \in Nat
      /\ end \in Nat /\ n \in Nat
  BY LowestFacts
<1>1. Len(text) = n /\ \A k \in 1 .. n : text[k] = file[a + k]
  BY <1>a, Shown, Zenon DEF ShownBy
<1>2. PICK h \in s .. n : h + 13 <= n /\ HeaderIn(text, h) /\ Clear(text, s + 1, h)
  BY <1>1 DEF Line
<1>3. s \in 1 .. n /\ text[s] \in Breaks
  BY <1>1, Zenon DEF Line
<1>h. HIDE DEF text, a
<1>4. a + s \in DOMAIN file /\ file[a + s] \in Breaks
  <2>1. a + s \in 1 .. Len(file) /\ file[a + s] = text[s]
    BY <1>a, <1>1, <1>3
  <2> QED BY <2>1, <1>3
<1>5. a + h \in a + s .. Len(file) /\ a + h + 13 <= Len(file) /\ a + h + 13 \in a + 1 .. end
      /\ a + s \in a + 1 .. end
  BY <1>a, <1>2, <1>3
<1>6. HeaderAfter(file, a + h)
  <2>1. ASSUME NEW k \in 1 .. 13 PROVE file[a + h + 14 - k] = Header[k]
    <3>1. h + 14 - k \in 1 .. n /\ a + (h + 14 - k) = a + h + 14 - k
      BY <1>a, <1>2, <1>3
    <3>2. text[h + 14 - k] = Header[k]
      BY <1>2 DEF HeaderIn
    <3> QED BY <1>1, <3>1, <3>2
  <2> QED BY <2>1, <1>5, Header13 DEF HeaderAfter
<1>7. \A i \in a + s + 1 .. a + h : file[i] \notin Breaks
  <2> TAKE i \in a + s + 1 .. a + h
  <2>1. i - a \in s + 1 .. h /\ i - a \in 1 .. n /\ a + (i - a) = i
    BY <1>a, <1>2, <1>3
  <2>2. text[i - a] \notin Breaks
    BY <1>2, <2>1 DEF Clear
  <2> QED BY <1>1, <2>1, <2>2
<1>8. Together(file, w, a + s, a + h + 13)
  BY <1>a, <1>5, ShownTogether DEF a
<1>9. LineWithHeader(file, w, a + s)
  BY <1>4, <1>5, <1>6, <1>7, <1>8, Header13, Zenon DEF LineWithHeader
<1> QED BY <1>9 DEF a

(* A record whose header is in a window is a record of the window.         *)
LEMMA RecordShown ==
    ASSUME NEW file \in Seq(Character), NEW w \in Positive, NEW end \in 0 .. Len(file),
           NEW s \in DOMAIN file, RecordStart(file, w, s), s + 13 <= end, s > Lowest(end, w)
    PROVE  Good(ShownBy(file, w, end), s - Lowest(end, w))
<1> DEFINE a == Lowest(end, w)
           text == ShownBy(file, w, end)
           n == end - a
           t == s - a
<1>a. a \in 0 .. end /\ a \in 0 .. Len(file) /\ end \in a .. Len(file) /\ Len(file) \in Nat
      /\ end \in Nat /\ n \in Nat /\ s \in 1 .. Len(file)
  <2>1. Len(file) \in Nat /\ s \in 1 .. Len(file)
    OBVIOUS
  <2>2. end \in Nat /\ a \in 0 .. end
    BY <2>1, LowestFacts
  <2> QED BY <2>1, <2>2
<1>1. Len(text) = n /\ \A k \in 1 .. n : text[k] = file[a + k]
  BY <1>a, Shown, Zenon DEF ShownBy
<1>h. HIDE DEF text, a
<1>2. PICK e \in s + 13 .. Len(file) :
        /\ \A i \in s + 13 + 1 .. e : file[i] = "d"
        /\ e = Len(file) \/ file[e + 1] \in {"x"} \cup Breaks
  BY Header13 DEF RecordStart
<1>3. t \in 1 .. n /\ t + 13 <= n /\ a + t = s
  BY <1>a DEF a
<1>i. t \in Int /\ n \in Int /\ a \in Int /\ e \in Int /\ s \in Int /\ s + 13 <= e /\ end \in Int
      /\ e <= Len(file) /\ Len(file) \in Int /\ a + n = end /\ 1 <= t
  BY <1>a, <1>2, <1>3
<1>4. text[t] \in Breaks
  BY <1>1, <1>3 DEF RecordStart
<1>j. HIDE DEF t, n
<1>5. HeaderIn(text, t)
  <2>1. ASSUME NEW k \in 1 .. 13 PROVE text[t + 14 - k] = Header[k]
    <3>1. t + 14 - k \in 1 .. n /\ a + (t + 14 - k) = s + 14 - k
      BY <1>3, <1>i
    <3>2. file[s + 14 - k] = Header[k]
      <4>1. HeaderAfter(file, s)
        BY Zenon DEF RecordStart
      <4> QED BY <4>1, Header13, Zenon DEF HeaderAfter
    <3> QED BY <1>1, <3>1, <3>2
  <2> QED BY <2>1, Zenon DEF HeaderIn
<1> DEFINE f == IF e <= end THEN e - a ELSE n
<1>6. f \in t + 13 .. n /\ a + f <= e /\ (f = n \/ a + f = e)
  BY <1>3, <1>i
<1>f. HIDE DEF f
<1>7. Digits(text, t + 14, f)
  <2>1. ASSUME NEW i \in t + 14 .. f PROVE text[i] = "d"
    <3>1. i \in 1 .. n
      BY <1>i, <1>6
    <3>2. a + i \in s + 13 + 1 .. e
      BY <1>i, <1>3, <1>6
    <3>3. text[i] = file[a + i]
      BY <1>1, <3>1, Zenon
    <3>4. file[a + i] = "d"
      BY <1>2, <3>2, Zenon
    <3> QED BY <3>3, <3>4
  <2> QED BY <2>1, Zenon DEF Digits
<1>8. f = n \/ text[f + 1] \in {"x"} \cup Breaks
  <2> SUFFICES ASSUME f # n PROVE text[f + 1] \in {"x"} \cup Breaks
    OBVIOUS
  <2>1. f + 1 \in 1 .. n /\ a + (f + 1) = e + 1 /\ e # Len(file)
    BY <1>i, <1>3, <1>6
  <2> QED BY <1>1, <1>2, <2>1
<1>9. Good(text, t)
  BY <1>1, <1>3, <1>4, <1>5, <1>6, <1>7, <1>8, Zenon DEF Good
<1> QED BY <1>9 DEF text, a, t

-----------------------------------------------------------------------------
(* Window after window (FindStartPosition), and what a behaviour answers.  *)

\* What is found from a window back is as it should be.
Found(file, w, end, r) ==
    /\ r = 0 \/ LineWithHeader(file, w, r)
    /\ r \in Int /\ 0 <= r
    /\ \A s \in DOMAIN file : RecordStart(file, w, s) /\ s + 13 <= end => s <= r

(* A window finds what it should, if the windows before it do.             *)
LEMMA WindowFinds ==
    ASSUME NEW file \in Seq(Character), NEW w \in Positive, NEW end \in 0 .. Len(file),
           Ends(file, w, end), NEW before,
           Lowest(end, w) # 0 => Found(file, w, Lowest(end, w), before)
    PROVE  Found(file, w, end, Window(file, w, end, before))
<1> DEFINE a == Lowest(end, w)
           text == ShownBy(file, w, end)
           off == FindStartPositionBuffer(text)
           n == end - a
<1>a. a \in 0 .. end /\ a \in 0 .. Len(file) /\ end \in a .. Len(file) /\ Len(file) \in Nat
      /\ end \in Nat /\ n \in Nat /\ a \in Int
  BY LowestFacts
<1>1. Len(text) = n
  BY <1>a, Shown, Zenon DEF ShownBy
<1>2. /\ off = -1 \/ \E s \in 1 .. n : off = n - s /\ Line(text, s)
      /\ \A s \in 1 .. n : Good(text, s) => off # -1 /\ n - off >= s
  <2>1. Len(text) \in Nat
    BY <1>a, <1>1
  <2> QED BY <1>1, <2>1, BufferFound, Zenon
<1>3. ASSUME NEW s \in DOMAIN file, RecordStart(file, w, s), s + 13 <= end
      PROVE  \/ off # -1 /\ s <= end - off
             \/ off = -1 /\ a # 0 /\ s + 13 <= a
             \/ s + 13 <= a /\ off # -1
  <2>1. CASE s > a
    <3>1. Good(text, s - a)
      BY <1>3, <2>1, RecordShown
    <3>2. s - a \in 1 .. n
      BY <1>a, <1>3, <2>1
    <3>h. HIDE DEF text, off, n, a
    <3>3. off # -1 /\ n - off >= s - a
      BY <1>2, <3>1, <3>2, Zenon
    <3>4. PICK s1 \in 1 .. n : off = n - s1
      BY <1>2, <3>3, Zenon
    <3>5. n - off = s1 /\ end - off = a + s1 /\ s1 \in Int
      BY <1>a, <3>4 DEF n
    <3> QED BY <1>a, <3>3, <3>5 DEF n
  <2>2. CASE s <= a
    <3>1. Together(file, w, s, s + 13) /\ s \in 1 .. end /\ s + 13 \in s .. end
      BY <1>a, <1>3, Header13 DEF RecordStart
    <3>2. s + 13 <= a
      BY <1>a, <2>2, <3>1, TogetherBefore
    <3> QED BY <1>a, <3>2
  <2> QED BY <1>a, <2>1, <2>2
<1>4. CASE off # -1
  <2>1. PICK s1 \in 1 .. n : off = n - s1 /\ Line(text, s1)
    BY <1>2, <1>4, Zenon
  <2>2. Window(file, w, end, before) = end - off
    BY <1>4, Zenon DEF Window
  <2>3. LineWithHeader(file, w, a + s1)
    BY <2>1, LineShown
  <2>h. HIDE DEF text, off
  <2>4. end - off = a + s1 /\ a + s1 \in Int /\ 0 <= a + s1 /\ a < a + s1
    BY <1>a, <2>1
  <2>5. ASSUME NEW s \in DOMAIN file, RecordStart(file, w, s), s + 13 <= end
        PROVE  s <= a + s1
    <3>1. s \in Int
      BY <1>a
    <3> HIDE DEF a, n
    <3> QED BY <1>3, <1>4, <2>4, <2>5, <3>1, <1>a
  <2> QED BY <2>2, <2>3, <2>4, <2>5, Zenon DEF Found
<1>5. CASE off = -1 /\ a = 0
  <2>1. Window(file, w, end, before) = 0
    BY <1>5, Zenon DEF Window
  <2>2. ASSUME NEW s \in DOMAIN file, RecordStart(file, w, s), s + 13 <= end
        PROVE  s <= 0
    BY <1>3, <1>5, <2>2
  <2> QED BY <2>1, <2>2 DEF Found
<1>6. CASE off = -1 /\ a # 0
  <2>1. Window(file, w, end, before) = before
    BY <1>6, Zenon DEF Window
  <2>2. Found(file, w, a, before)
    BY <1>6
  <2>3. ASSUME NEW s \in DOMAIN file, RecordStart(file, w, s), s + 13 <= end
        PROVE  s <= before
    <3>0. \A s1 \in DOMAIN file : RecordStart(file, w, s1) /\ s1 + 13 <= a => s1 <= before
      BY <2>2, Zenon DEF Found
    <3>1. s + 13 <= a
      <4>1. \/ off # -1 /\ s <= end - off
            \/ off = -1 /\ a # 0 /\ s + 13 <= a
            \/ s + 13 <= a /\ off # -1
        BY <1>3, <2>3, Zenon
      <4> HIDE DEF a, off
      <4> QED BY <4>1, <1>6
    <3> QED BY <2>3, <3>0, <3>1
  <2> QED BY <2>1, <2>2, <2>3, Zenon DEF Found
<1> QED BY <1>4, <1>5, <1>6

(* FindStartPosition finds what it should.                                 *)
LEMMA FindStartPositionFinds ==
    ASSUME NEW file \in Seq(Character), NEW w \in Positive
    PROVE  Found(file, w, Len(file), FindStartPosition(file, w))
<1>l. Len(file) \in Nat
  OBVIOUS
<1>1. PICK g : /\ Searched(file, w, Len(file), g)
               /\ FindStartPosition(file, w) = g[Len(file)]
  BY <1>l, SearchUnfold
<1> DEFINE S == {m \in Nat : \A end \in 0 .. Len(file) :
                    end <= m /\ Ends(file, w, end) => Found(file, w, end, g[end])}
<1>2. ASSUME NEW end \in 0 .. Len(file), Ends(file, w, end),
             Lowest(end, w) # 0 => Found(file, w, Lowest(end, w), g[Lowest(end, w)])
      PROVE  Found(file, w, end, g[end])
  <2>1. g[end] = Window(file, w, end, g[Lowest(end, w)])
    BY <1>1, Zenon DEF Searched
  <2> QED BY <1>2, <2>1, WindowFinds
<1>3. 0 \in S
  <2>1. ASSUME NEW end \in 0 .. Len(file), end <= 0, Ends(file, w, end)
        PROVE  Found(file, w, end, g[end])
    <3>1. end = 0 /\ Lowest(0, w) = 0
      BY <1>l, <2>1, LowestFacts
    <3> QED BY <1>2, <2>1, <3>1
  <2> QED BY <2>1
<1>4. ASSUME NEW m \in Nat, m \in S PROVE m + 1 \in S
  <2>1. ASSUME NEW end \in 0 .. Len(file), end <= m + 1, Ends(file, w, end)
        PROVE  Found(file, w, end, g[end])
    <3>1. ASSUME Lowest(end, w) # 0 PROVE Found(file, w, Lowest(end, w), g[Lowest(end, w)])
      <4>1. Lowest(end, w) \in 0 .. Len(file) /\ Lowest(end, w) <= m
        BY <1>l, <2>1, <3>1, LowestFacts
      <4>2. Ends(file, w, Lowest(end, w))
        BY <1>l, <2>1, <3>1, NextWindow
      <4> QED BY <1>4, <4>1, <4>2, Zenon
    <3> QED BY <1>2, <2>1, <3>1
  <2> QED BY <2>1
<1>5. Nat \subseteq S
  BY <1>3, <1>4, NatSetInduction
<1>6. Ends(file, w, Len(file)) /\ Len(file) \in 0 .. Len(file) /\ Len(file) <= Len(file)
  <2>1. Len(file) - Len(file) = 0 * w
    BY <1>l, SMT DEF Positive
  <2> QED BY <1>l, <2>1 DEF Ends
<1> QED BY <1>1, <1>5, <1>6, <1>l

\* A problem stays, and is answered as the code does.
Answers ==
    /\ problem \in InputProblems
    /\ answer # <<>> =>
          \/ /\ problem.kind = "start"
             /\ answer = <<FindStartPosition(problem.file, problem.window)>>
          \/ /\ problem.kind = "time"
             /\ answer = <<IsWorkingFile(FileTime(GetFileTime(LocalTime(problem.written).tm_hour), problem.calls),
                                         problem.written + problem.later)>>
          \/ /\ problem.kind = "settings"
             /\ answer = <<Read(SettingsFile(Address(problem.server, problem.port, problem.target),
                                             problem.missing, problem.mistyped))>>
          \/ /\ problem.kind = "analysis"
             /\ answer = <<RunAnalysis(problem.log)>>

(* At first nothing is answered.                                           *)
LEMMA AnswersInit == InputsInit => Answers
  BY DEF InputsInit, Answers

(* An answer is what the code computes.                                    *)
LEMMA AnswersNext == Answers /\ [InputsNext]_inputs => Answers'
<1> SUFFICES ASSUME Answers, [InputsNext]_inputs PROVE Answers'
  OBVIOUS
<1>1. CASE FindStart /\ UNCHANGED problem
  BY <1>1, Zenon DEF Answers, FindStart
<1>2. CASE WatchFile /\ UNCHANGED problem
  BY <1>2, Zenon DEF Answers, WatchFile
<1>3. CASE ReadSettings /\ UNCHANGED problem
  BY <1>3, Zenon DEF Answers, ReadSettings
<1>4. CASE Analyze /\ UNCHANGED problem
  BY <1>4, Zenon DEF Answers, Analyze
<1>5. CASE UNCHANGED inputs
  BY <1>5, Zenon DEF Answers, inputs
<1> QED BY <1>1, <1>2, <1>3, <1>4, <1>5, Zenon DEF InputsNext

(* The header of a record ends in the file.                                *)
LEMMA HeaderedLine ==
    ASSUME NEW file, NEW w, NEW s, RecordStart(file, w, s)
    PROVE  s + 13 <= Len(file)
  BY Header13 DEF RecordStart, HeaderAfter

(* Reading starts at the very beginning or at a line that has a header, and*)
(* not before a record whose header was read together with the character   *)
(* before it: for every file, also a broken one, and every size of a buffer.*)
THEOREM StartsAtARecordHolds == InputsSpec => []StartsAtARecord
<1>1. Answers => StartsAtARecord
  <2> SUFFICES ASSUME Answers, answer # <<>>, problem.kind = "start"
               PROVE  /\ answer[1] = 0 \/ LineWithHeader(problem.file, problem.window, answer[1])
                      /\ \A s \in DOMAIN problem.file :
                            RecordStart(problem.file, problem.window, s) => s <= answer[1]
    BY Zenon DEF StartsAtARecord, Answered
  <2>1. problem \in [kind : {"start"}, file : Files, window : Windows]
    BY DEF Answers, InputProblems
  <2>2. problem.file \in Seq(Character) /\ problem.window \in Positive
    BY <2>1, FilesAssumption DEF Positive
  <2>3. answer = <<FindStartPosition(problem.file, problem.window)>>
    BY DEF Answers
  <2>4. answer[1] = FindStartPosition(problem.file, problem.window)
    BY <2>3
  <2>5. Found(problem.file, problem.window, Len(problem.file), answer[1])
    BY <2>2, <2>4, FindStartPositionFinds
  <2> QED BY <2>5, HeaderedLine, Zenon DEF Found
<1> QED BY <1>1, AnswersInit, AnswersNext, PTL DEF InputsSpec

-----------------------------------------------------------------------------
(* How long a file is watched.                                             *)

(* A time is in its hour.                                                  *)
LEMMA Hours ==
    ASSUME NEW t \in Int
    PROVE  /\ t \div HourLen \in Int
           /\ (t \div HourLen) * HourLen <= t /\ t < (t \div HourLen) * HourLen + HourLen
  BY TimesAssumption, SMT

(* The hours of a mark and of the next one.                                *)
LEMMA HourMark ==
    ASSUME NEW h \in Int
    PROVE  (h * HourLen) \div HourLen = h /\ (h * HourLen + HourLen) \div HourLen = h + 1
  BY TimesAssumption, SMT

(* mktime of localtime is what it was, at a mark: file_time_ means one time*)
(* however often IsWorkingFile is called.                                  *)
LEMMA MarkStays ==
    ASSUME NEW tm, tm.tm_hour \in Int, tm.tm_isdst = FALSE
    PROVE  MkTime(LocalTime(MkTime(tm))) = MkTime(tm)
<1> DEFINE h == tm.tm_hour
           t == h * HourLen
<1>1. MkTime(tm) = t /\ t \in Int /\ HourLen \in Int
  BY TimesAssumption DEF MkTime
<1>h. HIDE DEF h
<1>2. CASE t >= Spring /\ t < Autumn
  <2>1. LocalTime(t) = [tm_hour |-> h + 1, tm_isdst |-> TRUE]
    BY <1>2, HourMark DEF LocalTime, h
  <2>2. MkTime(LocalTime(t)) = (h + 1) * HourLen - HourLen
    BY <2>1 DEF MkTime
  <2>3. (h + 1) * HourLen = h * HourLen + HourLen
    BY <1>1, SMT DEF h
  <2> QED BY <1>1, <2>2, <2>3
<1>3. CASE ~(t >= Spring /\ t < Autumn)
  <2>1. LocalTime(t) = [tm_hour |-> h, tm_isdst |-> FALSE]
    <3>1. (t + 0) \div HourLen = h
      BY <1>1, HourMark DEF h
    <3>2. LocalTime(t) = [tm_hour |-> (t + 0) \div HourLen, tm_isdst |-> FALSE]
      BY <1>3, Zenon DEF LocalTime
    <3> QED BY <3>1, <3>2
  <2>2. MkTime(LocalTime(t)) = h * HourLen - 0
    BY <2>1 DEF MkTime
  <2> QED BY <1>1, <2>2
<1> QED BY <1>2, <1>3

(* IsWorkingFile.                                                          *)
LEMMA Working ==
  ASSUME NEW tm, NEW time
  PROVE  IsWorkingFile(tm, time) <=> time - MkTime(tm) <= HourLen + Extra
  BY DEF IsWorkingFile

(* A file is watched while the server writes it and for the extra time, and*)
(* no longer than an hour on top: for every length of an hour, every extra *)
(* time and every two changes of the clock.                                *)
THEOREM WatchedWhileWrittenHolds == InputsSpec => []WatchedWhileWritten
<1>1. Answers => WatchedWhileWritten
  <2> DEFINE w == problem.written
             later == problem.later
             hour == LocalTime(w).tm_hour
             named == GetFileTime(hour)
             mark == hour * HourLen
  <2> SUFFICES ASSUME Answers, answer # <<>>, problem.kind = "time"
               PROVE  /\ later <= Extra => answer[1]
                      /\ answer[1] => later <= 2 * HourLen + Extra
    BY Zenon DEF WatchedWhileWritten, Answered
  <2>1. problem \in [kind : {"time"}, written : Moments, later : Delays, calls : {0, 1}]
    BY DEF Answers, InputProblems
  <2>0. /\ problem.written \in Moments /\ problem.later \in Delays
        /\ problem.calls \in {0, 1}
    BY <2>1
  <2>2. w \in Int /\ later \in Nat /\ problem.calls \in {0, 1} /\ HourLen \in Int /\ Extra \in Int
    <3>1. HourLen \in Int /\ Extra \in Int /\ Moments \subseteq Int /\ Delays \subseteq Nat
      BY TimesAssumption
    <3> QED BY <2>0, <3>1
  <2>3. answer[1] = IsWorkingFile(FileTime(named, problem.calls), w + later)
    <3>1. answer = <<IsWorkingFile(FileTime(named, problem.calls), w + later)>>
      BY DEF Answers
    <3> HIDE DEF w, later, named
    <3> QED BY <3>1
  <2>h. HIDE DEF w, later
  <2>4. hour \in Int /\ (mark <= w + HourLen) /\ w < mark + HourLen
    <3>1. hour = (w + HourLen) \div HourLen \/ hour = (w + 0) \div HourLen
      BY DEF LocalTime
    <3>2. w + HourLen \in Int /\ w + 0 \in Int /\ HourLen > 0
      BY <2>2, TimesAssumption
    <3> QED BY <3>1, <3>2, <2>2, Hours
  <2>h2. HIDE DEF hour
  <2>5. MkTime(FileTime(named, problem.calls)) = mark
    <3>1. named.tm_hour = hour /\ named.tm_isdst = FALSE
      BY DEF GetFileTime
    <3>2. mark \in Int
      BY <2>2, <2>4, SMT
    <3>3. MkTime(named) = mark
      BY <3>1, <3>2, <2>2 DEF MkTime
    <3> HIDE DEF named
    <3>4. MkTime(LocalTime(MkTime(named))) = MkTime(named)
      BY <2>4, <3>1, MarkStays
    <3> QED BY <3>3, <3>4, Zenon DEF FileTime
  <2>6. mark \in Int
    BY <2>2, <2>4, SMT
  <2>h3. HIDE DEF mark, named
  <2>7. answer[1] <=> (w + later) - mark <= HourLen + Extra
    <3>1. IsWorkingFile(FileTime(named, problem.calls), w + later)
             <=> (w + later) - MkTime(FileTime(named, problem.calls)) <= HourLen + Extra
      BY Working, Zenon
    <3>2. IsWorkingFile(FileTime(named, problem.calls), w + later)
             <=> (w + later) - mark <= HourLen + Extra
      BY <2>5, <3>1
    <3>3. answer[1] => (w + later) - mark <= HourLen + Extra
      BY <2>3, <3>2, Zenon
    <3>4. (w + later) - mark <= HourLen + Extra => answer[1]
      BY <2>3, <3>2, Zenon
    <3> QED BY <3>3, <3>4, Zenon
  <2>8. /\ later <= Extra => (w + later) - mark <= HourLen + Extra
        /\ (w + later) - mark <= HourLen + Extra => later <= 2 * HourLen + Extra
    BY <2>2, <2>4, <2>6
  <2> QED BY <2>7, <2>8, Zenon
<1> QED BY <1>1, AnswersInit, AnswersNext, PTL DEF InputsSpec

-----------------------------------------------------------------------------
(* Cutting texts at a sign.                                                *)

\* The first c of a text follows its n-th word.
First(s, c, n) == n + 1 \in 1 .. Len(s) /\ s[n + 1] = c /\ \A i \in 1 .. n : s[i] # c

(* The search for a sign gives the place of the first.                     *)
LEMMA FirstSelected ==
    ASSUME NEW S, NEW s \in Seq(S), NEW c, NEW n \in Nat, First(s, c, n)
    PROVE  SelectInSeq(s, LAMBDA e : e = c) = n + 1
<1> DEFINE I == {i \in 1 .. Len(s) : s[i] = c}
<1>l. Len(s) \in Nat
  OBVIOUS
<1>1. n + 1 \in I /\ n + 1 \in Int
  BY <1>l DEF First
<1>2. \A i \in I : n + 1 <= i
  <2> TAKE i \in I
  <2>1. i \in Nat /\ i >= 1 /\ s[i] = c
    BY <1>l
  <2>2. i \in 1 .. n => s[i] # c
    BY Zenon DEF First
  <2> QED BY <2>1, <2>2
<1>4. ASSUME NEW x \in I, \A y \in I : x <= y PROVE x = n + 1
  <2>1. x <= n + 1 /\ n + 1 <= x /\ x \in Int
    BY <1>1, <1>2, <1>4, <1>l
  <2> QED BY <2>1
<1>3. SelectInSeq(s, LAMBDA e : e = c) = IF I # {} THEN Min(I) ELSE 0
  BY Zenon DEF SelectInSeq
<1>h. HIDE DEF I
<1>5. Min(I) = n + 1
  BY <1>1, <1>2, <1>4, Zenon DEF Min
<1> QED BY <1>1, <1>3, <1>5, Zenon

(* What is before the first sign, and what is after it.                    *)
LEMMA UptoAndAfter ==
    ASSUME NEW S, NEW s \in Seq(S), NEW c, NEW n \in Nat, First(s, c, n)
    PROVE  /\ Upto(s, c) = SubSeq(s, 1, n) /\ Len(Upto(s, c)) = n
           /\ After(s, c) = SubSeq(s, n + 2, Len(s))
<1>1. Upto(s, c) = SubSeq(s, 1, n)
  <2>1. Upto(s, c) = SubSeq(s, 1, (n + 1) - 1)
    <3>1. SelectInSeq(s, LAMBDA e : e = c) = n + 1
      BY FirstSelected, Zenon
    <3>2. n + 1 # 0
      OBVIOUS
    <3> QED BY <3>1, <3>2, Zenon DEF Upto
  <2> QED BY <2>1
<1>2. Len(SubSeq(s, 1, n)) = n
  <2>1. n <= Len(s) /\ Len(s) \in Nat
    BY DEF First
  <2> QED BY <2>1
<1> QED BY <1>1, <1>2 DEF After

(* The parts of two texts after each other.                                *)
LEMMA Joined ==
    ASSUME NEW a \in Seq(Words), NEW b \in Seq(Words)
    PROVE  /\ a \o b \in Seq(Words) /\ Len(a \o b) = Len(a) + Len(b)
           /\ \A i \in 1 .. Len(a) : (a \o b)[i] = a[i]
           /\ \A i \in 1 .. Len(b) : (a \o b)[Len(a) + i] = b[i]
           /\ SubSeq(a \o b, 1, Len(a)) = a
           /\ SubSeq(a \o b, Len(a) + 1, Len(a \o b)) = b
<1>l. Len(a) \in Nat /\ Len(b) \in Nat
  OBVIOUS
<1>1. a \o b \in Seq(Words) /\ Len(a \o b) = Len(a) + Len(b)
  OBVIOUS
<1>2. \A i \in 1 .. Len(a) : (a \o b)[i] = a[i]
  OBVIOUS
<1>3. \A i \in 1 .. Len(b) : (a \o b)[Len(a) + i] = b[i]
  BY <1>l
<1>4. SubSeq(a \o b, 1, Len(a)) = a
  <2> DEFINE t == SubSeq(a \o b, 1, Len(a))
  <2>1. t \in Seq(Words) /\ Len(t) = Len(a) /\ \A i \in 1 .. Len(a) : t[i] = a[i]
    BY <1>l, <1>1, <1>2
  <2> HIDE DEF t
  <2> QED BY <2>1 DEF t
<1>5. SubSeq(a \o b, Len(a) + 1, Len(a \o b)) = b
  <2> DEFINE t == SubSeq(a \o b, Len(a) + 1, Len(a \o b))
  <2>1. t \in Seq(Words) /\ Len(t) = Len(b)
    BY <1>l, <1>1
  <2>2. \A i \in 1 .. Len(b) : t[i] = b[i]
    BY <1>l, <1>1, <1>3
  <2> HIDE DEF t
  <2> QED BY <2>1, <2>2
<1> QED BY <1>1, <1>2, <1>3, <1>4, <1>5

\* A text without c, then c: what is before it and after it.
\* The sign c is not in a; cutting s at c gives a and b.
Lacks(a, c) == \A i \in 1 .. Len(a) : a[i] # c
Cut(s, a, c, b) ==
    s \in Seq(Words) /\ (\E i \in DOMAIN s : s[i] = c) /\ Upto(s, c) = a /\ After(s, c) = b

(* A text without a sign, the sign, and a text: cutting at the sign gives  *)
(* the two back.                                                           *)
LEMMA CutAt ==
    ASSUME NEW a \in Seq(Words), NEW c \in Words, NEW b \in Seq(Words), Lacks(a, c)
    PROVE  Cut(a \o (<<c>> \o b), a, c, b)
<1> DEFINE t == <<c>> \o b
           s == a \o t
<1>1. t \in Seq(Words) /\ Len(t) = 1 + Len(b) /\ t[1] = c /\ \A i \in 1 .. Len(b) : t[1 + i] = b[i]
  OBVIOUS
<1>l. Len(a) \in Nat /\ Len(b) \in Nat
  OBVIOUS
<1>h. HIDE DEF t
<1>2. /\ s \in Seq(Words) /\ Len(s) = Len(a) + Len(t)
      /\ \A i \in 1 .. Len(a) : s[i] = a[i]
      /\ \A i \in 1 .. Len(t) : s[Len(a) + i] = t[i]
      /\ SubSeq(s, 1, Len(a)) = a
  <2>1. t \in Seq(Words)
    BY <1>1
  <2> QED BY <2>1, Joined
<1>h2. HIDE DEF s
<1>3. First(s, c, Len(a))
  BY <1>1, <1>2, <1>l DEF First, Lacks
<1>4. Upto(s, c) = a /\ After(s, c) = SubSeq(s, Len(a) + 2, Len(s))
  BY <1>2, <1>3, <1>l, UptoAndAfter
<1>5. SubSeq(s, Len(a) + 2, Len(s)) = b
  <2> DEFINE u == SubSeq(s, Len(a) + 2, Len(s))
  <2>1. u \in Seq(Words) /\ Len(u) = Len(b)
    BY <1>l, <1>1, <1>2
  <2>2. ASSUME NEW i \in 1 .. Len(b) PROVE u[i] = b[i]
    <3>1. u[i] = s[Len(a) + (1 + i)]
      BY <1>l, <1>1, <1>2
    <3>2. 1 + i \in 1 .. Len(t)
      BY <1>l, <1>1
    <3> QED BY <1>1, <1>2, <3>1, <3>2
  <2> HIDE DEF u
  <2>3. u = b
    BY <2>1, <2>2
  <2> QED BY <2>3 DEF u
<1>6. \E i \in DOMAIN s : s[i] = c
  <2>1. Len(a) + 1 \in DOMAIN s /\ s[Len(a) + 1] = c
    BY <1>l, <1>1, <1>2
  <2> QED BY <2>1
<1>7. Cut(s, a, c, b)
  BY <1>2, <1>4, <1>5, <1>6 DEF Cut
<1> QED BY <1>7 DEF s, t

-----------------------------------------------------------------------------
(* Addresses and settings.                                                 *)

(* The assumption on the parts of an address, spelled out.                 *)
LEMMA ServersAreTexts ==
  /\ \A s \in Servers : s \in Seq(Words) /\ \A i \in 1 .. Len(s) : s[i] \notin {"://", ":", "/"}
  /\ \A s \in Ports : s \in Seq(Words) /\ \A i \in 1 .. Len(s) : s[i] \notin {"://", ":", "/"}
  /\ \A s \in Targets : /\ s \in Seq(Words) /\ \A i \in 1 .. Len(s) : s[i] \notin {"://", ":"}
                        /\ s # <<>> /\ s[1] = "/"
  /\ "http" \in Words /\ "://" \in Words /\ ":" \in Words /\ "/" \in Words
  BY AddressAssumption

(* A target is a slash and the rest.                                       *)
LEMMA TargetBegins ==
    ASSUME NEW t \in Targets
    PROVE  t = <<"/">> \o Tail(t) /\ Tail(t) \in Seq(Words)
<1>1. t \in Seq(Words) /\ t # <<>> /\ t[1] = "/"
  BY ServersAreTexts
<1>2. Tail(t) \in Seq(Words)
  BY <1>1, HeadTailProperties
<1>3. Len(Tail(t)) = Len(t) - 1 /\ \A i \in 1 .. Len(Tail(t)) : Tail(t)[i] = t[i + 1]
  BY <1>1, HeadTailProperties
<1>4. Len(t) \in Nat /\ Len(t) >= 1
  BY <1>1
<1> DEFINE r == Tail(t)
           u == <<"/">> \o r
<1>5. "/" \in Words
  BY ServersAreTexts
<1>h. HIDE DEF r
<1>6. u \in Seq(Words) /\ Len(u) = 1 + Len(r) /\ u[1] = "/" /\ \A i \in 1 .. Len(r) : u[1 + i] = r[i]
  BY <1>2, <1>5 DEF r
<1>7. ASSUME NEW i \in 1 .. Len(t) PROVE u[i] = t[i]
  <2>1. CASE i = 1
    BY <1>1, <1>6, <2>1
  <2>2. CASE i # 1
    <3>1. i - 1 \in 1 .. Len(r) /\ 1 + (i - 1) = i /\ (i - 1) + 1 = i
      BY <1>3, <1>4, <2>2 DEF r
    <3>2. u[1 + (i - 1)] = r[i - 1]
      BY <1>6, <3>1, Zenon
    <3>3. r[i - 1] = t[(i - 1) + 1]
      BY <1>3, <3>1, Zenon DEF r
    <3> QED BY <3>1, <3>2, <3>3
  <2> QED BY <2>1, <2>2
<1>8. Len(u) = Len(t)
  BY <1>3, <1>4, <1>6 DEF r
<1>h2. HIDE DEF u
<1>9. t = u
  BY <1>1, <1>6, <1>7, <1>8
<1> QED BY <1>2, <1>9 DEF u, r

(* ParseServicePath gives back what an address was made of.                *)
LEMMA AddressReadsBack ==
    ASSUME NEW server \in Servers, NEW port \in Ports \cup {<<>>}, NEW target \in Targets
    PROVE  ParseServicePath(Address(server, port, target))
             = [server |-> server, port |-> IF port = <<>> THEN <<"80">> ELSE port,
                target |-> target]
<1> DEFINE end == IF port = <<>> THEN target ELSE <<":">> \o (port \o target)
           rest == server \o end
           path == Address(server, port, target)
<1>t. /\ server \in Seq(Words) /\ port \in Seq(Words) /\ target \in Seq(Words)
      /\ <<>> \in Seq(Words)
      /\ "://" \in Words /\ ":" \in Words /\ "/" \in Words /\ "http" \in Words /\ Tail(target) \in Seq(Words)
      /\ target = <<"/">> \o Tail(target)
  <2>0. <<>> \in Seq(Words)
    OBVIOUS
  <2>1. /\ server \in Seq(Words) /\ port \in Seq(Words) /\ target \in Seq(Words)
    <3>1. server \in Seq(Words) /\ target \in Seq(Words)
      BY ServersAreTexts, Zenon
    <3>2. port \in Ports => port \in Seq(Words)
      BY ServersAreTexts, Zenon
    <3> QED BY <2>0, <3>1, <3>2
  <2>2. /\ "://" \in Words /\ ":" \in Words /\ "/" \in Words /\ "http" \in Words
    BY ServersAreTexts
  <2> QED BY <2>1, <2>2, TargetBegins
<1>1. end \in Seq(Words) /\ rest \in Seq(Words)
  <2>1. end \in Seq(Words)
    <3>1. port \o target \in Seq(Words)
      BY <1>t, Joined
    <3> DEFINE e == port \o target
    <3> HIDE DEF e
    <3>2. <<":">> \o e \in Seq(Words)
      BY <1>t, <3>1 DEF e
    <3> QED BY <1>t, <3>2 DEF e
  <2> HIDE DEF end
  <2> QED BY <1>t, <2>1, Joined
<1>2. path = <<"http">> \o (<<"://">> \o rest)
  BY DEF Address
<1>3. /\ path \in Seq(Words) /\ \E i \in DOMAIN path : path[i] = "://"
      /\ After(path, "://") = rest
  <2> DEFINE h == <<"http">>
  <2>1. h \in Seq(Words) /\ Lacks(h, "://")
    BY <1>t DEF Lacks
  <2>2. path = h \o (<<"://">> \o rest)
    BY <1>2
  <2> HIDE DEF rest, h, path
  <2>3. Cut(path, h, "://", rest)
    BY <1>1, <1>t, <2>1, <2>2, CutAt, Zenon
  <2> QED BY <2>3, Zenon DEF Cut
<1>p. ParseServicePath(path) =
        LET tmp == After(path, "://")
            Has(s, c) == \E i \in DOMAIN s : s[i] = c
            Target(s) == SubSeq(s, Len(Upto(s, "/")) + 1, Len(s))
            none == [server |-> <<>>, port |-> <<>>, target |-> <<>>]
        IN  IF Has(tmp, ":")
            THEN LET p == After(tmp, ":")
                 IN IF Has(p, "/")
                    THEN [server |-> Upto(tmp, ":"), port |-> Upto(p, "/"), target |-> Target(p)]
                    ELSE [none EXCEPT !.server = Upto(tmp, ":")]
            ELSE IF Has(tmp, "/")
            THEN [server |-> Upto(tmp, "/"), port |-> <<"80">>, target |-> Target(tmp)]
            ELSE none
  BY <1>3, Zenon DEF ParseServicePath
<1>h. HIDE DEF path
\* The target is what is left after a text without slashes.
<1>4. ASSUME NEW a \in Seq(Words), Lacks(a, "/")
      PROVE  /\ \E i \in DOMAIN (a \o target) : (a \o target)[i] = "/"
             /\ Upto(a \o target, "/") = a
             /\ SubSeq(a \o target, Len(a) + 1, Len(a \o target)) = target
  <2>1. /\ \E i \in DOMAIN (a \o target) : (a \o target)[i] = "/"
        /\ Upto(a \o target, "/") = a
    <3> DEFINE r == Tail(target)
    <3> HIDE DEF r
    <3>1. target = <<"/">> \o r /\ r \in Seq(Words)
      BY <1>t DEF r
    <3>2. Cut(a \o target, a, "/", r)
      BY <1>4, <3>1, <1>t, CutAt, Zenon
    <3> QED BY <3>2, Zenon DEF Cut
  <2>2. SubSeq(a \o target, Len(a) + 1, Len(a \o target)) = target
    BY <1>t, Joined, Zenon
  <2> QED BY <2>1, <2>2, Zenon
<1>5. CASE port = <<>>
  <2>1. rest = server \o target
    BY <1>5, <1>t
  <2>2. ~ \E i \in DOMAIN rest : rest[i] = ":"
    <3>1. \A i \in 1 .. Len(server) : server[i] # ":"
      BY ServersAreTexts
    <3>2. \A i \in 1 .. Len(target) : target[i] # ":"
      BY ServersAreTexts
    <3>3. ASSUME NEW i \in DOMAIN rest PROVE rest[i] # ":"
      <4>1. Len(server) \in Nat /\ Len(target) \in Nat /\ DOMAIN rest = 1 .. Len(server) + Len(target)
        BY <1>t, <2>1
      <4>2. CASE i <= Len(server)
        BY <1>t, <2>1, <3>1, <4>1, <4>2
      <4>3. CASE i > Len(server)
        <5>1. i - Len(server) \in 1 .. Len(target) /\ Len(server) + (i - Len(server)) = i
          BY <4>1, <4>3
        <5>2. rest[Len(server) + (i - Len(server))] = target[i - Len(server)]
          <6>1. \A j \in 1 .. Len(target) : (server \o target)[Len(server) + j] = target[j]
            BY <1>t, Joined, Zenon
          <6> QED BY <2>1, <5>1, <6>1, Zenon
        <5> QED BY <3>2, <5>1, <5>2
      <4> QED BY <4>1, <4>2, <4>3
    <3> QED BY <3>3
  <2>3. Lacks(server, "/")
    BY ServersAreTexts DEF Lacks
  <2>4. /\ \E i \in DOMAIN rest : rest[i] = "/"
        /\ Upto(rest, "/") = server
        /\ SubSeq(rest, Len(server) + 1, Len(rest)) = target
    BY <1>4, <1>t, <2>1, <2>3, Zenon
  <2>h. HIDE DEF rest
  <2>5. ParseServicePath(path) = [server |-> server, port |-> <<"80">>, target |-> target]
    BY <1>3, <1>p, <2>2, <2>4, Zenon
  <2> QED BY <1>5, <2>5 DEF path
<1>6. CASE port # <<>>
  <2>1. rest = server \o (<<":">> \o (port \o target))
    BY <1>6
  <2>2. port \o target \in Seq(Words) /\ Lacks(server, ":")
    <3>1. Lacks(server, ":")
      BY ServersAreTexts DEF Lacks
    <3> QED BY <1>t, <3>1
  <2>3. /\ \E i \in DOMAIN rest : rest[i] = ":"
        /\ Upto(rest, ":") = server /\ After(rest, ":") = port \o target
    <3>1. Cut(rest, server, ":", port \o target)
      BY <1>t, <2>1, <2>2, CutAt, Zenon
    <3> QED BY <3>1, Zenon DEF Cut
  <2>4. Lacks(port, "/")
    BY <1>6, ServersAreTexts DEF Lacks
  <2>5. /\ \E i \in DOMAIN (port \o target) : (port \o target)[i] = "/"
        /\ Upto(port \o target, "/") = port
        /\ SubSeq(port \o target, Len(port) + 1, Len(port \o target)) = target
    BY <1>4, <1>t, <2>4, Zenon
  <2>h. HIDE DEF rest
  <2>6. ParseServicePath(path) = [server |-> server, port |-> port, target |-> target]
    BY <1>3, <1>p, <2>3, <2>5, Zenon
  <2> QED BY <1>6, <2>6 DEF path
<1> QED BY <1>5, <1>6

\* What answered tells of the settings.
TellsOf(answered, address, missing, mistyped) ==
    /\ answered.is_correct <=> missing \cup mistyped = {}
    /\ answered.is_correct => answered.path = ParseServicePath(address)

(* Read: correct just when no key is missing or of another type.           *)
LEMMA CorrectFile ==
    ASSUME NEW address, NEW missing \in SUBSET DOMAIN TypeOf, NEW mistyped \in SUBSET DOMAIN TypeOf
    PROVE  TellsOf(Read(SettingsFile(address, missing, mistyped)), address, missing, mistyped)
<1> DEFINE file == SettingsFile(address, missing, mistyped)
           K == DOMAIN TypeOf
<1>0. K = {"logs_path", "service_path", "user", "password",
           "log_storage_duration_in_hours", "duration_long_request"}
  BY DEF TypeOf
<1>1. /\ DOMAIN file = K \ missing
      /\ \A k \in K \ missing :
            file[k] = IF k \in mistyped THEN [type |-> "bool", value |-> TRUE]
                      ELSE IF k = "service_path" THEN [type |-> "string", value |-> address]
                      ELSE Template[k]
  BY DEF SettingsFile
<1>2. \A k \in K : Template[k].type = TypeOf[k] /\ TypeOf[k] # "bool"
  <2>1. \A k \in K : Template[k].type = TypeOf[k]
    BY DEF Template
  <2>2. \A k \in K : TypeOf[k] # "bool"
    BY DEF TypeOf
  <2> QED BY <2>1, <2>2
<1>3. TypeOf["service_path"] = "string"
  BY DEF TypeOf
<1>h. HIDE DEF file, K
<1>4. ASSUME NEW k \in K
      PROVE  ReadValue(file, k) <=> k \notin missing \cup mistyped
  <2>1. CASE k \in missing
    BY <1>1, <2>1 DEF ReadValue
  <2>2. CASE k \notin missing /\ k \in mistyped
    <3>1. file[k].type = "bool"
      BY <1>1, <2>2
    <3> QED BY <1>1, <1>2, <2>2, <3>1 DEF ReadValue
  <2>3. CASE k \notin missing /\ k \notin mistyped
    <3>1. file[k].type = TypeOf[k]
      BY <1>1, <1>2, <1>3, <2>3
    <3> QED BY <1>1, <2>3, <3>1 DEF ReadValue
  <2> QED BY <2>1, <2>2, <2>3
<1>5. (\A k \in K : ReadValue(file, k)) <=> missing \cup mistyped = {}
  <2>1. missing \subseteq K /\ mistyped \subseteq K
    BY DEF K
  <2> QED BY <1>4, <2>1
<1>6. Read(file) = [is_correct |-> \A k \in K : ReadValue(file, k),
                    path |-> IF \A k \in K : ReadValue(file, k)
                             THEN ParseServicePath(file.service_path.value) ELSE <<>>]
  BY Zenon DEF Read, K
<1>7. ASSUME missing \cup mistyped = {}
      PROVE  file.service_path.value = address
  <2>1. "service_path" \in K \ missing /\ "service_path" \notin mistyped
    BY <1>0, <1>7
  <2>2. file["service_path"] = [type |-> "string", value |-> address]
    BY <1>1, <2>1
  <2> QED BY <2>2
<1> DEFINE ok == \A k \in K : ReadValue(file, k)
<1>h2. HIDE DEF ok
<1>8. /\ Read(file).is_correct <=> ok
      /\ ok => Read(file).path = ParseServicePath(file.service_path.value)
  <2>1. Read(file) = [is_correct |-> ok,
                      path |-> IF ok THEN ParseServicePath(file.service_path.value) ELSE <<>>]
    BY <1>6, Zenon DEF ok
  <2>2. Read(file).is_correct = ok
    BY <2>1
  <2>3. ok => Read(file).path = ParseServicePath(file.service_path.value)
    BY <2>1
  <2> QED BY <2>2, <2>3, Zenon
<1>9. ok <=> missing \cup mistyped = {}
  BY <1>5, Zenon DEF ok
<1>10. /\ Read(file).is_correct <=> missing \cup mistyped = {}
       /\ Read(file).is_correct => Read(file).path = ParseServicePath(address)
  BY <1>7, <1>8, <1>9, Zenon
<1> QED BY <1>10 DEF file, TellsOf

(* Settings are correct just when no key is missing or of another type; the*)
(* address then says what it was made of, and 80 for a missing port: for   *)
(* every server, port and target without the signs of an address.          *)
THEOREM SettingsReadBackHolds == InputsSpec => []SettingsReadBack
<1>1. Answers => SettingsReadBack
  <2> DEFINE read == Read(SettingsFile(Address(problem.server, problem.port, problem.target),
                                       problem.missing, problem.mistyped))
  <2> SUFFICES ASSUME Answers, answer # <<>>, problem.kind = "settings"
               PROVE  /\ answer[1].is_correct <=> problem.missing \cup problem.mistyped = {}
                      /\ answer[1].is_correct =>
                            answer[1].path = [server |-> problem.server,
                                 port |-> IF problem.port = <<>> THEN <<"80">> ELSE problem.port,
                                 target |-> problem.target]
    BY Zenon DEF SettingsReadBack, Answered
  <2>1. problem \in [kind : {"settings"}, server : Servers, port : Ports \cup {<<>>}, target : Targets,
          missing : SUBSET DOMAIN TypeOf, mistyped : SUBSET DOMAIN TypeOf]
    BY DEF Answers, InputProblems
  <2>2. /\ problem.server \in Servers /\ problem.port \in Ports \cup {<<>>}
        /\ problem.target \in Targets
        /\ problem.missing \in SUBSET DOMAIN TypeOf /\ problem.mistyped \in SUBSET DOMAIN TypeOf
    BY <2>1
  <2>3. answer = <<read>>
    BY DEF Answers
  <2>4. answer[1] = read
    <3> HIDE DEF read
    <3> QED BY <2>3
  <2>5. /\ read.is_correct <=> problem.missing \cup problem.mistyped = {}
        /\ read.is_correct =>
              read.path = ParseServicePath(Address(problem.server, problem.port, problem.target))
    <3>1. TellsOf(read, Address(problem.server, problem.port, problem.target),
                  problem.missing, problem.mistyped)
      BY <2>2, CorrectFile, Zenon
    <3> HIDE DEF read
    <3> QED BY <3>1, Zenon DEF TellsOf
  <2>6. ParseServicePath(Address(problem.server, problem.port, problem.target))
          = [server |-> problem.server,
             port |-> IF problem.port = <<>> THEN <<"80">> ELSE problem.port,
             target |-> problem.target]
    BY <2>2, AddressReadsBack, Zenon
  <2>h. HIDE DEF read
  <2> QED BY <2>4, <2>5, <2>6, Zenon
<1> QED BY <1>1, AnswersInit, AnswersNext, PTL DEF InputsSpec

-----------------------------------------------------------------------------
(* What an aggregator knows, by its keys, and its values.                  *)

\* k is a tuple of d keys.
IsKeys(k, d) == k = [i \in 1 .. d |-> k[i]]

Same(p, k) == p = k

(* The keys after the first.                                               *)
LEMMA TailOfKeys ==
    ASSUME NEW d \in Nat, NEW e, e = d + 1, NEW k, IsKeys(k, e)
    PROVE  Tail(k) = [i \in 1 .. d |-> k[i + 1]]
<1> DEFINE S == {k[i] : i \in 1 .. e}
<1>1. k \in [1 .. e -> S]
  BY DEF IsKeys
<1>h. HIDE DEF S
<1>2. k \in Seq(S) /\ Len(k) = e
  BY <1>1
<1>3. Len(Tail(k)) = d /\ Tail(k) \in Seq(S)
  BY <1>2
<1>4. \A i \in 1 .. d : Tail(k)[i] = k[i + 1]
  BY <1>2
<1> DEFINE t == Tail(k)
<1>5. t \in Seq(S) /\ Len(t) = d
  BY <1>3
<1>6. \A i \in 1 .. d : t[i] = k[i + 1]
  BY <1>4
<1> HIDE DEF t
<1>7. t = [i \in 1 .. d |-> t[i]]
  BY <1>5
<1>8. t = [i \in 1 .. d |-> k[i + 1]]
  BY <1>6, <1>7
<1> QED BY <1>8 DEF t

(* The first key and the others.                                           *)
LEMMA KeysSplit ==
    ASSUME NEW d \in Nat, NEW e, e = d + 1, NEW k, NEW p, IsKeys(k, e), IsKeys(p, e)
    PROVE  /\ IsKeys(Tail(k), d)
           /\ p[1] = k[1] /\ Tail(p) = Tail(k) => Same(p, k)
<1>2. Tail(k) = [i \in 1 .. d |-> k[i + 1]] /\ Tail(p) = [i \in 1 .. d |-> p[i + 1]]
  BY TailOfKeys
<1>3. IsKeys(Tail(k), d)
  BY <1>2 DEF IsKeys
<1>4. ASSUME p[1] = k[1], Tail(p) = Tail(k), NEW i \in 1 .. d + 1 PROVE p[i] = k[i]
  <2>1. CASE i = 1
    BY <2>1, <1>4
  <2>2. CASE i # 1
    <3>1. i - 1 \in 1 .. d /\ (i - 1) + 1 = i
      BY <2>2
    <3>2. Tail(p)[i - 1] = p[i] /\ Tail(k)[i - 1] = k[i]
      BY <1>2, <3>1
    <3> QED BY <3>2, <1>4
  <2> QED BY <2>1, <2>2
<1>5. ASSUME \A i \in 1 .. d + 1 : p[i] = k[i] PROVE p = k
  BY <1>5 DEF IsKeys
<1>6. ASSUME p[1] = k[1], Tail(p) = Tail(k) PROVE p = k
  BY <1>4, <1>5, <1>6
<1> QED BY <1>3, <1>6 DEF Same

IsJoined(p, e, t, q) == IsKeys(p, e) /\ p[1] = t /\ Tail(p) = q

(* A key before others.                                                    *)
LEMMA KeysJoin ==
    ASSUME NEW d \in Nat, NEW e, e = d + 1, NEW t, NEW q, IsKeys(q, d)
    PROVE  \E p : IsJoined(p, e, t, q)
<1> DEFINE p == [i \in 1 .. d + 1 |-> IF i = 1 THEN t ELSE q[i - 1]]
<1>1. IsKeys(p, d + 1) /\ p[1] = t
  BY DEF IsKeys
<1>2. Tail(p) = [i \in 1 .. d |-> p[i + 1]]
  <2> HIDE DEF p
  <2> QED BY <1>1, TailOfKeys
<1>3. ASSUME NEW i \in 1 .. d PROVE p[i + 1] = q[i]
  <2>1. i + 1 \in 1 .. d + 1 /\ i + 1 # 1 /\ (i + 1) - 1 = i
    OBVIOUS
  <2> QED BY <2>1
<1>4. Tail(p) = [i \in 1 .. d |-> q[i]]
  <2> HIDE DEF p
  <2> QED BY <1>2, <1>3
<1>5. Tail(p) = q
  <2> HIDE DEF p
  <2> QED BY <1>4 DEF IsKeys
<1> HIDE DEF p
<1> QED BY <1>1, <1>5 DEF IsJoined

Known1(agg, k) == k[1] \in DOMAIN agg.data
Known2(agg, k) == k[1] \in DOMAIN agg.data /\ Known1(agg.data[k[1]], Tail(k))
Known3(agg, k) == k[1] \in DOMAIN agg.data /\ Known2(agg.data[k[1]], Tail(k))
Known4(agg, k) == k[1] \in DOMAIN agg.data /\ Known3(agg.data[k[1]], Tail(k))
Known5(agg, k) == k[1] \in DOMAIN agg.data /\ Known4(agg.data[k[1]], Tail(k))

Value1(agg, k) == agg.data[k[1]]
Value2(agg, k) == Value1(agg.data[k[1]], Tail(k))
Value3(agg, k) == Value2(agg.data[k[1]], Tail(k))
Value4(agg, k) == Value3(agg.data[k[1]], Tail(k))
Value5(agg, k) == Value4(agg.data[k[1]], Tail(k))

(* An aggregator without data knows nothing.                               *)
LEMMA NothingKnown ==
    ASSUME NEW k
    PROVE  /\ ~Known1(EventAggregator, k) /\ ~Known2(EventAggregator, k)
           /\ ~Known3(EventAggregator, k) /\ ~Known4(EventAggregator, k)
           /\ ~Known5(EventAggregator, k)
<1>1. DOMAIN EventAggregator.data = {}
  BY DEF EventAggregator
<1> QED BY <1>1, Zenon DEF Known1, Known2, Known3, Known4, Known5

(* What there is for a key after With.                                     *)
LEMMA WithFacts ==
    ASSUME NEW agg, NEW t, NEW new, NEW x
    PROVE  /\ x \in DOMAIN With(agg, t, new).data <=> x = t \/ x \in DOMAIN agg.data
           /\ With(agg, t, new).data[t] = new
           /\ x # t /\ x \in DOMAIN agg.data => With(agg, t, new).data[x] = agg.data[x]
  BY DEF With

\* What keys have after values have been added to them.
Sum(known, old, values) == Plus(IF known THEN old ELSE Zero(values), values)

(* Values are added to one key.                                            *)
LEMMA Add1Facts ==
    ASSUME NEW agg, NEW v, NEW k, NEW p, IsKeys(k, 1), IsKeys(p, 1)
    PROVE  /\ Known1(AddLast(agg, v, k), p) <=> p = k \/ Known1(agg, p)
           /\ Value1(AddLast(agg, v, k), k) = Sum(Known1(agg, k), Value1(agg, k), v)
           /\ p # k /\ Known1(agg, p) => Value1(AddLast(agg, v, k), p) = Value1(agg, p)
<1> DEFINE new == Sum(Known1(agg, k), Value1(agg, k), v)
<1>1. AddLast(agg, v, k) = With(agg, k[1], new)
  BY DEF AddLast, Sum, Known1, Value1
<1>h. HIDE DEF new
<1>2. p = k <=> p[1] = k[1]
  BY DEF IsKeys
<1>3. Known1(AddLast(agg, v, k), p) <=> p = k \/ Known1(agg, p)
  BY <1>1, <1>2, SMT DEF Known1, With
<1>4. Value1(AddLast(agg, v, k), k) = new
  BY <1>1, SMT DEF Value1, With
<1>5. p # k /\ Known1(agg, p) => Value1(AddLast(agg, v, k), p) = Value1(agg, p)
  BY <1>1, <1>2, SMT DEF Known1, Value1, With
<1> QED BY <1>3, <1>4, <1>5, Zenon DEF new

(* ... to two keys.                                                         *)
LEMMA Add2Facts ==
    ASSUME NEW agg, NEW v, NEW k, NEW p, IsKeys(k, 2), IsKeys(p, 2)
    PROVE  /\ Known2(Add2(agg, v, k), p) <=> p = k \/ Known2(agg, p)
           /\ Value2(Add2(agg, v, k), k) = Sum(Known2(agg, k), Value2(agg, k), v)
           /\ p # k /\ Known2(agg, p) => Value2(Add2(agg, v, k), p) = Value2(agg, p)
<1> DEFINE a == k[1]
           in == At(agg, a)
           new == AddLast(in, v, Tail(k))
<1>1. Add2(agg, v, k) = With(agg, a, new)
  BY DEF Add2, Add
<1>0. 1 \in Nat /\ 2 = 1 + 1
  OBVIOUS
<1>2. p = k <=> p[1] = a /\ Tail(p) = Tail(k)
  <2>1. p[1] = k[1] /\ Tail(p) = Tail(k) => Same(p, k)
    BY <1>0, KeysSplit, Zenon
  <2> QED BY <2>1 DEF Same
<1>3. IsKeys(Tail(k), 1) /\ IsKeys(Tail(p), 1)
  BY <1>0, KeysSplit, Zenon
<1>5. /\ a \in DOMAIN agg.data => in = agg.data[a]
      /\ a \notin DOMAIN agg.data => in = EventAggregator
  BY DEF At
<1>h. HIDE DEF in, a
<1>4. /\ Known1(new, Tail(p)) <=> Tail(p) = Tail(k) \/ Known1(in, Tail(p))
      /\ Value1(new, Tail(k)) = Sum(Known1(in, Tail(k)), Value1(in, Tail(k)), v)
      /\ Tail(p) # Tail(k) /\ Known1(in, Tail(p)) => Value1(new, Tail(p)) = Value1(in, Tail(p))
  <2>1. Known1(new, Tail(p)) <=> Tail(p) = Tail(k) \/ Known1(in, Tail(p))
    BY <1>3, Add1Facts, Zenon
  <2>2. Value1(new, Tail(k)) = Sum(Known1(in, Tail(k)), Value1(in, Tail(k)), v)
    BY <1>3, Add1Facts, Zenon
  <2>3. Tail(p) # Tail(k) /\ Known1(in, Tail(p)) => Value1(new, Tail(p)) = Value1(in, Tail(p))
    BY <1>3, Add1Facts, Zenon
  <2> QED BY <2>1, <2>2, <2>3
<1>h2. HIDE DEF new
<1>6. /\ With(agg, a, new).data[a] = new
      /\ p[1] \in DOMAIN With(agg, a, new).data <=> p[1] = a \/ p[1] \in DOMAIN agg.data
      /\ p[1] # a /\ p[1] \in DOMAIN agg.data
             => With(agg, a, new).data[p[1]] = agg.data[p[1]]
  <2>1. With(agg, a, new).data[a] = new
    BY SMT DEF With
  <2>2. p[1] \in DOMAIN With(agg, a, new).data <=> p[1] = a \/ p[1] \in DOMAIN agg.data
    BY WithFacts, Zenon
  <2>3. p[1] # a /\ p[1] \in DOMAIN agg.data
            => With(agg, a, new).data[p[1]] = agg.data[p[1]]
    BY SMT DEF With
  <2> QED BY <2>1, <2>2, <2>3
<1>7. /\ ~Known1(EventAggregator, Tail(p)) /\ ~Known1(EventAggregator, Tail(k))
  BY NothingKnown, Zenon
<1>8. Known2(Add2(agg, v, k), p) <=> p = k \/ Known2(agg, p)
  BY <1>1, <1>2, <1>4, <1>5, <1>6, <1>7, Zenon DEF Known2
<1>9. Value2(Add2(agg, v, k), k) = Sum(Known2(agg, k), Value2(agg, k), v)
  <2>1. Value2(Add2(agg, v, k), k) = Value1(new, Tail(k))
    BY <1>1, <1>6, Zenon DEF Value2, a
  <2>2. CASE a \in DOMAIN agg.data
    <3>1. Known2(agg, k) <=> Known1(in, Tail(k))
      BY <2>2, <1>5, Zenon DEF Known2, a
    <3>2. Value2(agg, k) = Value1(in, Tail(k))
      BY <2>2, <1>5, Zenon DEF Value2, a
    <3> QED BY <1>4, <2>1, <3>1, <3>2, Zenon DEF Sum
  <2>3. CASE a \notin DOMAIN agg.data
    <3>1. ~Known2(agg, k) /\ ~Known1(in, Tail(k))
      BY <2>3, <1>5, <1>7, Zenon DEF Known2, a
    <3> QED BY <1>4, <2>1, <3>1, Zenon DEF Sum
  <2> QED BY <2>2, <2>3
<1>10. ASSUME p # k, Known2(agg, p) PROVE Value2(Add2(agg, v, k), p) = Value2(agg, p)
  <2>0. p[1] \in DOMAIN agg.data /\ Known1(agg.data[p[1]], Tail(p))
    BY <1>10, Zenon DEF Known2
  <2>1. CASE p[1] = a
    <3>1. Tail(p) # Tail(k) /\ in = agg.data[p[1]] /\ With(agg, a, new).data[p[1]] = new
      BY <1>10, <1>2, <1>5, <1>6, <2>0, <2>1, Zenon
    <3>2. Value1(new, Tail(p)) = Value1(agg.data[p[1]], Tail(p))
      BY <1>4, <2>0, <3>1, Zenon
    <3> QED BY <1>1, <3>1, <3>2, Zenon DEF Value2
  <2>2. CASE p[1] # a
    BY <1>1, <1>6, <2>0, <2>2, Zenon DEF Value2
  <2> QED BY <2>1, <2>2
<1> QED BY <1>8, <1>9, <1>10, Zenon

(* ... to three keys.                                                       *)
LEMMA Add3Facts ==
    ASSUME NEW agg, NEW v, NEW k, NEW p, IsKeys(k, 3), IsKeys(p, 3)
    PROVE  /\ Known3(Add3(agg, v, k), p) <=> p = k \/ Known3(agg, p)
           /\ Value3(Add3(agg, v, k), k) = Sum(Known3(agg, k), Value3(agg, k), v)
           /\ p # k /\ Known3(agg, p) => Value3(Add3(agg, v, k), p) = Value3(agg, p)
<1> DEFINE a == k[1]
           in == At(agg, a)
           new == Add2(in, v, Tail(k))
<1>1. Add3(agg, v, k) = With(agg, a, new)
  BY DEF Add3, Add
<1>0. 2 \in Nat /\ 3 = 2 + 1
  OBVIOUS
<1>2. p = k <=> p[1] = a /\ Tail(p) = Tail(k)
  <2>1. p[1] = k[1] /\ Tail(p) = Tail(k) => Same(p, k)
    BY <1>0, KeysSplit, Zenon
  <2> QED BY <2>1 DEF Same
<1>3. IsKeys(Tail(k), 2) /\ IsKeys(Tail(p), 2)
  BY <1>0, KeysSplit, Zenon
<1>5. /\ a \in DOMAIN agg.data => in = agg.data[a]
      /\ a \notin DOMAIN agg.data => in = EventAggregator
  BY DEF At
<1>h. HIDE DEF in, a
<1>4. /\ Known2(new, Tail(p)) <=> Tail(p) = Tail(k) \/ Known2(in, Tail(p))
      /\ Value2(new, Tail(k)) = Sum(Known2(in, Tail(k)), Value2(in, Tail(k)), v)
      /\ Tail(p) # Tail(k) /\ Known2(in, Tail(p)) => Value2(new, Tail(p)) = Value2(in, Tail(p))
  <2>1. Known2(new, Tail(p)) <=> Tail(p) = Tail(k) \/ Known2(in, Tail(p))
    BY <1>3, Add2Facts, Zenon
  <2>2. Value2(new, Tail(k)) = Sum(Known2(in, Tail(k)), Value2(in, Tail(k)), v)
    BY <1>3, Add2Facts, Zenon
  <2>3. Tail(p) # Tail(k) /\ Known2(in, Tail(p)) => Value2(new, Tail(p)) = Value2(in, Tail(p))
    BY <1>3, Add2Facts, Zenon
  <2> QED BY <2>1, <2>2, <2>3
<1>h2. HIDE DEF new
<1>6. /\ With(agg, a, new).data[a] = new
      /\ p[1] \in DOMAIN With(agg, a, new).data <=> p[1] = a \/ p[1] \in DOMAIN agg.data
      /\ p[1] # a /\ p[1] \in DOMAIN agg.data
             => With(agg, a, new).data[p[1]] = agg.data[p[1]]
  <2>1. With(agg, a, new).data[a] = new
    BY SMT DEF With
  <2>2. p[1] \in DOMAIN With(agg, a, new).data <=> p[1] = a \/ p[1] \in DOMAIN agg.data
    BY WithFacts, Zenon
  <2>3. p[1] # a /\ p[1] \in DOMAIN agg.data
            => With(agg, a, new).data[p[1]] = agg.data[p[1]]
    BY SMT DEF With
  <2> QED BY <2>1, <2>2, <2>3
<1>7. /\ ~Known2(EventAggregator, Tail(p)) /\ ~Known2(EventAggregator, Tail(k))
  BY NothingKnown, Zenon
<1>8. Known3(Add3(agg, v, k), p) <=> p = k \/ Known3(agg, p)
  BY <1>1, <1>2, <1>4, <1>5, <1>6, <1>7, Zenon DEF Known3
<1>9. Value3(Add3(agg, v, k), k) = Sum(Known3(agg, k), Value3(agg, k), v)
  <2>1. Value3(Add3(agg, v, k), k) = Value2(new, Tail(k))
    BY <1>1, <1>6, Zenon DEF Value3, a
  <2>2. CASE a \in DOMAIN agg.data
    <3>1. Known3(agg, k) <=> Known2(in, Tail(k))
      BY <2>2, <1>5, Zenon DEF Known3, a
    <3>2. Value3(agg, k) = Value2(in, Tail(k))
      BY <2>2, <1>5, Zenon DEF Value3, a
    <3> QED BY <1>4, <2>1, <3>1, <3>2, Zenon DEF Sum
  <2>3. CASE a \notin DOMAIN agg.data
    <3>1. ~Known3(agg, k) /\ ~Known2(in, Tail(k))
      BY <2>3, <1>5, <1>7, Zenon DEF Known3, a
    <3> QED BY <1>4, <2>1, <3>1, Zenon DEF Sum
  <2> QED BY <2>2, <2>3
<1>10. ASSUME p # k, Known3(agg, p) PROVE Value3(Add3(agg, v, k), p) = Value3(agg, p)
  <2>0. p[1] \in DOMAIN agg.data /\ Known2(agg.data[p[1]], Tail(p))
    BY <1>10, Zenon DEF Known3
  <2>1. CASE p[1] = a
    <3>1. Tail(p) # Tail(k) /\ in = agg.data[p[1]] /\ With(agg, a, new).data[p[1]] = new
      BY <1>10, <1>2, <1>5, <1>6, <2>0, <2>1, Zenon
    <3>2. Value2(new, Tail(p)) = Value2(agg.data[p[1]], Tail(p))
      BY <1>4, <2>0, <3>1, Zenon
    <3> QED BY <1>1, <3>1, <3>2, Zenon DEF Value3
  <2>2. CASE p[1] # a
    BY <1>1, <1>6, <2>0, <2>2, Zenon DEF Value3
  <2> QED BY <2>1, <2>2
<1> QED BY <1>8, <1>9, <1>10, Zenon

(* ... to four keys.                                                        *)
LEMMA Add4Facts ==
    ASSUME NEW agg, NEW v, NEW k, NEW p, IsKeys(k, 4), IsKeys(p, 4)
    PROVE  /\ Known4(Add4(agg, v, k), p) <=> p = k \/ Known4(agg, p)
           /\ Value4(Add4(agg, v, k), k) = Sum(Known4(agg, k), Value4(agg, k), v)
           /\ p # k /\ Known4(agg, p) => Value4(Add4(agg, v, k), p) = Value4(agg, p)
<1> DEFINE a == k[1]
           in == At(agg, a)
           new == Add3(in, v, Tail(k))
<1>1. Add4(agg, v, k) = With(agg, a, new)
  BY DEF Add4, Add
<1>0. 3 \in Nat /\ 4 = 3 + 1
  OBVIOUS
<1>2. p = k <=> p[1] = a /\ Tail(p) = Tail(k)
  <2>1. p[1] = k[1] /\ Tail(p) = Tail(k) => Same(p, k)
    BY <1>0, KeysSplit, Zenon
  <2> QED BY <2>1 DEF Same
<1>3. IsKeys(Tail(k), 3) /\ IsKeys(Tail(p), 3)
  BY <1>0, KeysSplit, Zenon
<1>5. /\ a \in DOMAIN agg.data => in = agg.data[a]
      /\ a \notin DOMAIN agg.data => in = EventAggregator
  BY DEF At
<1>h. HIDE DEF in, a
<1>4. /\ Known3(new, Tail(p)) <=> Tail(p) = Tail(k) \/ Known3(in, Tail(p))
      /\ Value3(new, Tail(k)) = Sum(Known3(in, Tail(k)), Value3(in, Tail(k)), v)
      /\ Tail(p) # Tail(k) /\ Known3(in, Tail(p)) => Value3(new, Tail(p)) = Value3(in, Tail(p))
  <2>1. Known3(new, Tail(p)) <=> Tail(p) = Tail(k) \/ Known3(in, Tail(p))
    BY <1>3, Add3Facts, Zenon
  <2>2. Value3(new, Tail(k)) = Sum(Known3(in, Tail(k)), Value3(in, Tail(k)), v)
    BY <1>3, Add3Facts, Zenon
  <2>3. Tail(p) # Tail(k) /\ Known3(in, Tail(p)) => Value3(new, Tail(p)) = Value3(in, Tail(p))
    BY <1>3, Add3Facts, Zenon
  <2> QED BY <2>1, <2>2, <2>3
<1>h2. HIDE DEF new
<1>6. /\ With(agg, a, new).data[a] = new
      /\ p[1] \in DOMAIN With(agg, a, new).data <=> p[1] = a \/ p[1] \in DOMAIN agg.data
      /\ p[1] # a /\ p[1] \in DOMAIN agg.data
             => With(agg, a, new).data[p[1]] = agg.data[p[1]]
  <2>1. With(agg, a, new).data[a] = new
    BY SMT DEF With
  <2>2. p[1] \in DOMAIN With(agg, a, new).data <=> p[1] = a \/ p[1] \in DOMAIN agg.data
    BY WithFacts, Zenon
  <2>3. p[1] # a /\ p[1] \in DOMAIN agg.data
            => With(agg, a, new).data[p[1]] = agg.data[p[1]]
    BY SMT DEF With
  <2> QED BY <2>1, <2>2, <2>3
<1>7. /\ ~Known3(EventAggregator, Tail(p)) /\ ~Known3(EventAggregator, Tail(k))
  BY NothingKnown, Zenon
<1>8. Known4(Add4(agg, v, k), p) <=> p = k \/ Known4(agg, p)
  BY <1>1, <1>2, <1>4, <1>5, <1>6, <1>7, Zenon DEF Known4
<1>9. Value4(Add4(agg, v, k), k) = Sum(Known4(agg, k), Value4(agg, k), v)
  <2>1. Value4(Add4(agg, v, k), k) = Value3(new, Tail(k))
    BY <1>1, <1>6, Zenon DEF Value4, a
  <2>2. CASE a \in DOMAIN agg.data
    <3>1. Known4(agg, k) <=> Known3(in, Tail(k))
      BY <2>2, <1>5, Zenon DEF Known4, a
    <3>2. Value4(agg, k) = Value3(in, Tail(k))
      BY <2>2, <1>5, Zenon DEF Value4, a
    <3> QED BY <1>4, <2>1, <3>1, <3>2, Zenon DEF Sum
  <2>3. CASE a \notin DOMAIN agg.data
    <3>1. ~Known4(agg, k) /\ ~Known3(in, Tail(k))
      BY <2>3, <1>5, <1>7, Zenon DEF Known4, a
    <3> QED BY <1>4, <2>1, <3>1, Zenon DEF Sum
  <2> QED BY <2>2, <2>3
<1>10. ASSUME p # k, Known4(agg, p) PROVE Value4(Add4(agg, v, k), p) = Value4(agg, p)
  <2>0. p[1] \in DOMAIN agg.data /\ Known3(agg.data[p[1]], Tail(p))
    BY <1>10, Zenon DEF Known4
  <2>1. CASE p[1] = a
    <3>1. Tail(p) # Tail(k) /\ in = agg.data[p[1]] /\ With(agg, a, new).data[p[1]] = new
      BY <1>10, <1>2, <1>5, <1>6, <2>0, <2>1, Zenon
    <3>2. Value3(new, Tail(p)) = Value3(agg.data[p[1]], Tail(p))
      BY <1>4, <2>0, <3>1, Zenon
    <3> QED BY <1>1, <3>1, <3>2, Zenon DEF Value4
  <2>2. CASE p[1] # a
    BY <1>1, <1>6, <2>0, <2>2, Zenon DEF Value4
  <2> QED BY <2>1, <2>2
<1> QED BY <1>8, <1>9, <1>10, Zenon

(* ... to five keys.                                                        *)
LEMMA Add5Facts ==
    ASSUME NEW agg, NEW v, NEW k, NEW p, IsKeys(k, 5), IsKeys(p, 5)
    PROVE  /\ Known5(Add5(agg, v, k), p) <=> p = k \/ Known5(agg, p)
           /\ Value5(Add5(agg, v, k), k) = Sum(Known5(agg, k), Value5(agg, k), v)
           /\ p # k /\ Known5(agg, p) => Value5(Add5(agg, v, k), p) = Value5(agg, p)
<1> DEFINE a == k[1]
           in == At(agg, a)
           new == Add4(in, v, Tail(k))
<1>1. Add5(agg, v, k) = With(agg, a, new)
  BY DEF Add5, Add
<1>0. 4 \in Nat /\ 5 = 4 + 1
  OBVIOUS
<1>2. p = k <=> p[1] = a /\ Tail(p) = Tail(k)
  <2>1. p[1] = k[1] /\ Tail(p) = Tail(k) => Same(p, k)
    BY <1>0, KeysSplit, Zenon
  <2> QED BY <2>1 DEF Same
<1>3. IsKeys(Tail(k), 4) /\ IsKeys(Tail(p), 4)
  BY <1>0, KeysSplit, Zenon
<1>5. /\ a \in DOMAIN agg.data => in = agg.data[a]
      /\ a \notin DOMAIN agg.data => in = EventAggregator
  BY DEF At
<1>h. HIDE DEF in, a
<1>4. /\ Known4(new, Tail(p)) <=> Tail(p) = Tail(k) \/ Known4(in, Tail(p))
      /\ Value4(new, Tail(k)) = Sum(Known4(in, Tail(k)), Value4(in, Tail(k)), v)
      /\ Tail(p) # Tail(k) /\ Known4(in, Tail(p)) => Value4(new, Tail(p)) = Value4(in, Tail(p))
  <2>1. Known4(new, Tail(p)) <=> Tail(p) = Tail(k) \/ Known4(in, Tail(p))
    BY <1>3, Add4Facts, Zenon
  <2>2. Value4(new, Tail(k)) = Sum(Known4(in, Tail(k)), Value4(in, Tail(k)), v)
    BY <1>3, Add4Facts, Zenon
  <2>3. Tail(p) # Tail(k) /\ Known4(in, Tail(p)) => Value4(new, Tail(p)) = Value4(in, Tail(p))
    BY <1>3, Add4Facts, Zenon
  <2> QED BY <2>1, <2>2, <2>3
<1>h2. HIDE DEF new
<1>6. /\ With(agg, a, new).data[a] = new
      /\ p[1] \in DOMAIN With(agg, a, new).data <=> p[1] = a \/ p[1] \in DOMAIN agg.data
      /\ p[1] # a /\ p[1] \in DOMAIN agg.data
             => With(agg, a, new).data[p[1]] = agg.data[p[1]]
  <2>1. With(agg, a, new).data[a] = new
    BY SMT DEF With
  <2>2. p[1] \in DOMAIN With(agg, a, new).data <=> p[1] = a \/ p[1] \in DOMAIN agg.data
    BY WithFacts, Zenon
  <2>3. p[1] # a /\ p[1] \in DOMAIN agg.data
            => With(agg, a, new).data[p[1]] = agg.data[p[1]]
    BY SMT DEF With
  <2> QED BY <2>1, <2>2, <2>3
<1>7. /\ ~Known4(EventAggregator, Tail(p)) /\ ~Known4(EventAggregator, Tail(k))
  BY NothingKnown, Zenon
<1>8. Known5(Add5(agg, v, k), p) <=> p = k \/ Known5(agg, p)
  BY <1>1, <1>2, <1>4, <1>5, <1>6, <1>7, Zenon DEF Known5
<1>9. Value5(Add5(agg, v, k), k) = Sum(Known5(agg, k), Value5(agg, k), v)
  <2>1. Value5(Add5(agg, v, k), k) = Value4(new, Tail(k))
    BY <1>1, <1>6, Zenon DEF Value5, a
  <2>2. CASE a \in DOMAIN agg.data
    <3>1. Known5(agg, k) <=> Known4(in, Tail(k))
      BY <2>2, <1>5, Zenon DEF Known5, a
    <3>2. Value5(agg, k) = Value4(in, Tail(k))
      BY <2>2, <1>5, Zenon DEF Value5, a
    <3> QED BY <1>4, <2>1, <3>1, <3>2, Zenon DEF Sum
  <2>3. CASE a \notin DOMAIN agg.data
    <3>1. ~Known5(agg, k) /\ ~Known4(in, Tail(k))
      BY <2>3, <1>5, <1>7, Zenon DEF Known5, a
    <3> QED BY <1>4, <2>1, <3>1, Zenon DEF Sum
  <2> QED BY <2>2, <2>3
<1>10. ASSUME p # k, Known5(agg, p) PROVE Value5(Add5(agg, v, k), p) = Value5(agg, p)
  <2>0. p[1] \in DOMAIN agg.data /\ Known4(agg.data[p[1]], Tail(p))
    BY <1>10, Zenon DEF Known5
  <2>1. CASE p[1] = a
    <3>1. Tail(p) # Tail(k) /\ in = agg.data[p[1]] /\ With(agg, a, new).data[p[1]] = new
      BY <1>10, <1>2, <1>5, <1>6, <2>0, <2>1, Zenon
    <3>2. Value4(new, Tail(p)) = Value4(agg.data[p[1]], Tail(p))
      BY <1>4, <2>0, <3>1, Zenon
    <3> QED BY <1>1, <3>1, <3>2, Zenon DEF Value5
  <2>2. CASE p[1] # a
    BY <1>1, <1>6, <2>0, <2>2, Zenon DEF Value5
  <2> QED BY <2>1, <2>2
<1> QED BY <1>8, <1>9, <1>10, Zenon

-----------------------------------------------------------------------------
(* Rows, and the paths through them.                                       *)

\* What is written for a key.
WrittenAs(rule, t) ==
    <<IF rule.convert_key THEN ToDateFormatString(t) ELSE t,
      IF rule.generate_hash THEN <<"sha256", t>> ELSE <<>>>>

Rows1(agg, rules) == LeavesLast(ToJsonArrayLast(SetGenerationRuleLast(agg, rules)))
Rows2(agg, rules) == Leaves2(ToJsonArray2(SetGenerationRule2(agg, rules)))
Rows3(agg, rules) == Leaves3(ToJsonArray3(SetGenerationRule3(agg, rules)))
Rows4(agg, rules) == Leaves4(ToJsonArray4(SetGenerationRule4(agg, rules)))
Rows5(agg, rules) == Leaves5(ToJsonArray5(SetGenerationRule5(agg, rules)))

Path1(rules, k, v) == <<WrittenAs(rules[1], k[1]), v>>
Path2(rules, k, v) == <<WrittenAs(rules[1], k[1]), Path1(Tail(rules), Tail(k), v)>>
Path3(rules, k, v) == <<WrittenAs(rules[1], k[1]), Path2(Tail(rules), Tail(k), v)>>
Path4(rules, k, v) == <<WrittenAs(rules[1], k[1]), Path3(Tail(rules), Tail(k), v)>>
Path5(rules, k, v) == <<WrittenAs(rules[1], k[1]), Path4(Tail(rules), Tail(k), v)>>

(* What a row has.                                                         *)
LEMMA RowFacts ==
    ASSUME NEW rule, NEW t, NEW below
    PROVE  Written(Row(rule, t, below)) = WrittenAs(rule, t) /\ Row(rule, t, below).rows = below
  BY DEF Written, Row, WrittenAs

(* The rows of one key.                                                    *)
LEMMA Rows1Facts ==
    ASSUME NEW agg, NEW rules, NEW x
    PROVE  x \in Rows1(agg, rules) <=>
               \E k : IsKeys(k, 1) /\ Known1(agg, k) /\ x = Path1(rules, k, Value1(agg, k))
<1> DEFINE set == SetGenerationRuleLast(agg, rules)
<1>1. set.rule = rules[1] /\ set.data = agg.data
  BY DEF SetGenerationRuleLast
<1>h. HIDE DEF set
<1>2. x \in Rows1(agg, rules) <=>
          \E t \in DOMAIN agg.data : x = <<WrittenAs(rules[1], t), agg.data[t]>>
  <2>1. x \in Rows1(agg, rules) <=> \E row \in ToJsonArrayLast(set) : x = <<Written(row), row.rows>>
    BY DEF Rows1, LeavesLast, set
  <2>2. ToJsonArrayLast(set) = {Row(rules[1], t, agg.data[t]) : t \in DOMAIN agg.data}
    BY <1>1 DEF ToJsonArrayLast
  <2> QED BY <2>1, <2>2, RowFacts
<1>3. ASSUME NEW t \in DOMAIN agg.data, x = <<WrittenAs(rules[1], t), agg.data[t]>>
      PROVE  \E k : IsKeys(k, 1) /\ Known1(agg, k) /\ x = Path1(rules, k, Value1(agg, k))
  <2> DEFINE k == [i \in 1 .. 1 |-> t]
  <2>1. IsKeys(k, 1) /\ k[1] = t
    BY DEF IsKeys
  <2> HIDE DEF k
  <2>2. Known1(agg, k) /\ x = Path1(rules, k, Value1(agg, k))
    BY <1>3, <2>1 DEF Known1, Path1, Value1
  <2> QED BY <2>1, <2>2
<1> QED BY <1>2, <1>3, Zenon DEF Known1, Path1, Value1

(* ... of two keys.                                                         *)
LEMMA Rows2Facts ==
    ASSUME NEW agg, NEW rules, NEW x
    PROVE  x \in Rows2(agg, rules) <=>
               \E k : IsKeys(k, 2) /\ Known2(agg, k) /\ x = Path2(rules, k, Value2(agg, k))
<1> DEFINE set == SetGenerationRule2(agg, rules)
           Sub(t) == Rows1(agg.data[t], Tail(rules))
<1>1. /\ set.rule = rules[1] /\ DOMAIN set.data = DOMAIN agg.data
      /\ \A t \in DOMAIN agg.data : set.data[t] = SetGenerationRuleLast(agg.data[t], Tail(rules))
  BY DEF SetGenerationRule2, SetGenerationRule
<1>h. HIDE DEF set
<1>2. x \in Rows2(agg, rules) <=>
          \E t \in DOMAIN agg.data : \E y \in Sub(t) : x = <<WrittenAs(rules[1], t), y>>
  <2>1. x \in Rows2(agg, rules) <=>
            \E row \in ToJsonArray2(set) : \E y \in LeavesLast(row.rows) : x = <<Written(row), y>>
    BY DEF Rows2, Leaves2, Leaves, set
  <2> DEFINE JsonOf(t) == ToJsonArrayLast(set.data[t])
  <2>2. ToJsonArray2(set) = {Row(rules[1], t, JsonOf(t)) : t \in DOMAIN agg.data}
    BY <1>1 DEF ToJsonArray2, ToJsonArray
  <2>3. \A t \in DOMAIN agg.data : LeavesLast(JsonOf(t)) = Sub(t)
    BY <1>1 DEF Rows1
  <2>h. HIDE DEF JsonOf, Sub
  <2>4. x \in Rows2(agg, rules) <=>
            \E t \in DOMAIN agg.data :
                LET row == Row(rules[1], t, JsonOf(t))
                IN \E y \in LeavesLast(row.rows) : x = <<Written(row), y>>
    BY <2>1, <2>2
  <2> QED BY <2>3, <2>4, RowFacts
<1>3. ASSUME NEW t \in DOMAIN agg.data, NEW y \in Sub(t), x = <<WrittenAs(rules[1], t), y>>
      PROVE  \E k : IsKeys(k, 2) /\ Known2(agg, k) /\ x = Path2(rules, k, Value2(agg, k))
  <2>1. PICK q : /\ IsKeys(q, 1) /\ Known1(agg.data[t], q)
                 /\ y = Path1(Tail(rules), q, Value1(agg.data[t], q))
    BY Rows1Facts, Zenon
  <2>2. 1 \in Nat /\ 2 = 1 + 1
    OBVIOUS
  <2>j. PICK k : IsJoined(k, 2, t, q)
    BY <2>1, <2>2, KeysJoin, Zenon
  <2>3. IsKeys(k, 2) /\ k[1] = t /\ Tail(k) = q
    BY <2>j DEF IsJoined
  <2>4. Known2(agg, k) /\ x = Path2(rules, k, Value2(agg, k))
    BY <1>3, <2>1, <2>3 DEF Known2, Path2, Value2
  <2> QED BY <2>3, <2>4
<1>4. ASSUME NEW k, IsKeys(k, 2), Known2(agg, k), x = Path2(rules, k, Value2(agg, k))
      PROVE  x \in Rows2(agg, rules)
  <2>1. 1 \in Nat /\ 2 = 1 + 1
    OBVIOUS
  <2>2. IsKeys(Tail(k), 1)
    BY <1>4, <2>1, KeysSplit, Zenon
  <2>3. k[1] \in DOMAIN agg.data /\ Known1(agg.data[k[1]], Tail(k))
    BY <1>4, Zenon DEF Known2
  <2> DEFINE y == Path1(Tail(rules), Tail(k), Value1(agg.data[k[1]], Tail(k)))
  <2>4. y \in Sub(k[1])
    BY <2>2, <2>3, Rows1Facts, Zenon
  <2>5. x = <<WrittenAs(rules[1], k[1]), y>>
    BY <1>4, Zenon DEF Path2, Value2
  <2> HIDE DEF y, Sub
  <2> QED BY <1>2, <2>3, <2>4, <2>5, Zenon
<1>5. ASSUME x \in Rows2(agg, rules)
      PROVE  \E k : IsKeys(k, 2) /\ Known2(agg, k) /\ x = Path2(rules, k, Value2(agg, k))
  <2>1. PICK t \in DOMAIN agg.data : \E y \in Sub(t) : x = <<WrittenAs(rules[1], t), y>>
    BY <1>2, <1>5
  <2>2. PICK y \in Sub(t) : x = <<WrittenAs(rules[1], t), y>>
    BY <2>1
  <2> QED BY <1>3, <2>2
<1> QED BY <1>4, <1>5

(* ... of three keys.                                                       *)
LEMMA Rows3Facts ==
    ASSUME NEW agg, NEW rules, NEW x
    PROVE  x \in Rows3(agg, rules) <=>
               \E k : IsKeys(k, 3) /\ Known3(agg, k) /\ x = Path3(rules, k, Value3(agg, k))
<1> DEFINE set == SetGenerationRule3(agg, rules)
           Sub(t) == Rows2(agg.data[t], Tail(rules))
<1>1. /\ set.rule = rules[1] /\ DOMAIN set.data = DOMAIN agg.data
      /\ \A t \in DOMAIN agg.data : set.data[t] = SetGenerationRule2(agg.data[t], Tail(rules))
  BY DEF SetGenerationRule3, SetGenerationRule
<1>h. HIDE DEF set
<1>2. x \in Rows3(agg, rules) <=>
          \E t \in DOMAIN agg.data : \E y \in Sub(t) : x = <<WrittenAs(rules[1], t), y>>
  <2>1. x \in Rows3(agg, rules) <=>
            \E row \in ToJsonArray3(set) : \E y \in Leaves2(row.rows) : x = <<Written(row), y>>
    BY DEF Rows3, Leaves3, Leaves, set
  <2> DEFINE JsonOf(t) == ToJsonArray2(set.data[t])
  <2>2. ToJsonArray3(set) = {Row(rules[1], t, JsonOf(t)) : t \in DOMAIN agg.data}
    BY <1>1 DEF ToJsonArray3, ToJsonArray
  <2>3. \A t \in DOMAIN agg.data : Leaves2(JsonOf(t)) = Sub(t)
    BY <1>1 DEF Rows2
  <2>h. HIDE DEF JsonOf, Sub
  <2>4. x \in Rows3(agg, rules) <=>
            \E t \in DOMAIN agg.data :
                LET row == Row(rules[1], t, JsonOf(t))
                IN \E y \in Leaves2(row.rows) : x = <<Written(row), y>>
    BY <2>1, <2>2
  <2> QED BY <2>3, <2>4, RowFacts
<1>3. ASSUME NEW t \in DOMAIN agg.data, NEW y \in Sub(t), x = <<WrittenAs(rules[1], t), y>>
      PROVE  \E k : IsKeys(k, 3) /\ Known3(agg, k) /\ x = Path3(rules, k, Value3(agg, k))
  <2>1. PICK q : /\ IsKeys(q, 2) /\ Known2(agg.data[t], q)
                 /\ y = Path2(Tail(rules), q, Value2(agg.data[t], q))
    BY Rows2Facts, Zenon
  <2>2. 2 \in Nat /\ 3 = 2 + 1
    OBVIOUS
  <2>j. PICK k : IsJoined(k, 3, t, q)
    BY <2>1, <2>2, KeysJoin, Zenon
  <2>3. IsKeys(k, 3) /\ k[1] = t /\ Tail(k) = q
    BY <2>j DEF IsJoined
  <2>4. Known3(agg, k) /\ x = Path3(rules, k, Value3(agg, k))
    BY <1>3, <2>1, <2>3 DEF Known3, Path3, Value3
  <2> QED BY <2>3, <2>4
<1>4. ASSUME NEW k, IsKeys(k, 3), Known3(agg, k), x = Path3(rules, k, Value3(agg, k))
      PROVE  x \in Rows3(agg, rules)
  <2>1. 2 \in Nat /\ 3 = 2 + 1
    OBVIOUS
  <2>2. IsKeys(Tail(k), 2)
    BY <1>4, <2>1, KeysSplit, Zenon
  <2>3. k[1] \in DOMAIN agg.data /\ Known2(agg.data[k[1]], Tail(k))
    BY <1>4, Zenon DEF Known3
  <2> DEFINE y == Path2(Tail(rules), Tail(k), Value2(agg.data[k[1]], Tail(k)))
  <2>4. y \in Sub(k[1])
    BY <2>2, <2>3, Rows2Facts, Zenon
  <2>5. x = <<WrittenAs(rules[1], k[1]), y>>
    BY <1>4, Zenon DEF Path3, Value3
  <2> HIDE DEF y, Sub
  <2> QED BY <1>2, <2>3, <2>4, <2>5, Zenon
<1>5. ASSUME x \in Rows3(agg, rules)
      PROVE  \E k : IsKeys(k, 3) /\ Known3(agg, k) /\ x = Path3(rules, k, Value3(agg, k))
  <2>1. PICK t \in DOMAIN agg.data : \E y \in Sub(t) : x = <<WrittenAs(rules[1], t), y>>
    BY <1>2, <1>5
  <2>2. PICK y \in Sub(t) : x = <<WrittenAs(rules[1], t), y>>
    BY <2>1
  <2> QED BY <1>3, <2>2
<1> QED BY <1>4, <1>5

(* ... of four keys.                                                        *)
LEMMA Rows4Facts ==
    ASSUME NEW agg, NEW rules, NEW x
    PROVE  x \in Rows4(agg, rules) <=>
               \E k : IsKeys(k, 4) /\ Known4(agg, k) /\ x = Path4(rules, k, Value4(agg, k))
<1> DEFINE set == SetGenerationRule4(agg, rules)
           Sub(t) == Rows3(agg.data[t], Tail(rules))
<1>1. /\ set.rule = rules[1] /\ DOMAIN set.data = DOMAIN agg.data
      /\ \A t \in DOMAIN agg.data : set.data[t] = SetGenerationRule3(agg.data[t], Tail(rules))
  BY DEF SetGenerationRule4, SetGenerationRule
<1>h. HIDE DEF set
<1>2. x \in Rows4(agg, rules) <=>
          \E t \in DOMAIN agg.data : \E y \in Sub(t) : x = <<WrittenAs(rules[1], t), y>>
  <2>1. x \in Rows4(agg, rules) <=>
            \E row \in ToJsonArray4(set) : \E y \in Leaves3(row.rows) : x = <<Written(row), y>>
    BY DEF Rows4, Leaves4, Leaves, set
  <2> DEFINE JsonOf(t) == ToJsonArray3(set.data[t])
  <2>2. ToJsonArray4(set) = {Row(rules[1], t, JsonOf(t)) : t \in DOMAIN agg.data}
    BY <1>1 DEF ToJsonArray4, ToJsonArray
  <2>3. \A t \in DOMAIN agg.data : Leaves3(JsonOf(t)) = Sub(t)
    BY <1>1 DEF Rows3
  <2>h. HIDE DEF JsonOf, Sub
  <2>4. x \in Rows4(agg, rules) <=>
            \E t \in DOMAIN agg.data :
                LET row == Row(rules[1], t, JsonOf(t))
                IN \E y \in Leaves3(row.rows) : x = <<Written(row), y>>
    BY <2>1, <2>2
  <2> QED BY <2>3, <2>4, RowFacts
<1>3. ASSUME NEW t \in DOMAIN agg.data, NEW y \in Sub(t), x = <<WrittenAs(rules[1], t), y>>
      PROVE  \E k : IsKeys(k, 4) /\ Known4(agg, k) /\ x = Path4(rules, k, Value4(agg, k))
  <2>1. PICK q : /\ IsKeys(q, 3) /\ Known3(agg.data[t], q)
                 /\ y = Path3(Tail(rules), q, Value3(agg.data[t], q))
    BY Rows3Facts, Zenon
  <2>2. 3 \in Nat /\ 4 = 3 + 1
    OBVIOUS
  <2>j. PICK k : IsJoined(k, 4, t, q)
    BY <2>1, <2>2, KeysJoin, Zenon
  <2>3. IsKeys(k, 4) /\ k[1] = t /\ Tail(k) = q
    BY <2>j DEF IsJoined
  <2>4. Known4(agg, k) /\ x = Path4(rules, k, Value4(agg, k))
    BY <1>3, <2>1, <2>3 DEF Known4, Path4, Value4
  <2> QED BY <2>3, <2>4
<1>4. ASSUME NEW k, IsKeys(k, 4), Known4(agg, k), x = Path4(rules, k, Value4(agg, k))
      PROVE  x \in Rows4(agg, rules)
  <2>1. 3 \in Nat /\ 4 = 3 + 1
    OBVIOUS
  <2>2. IsKeys(Tail(k), 3)
    BY <1>4, <2>1, KeysSplit, Zenon
  <2>3. k[1] \in DOMAIN agg.data /\ Known3(agg.data[k[1]], Tail(k))
    BY <1>4, Zenon DEF Known4
  <2> DEFINE y == Path3(Tail(rules), Tail(k), Value3(agg.data[k[1]], Tail(k)))
  <2>4. y \in Sub(k[1])
    BY <2>2, <2>3, Rows3Facts, Zenon
  <2>5. x = <<WrittenAs(rules[1], k[1]), y>>
    BY <1>4, Zenon DEF Path4, Value4
  <2> HIDE DEF y, Sub
  <2> QED BY <1>2, <2>3, <2>4, <2>5, Zenon
<1>5. ASSUME x \in Rows4(agg, rules)
      PROVE  \E k : IsKeys(k, 4) /\ Known4(agg, k) /\ x = Path4(rules, k, Value4(agg, k))
  <2>1. PICK t \in DOMAIN agg.data : \E y \in Sub(t) : x = <<WrittenAs(rules[1], t), y>>
    BY <1>2, <1>5
  <2>2. PICK y \in Sub(t) : x = <<WrittenAs(rules[1], t), y>>
    BY <2>1
  <2> QED BY <1>3, <2>2
<1> QED BY <1>4, <1>5

(* ... of five keys.                                                        *)
LEMMA Rows5Facts ==
    ASSUME NEW agg, NEW rules, NEW x
    PROVE  x \in Rows5(agg, rules) <=>
               \E k : IsKeys(k, 5) /\ Known5(agg, k) /\ x = Path5(rules, k, Value5(agg, k))
<1> DEFINE set == SetGenerationRule5(agg, rules)
           Sub(t) == Rows4(agg.data[t], Tail(rules))
<1>1. /\ set.rule = rules[1] /\ DOMAIN set.data = DOMAIN agg.data
      /\ \A t \in DOMAIN agg.data : set.data[t] = SetGenerationRule4(agg.data[t], Tail(rules))
  BY DEF SetGenerationRule5, SetGenerationRule
<1>h. HIDE DEF set
<1>2. x \in Rows5(agg, rules) <=>
          \E t \in DOMAIN agg.data : \E y \in Sub(t) : x = <<WrittenAs(rules[1], t), y>>
  <2>1. x \in Rows5(agg, rules) <=>
            \E row \in ToJsonArray5(set) : \E y \in Leaves4(row.rows) : x = <<Written(row), y>>
    BY DEF Rows5, Leaves5, Leaves, set
  <2> DEFINE JsonOf(t) == ToJsonArray4(set.data[t])
  <2>2. ToJsonArray5(set) = {Row(rules[1], t, JsonOf(t)) : t \in DOMAIN agg.data}
    BY <1>1 DEF ToJsonArray5, ToJsonArray
  <2>3. \A t \in DOMAIN agg.data : Leaves4(JsonOf(t)) = Sub(t)
    BY <1>1 DEF Rows4
  <2>h. HIDE DEF JsonOf, Sub
  <2>4. x \in Rows5(agg, rules) <=>
            \E t \in DOMAIN agg.data :
                LET row == Row(rules[1], t, JsonOf(t))
                IN \E y \in Leaves4(row.rows) : x = <<Written(row), y>>
    BY <2>1, <2>2
  <2> QED BY <2>3, <2>4, RowFacts
<1>3. ASSUME NEW t \in DOMAIN agg.data, NEW y \in Sub(t), x = <<WrittenAs(rules[1], t), y>>
      PROVE  \E k : IsKeys(k, 5) /\ Known5(agg, k) /\ x = Path5(rules, k, Value5(agg, k))
  <2>1. PICK q : /\ IsKeys(q, 4) /\ Known4(agg.data[t], q)
                 /\ y = Path4(Tail(rules), q, Value4(agg.data[t], q))
    BY Rows4Facts, Zenon
  <2>2. 4 \in Nat /\ 5 = 4 + 1
    OBVIOUS
  <2>j. PICK k : IsJoined(k, 5, t, q)
    BY <2>1, <2>2, KeysJoin, Zenon
  <2>3. IsKeys(k, 5) /\ k[1] = t /\ Tail(k) = q
    BY <2>j DEF IsJoined
  <2>4. Known5(agg, k) /\ x = Path5(rules, k, Value5(agg, k))
    BY <1>3, <2>1, <2>3 DEF Known5, Path5, Value5
  <2> QED BY <2>3, <2>4
<1>4. ASSUME NEW k, IsKeys(k, 5), Known5(agg, k), x = Path5(rules, k, Value5(agg, k))
      PROVE  x \in Rows5(agg, rules)
  <2>1. 4 \in Nat /\ 5 = 4 + 1
    OBVIOUS
  <2>2. IsKeys(Tail(k), 4)
    BY <1>4, <2>1, KeysSplit, Zenon
  <2>3. k[1] \in DOMAIN agg.data /\ Known4(agg.data[k[1]], Tail(k))
    BY <1>4, Zenon DEF Known5
  <2> DEFINE y == Path4(Tail(rules), Tail(k), Value4(agg.data[k[1]], Tail(k)))
  <2>4. y \in Sub(k[1])
    BY <2>2, <2>3, Rows4Facts, Zenon
  <2>5. x = <<WrittenAs(rules[1], k[1]), y>>
    BY <1>4, Zenon DEF Path5, Value5
  <2> HIDE DEF y, Sub
  <2> QED BY <1>2, <2>3, <2>4, <2>5, Zenon
<1>5. ASSUME x \in Rows5(agg, rules)
      PROVE  \E k : IsKeys(k, 5) /\ Known5(agg, k) /\ x = Path5(rules, k, Value5(agg, k))
  <2>1. PICK t \in DOMAIN agg.data : \E y \in Sub(t) : x = <<WrittenAs(rules[1], t), y>>
    BY <1>2, <1>5
  <2>2. PICK y \in Sub(t) : x = <<WrittenAs(rules[1], t), y>>
    BY <2>1
  <2> QED BY <1>3, <2>2
<1> QED BY <1>4, <1>5

-----------------------------------------------------------------------------
(* Totals.                                                                 *)

\* The sums of the values of the events up to each that have the keys of the k-th.
SumIn(keys, values, k, i, before) ==
    IF i = 0 THEN Zero(values[k])
    ELSE IF i \in DOMAIN keys /\ keys[i] = keys[k] THEN Plus(before, values[i]) ELSE before
Sums(n, keys, values, k, s) ==
    \A i \in 0 .. n : s[i] = SumIn(keys, values, k, i, s[i - 1])

(* There are such sums.                                                    *)
LEMMA SumsExist ==
    ASSUME NEW keys, NEW values, NEW k, NEW n \in Nat
    PROVE  \E s : Sums(n, keys, values, k, s)
<1> DEFINE In(i, before) == SumIn(keys, values, k, i, before)
           S == {m \in Nat : \E s : Sums(m, keys, values, k, s)}
<1>1. 0 \in S
  <2> DEFINE s == [i \in {0} |-> Zero(values[k])]
  <2>1. \A i \in 0 .. 0 : i = 0
    OBVIOUS
  <2>2. s[0] = In(0, s[0 - 1])
    BY DEF SumIn
  <2>h. HIDE DEF s
  <2>3. Sums(0, keys, values, k, s)
    BY <2>1, <2>2 DEF Sums
  <2> QED BY <2>3
<1>2. ASSUME NEW m \in Nat, m \in S PROVE m + 1 \in S
  <2>1. PICK s : Sums(m, keys, values, k, s)
    BY <1>2
  <2> DEFINE h == [i \in 0 .. m + 1 |-> IF i <= m THEN s[i] ELSE In(m + 1, s[m])]
  <2>2. ASSUME NEW i \in 0 .. m + 1 PROVE h[i] = In(i, h[i - 1])
    <3>1. CASE i = 0
      <4>1. h[i] = s[0] /\ 0 \in 0 .. m
        BY <3>1
      <4>2. s[0] = In(0, s[0 - 1])
        BY <2>1, <4>1, Zenon DEF Sums
      <4>3. \A a, b : In(0, a) = In(0, b)
        BY DEF SumIn
      <4>h. HIDE DEF h, In
      <4> QED BY <3>1, <4>1, <4>2, <4>3
    <3>2. CASE i # 0 /\ i <= m
      <4>1. h[i] = s[i] /\ h[i - 1] = s[i - 1] /\ i \in 0 .. m
        BY <3>2
      <4>h. HIDE DEF h
      <4>2. s[i] = In(i, s[i - 1])
        BY <2>1, <4>1, Zenon DEF Sums
      <4> QED BY <4>1, <4>2, Zenon
    <3>3. CASE i = m + 1
      <4>1. h[i] = In(m + 1, s[m]) /\ h[i - 1] = s[m]
        BY <3>3
      <4>h. HIDE DEF h, In
      <4> QED BY <3>3, <4>1
    <3> QED BY <3>1, <3>2, <3>3
  <2>h. HIDE DEF h
  <2>3. Sums(m + 1, keys, values, k, h)
    BY <2>2, Zenon DEF Sums
  <2> QED BY <2>3
<1> QED BY <1>1, <1>2, NatSetInduction

(* Total is the last of them.                                              *)
LEMMA TotalUnfold ==
    ASSUME NEW keys, NEW values, NEW k, NEW n \in Nat
    PROVE  \E s : Sums(n, keys, values, k, s) /\ Total(n, keys, values, k) = s[n]
<1> DEFINE Is(f) == f = [i \in 0 .. n |->
               IF i = 0 THEN Zero(values[k])
               ELSE IF i \in DOMAIN keys /\ keys[i] = keys[k] THEN Plus(f[i - 1], values[i])
               ELSE f[i - 1]]
           h == CHOOSE f : Is(f)
<1>1. PICK s : Sums(n, keys, values, k, s)
  BY SumsExist
<1> DEFINE f == [i \in 0 .. n |-> s[i]]
           e == [i \in 0 .. n |-> SumIn(keys, values, k, i, f[i - 1])]
<1>2. ASSUME NEW i \in 0 .. n PROVE f[i] = e[i]
  <2>1. f[i] = SumIn(keys, values, k, i, s[i - 1])
    BY <1>1 DEF Sums
  <2>2. e[i] = SumIn(keys, values, k, i, f[i - 1])
    OBVIOUS
  <2>3. CASE i = 0
    BY <2>1, <2>2, <2>3 DEF SumIn
  <2>4. CASE i # 0
    <3>1. f[i - 1] = s[i - 1]
      BY <2>4
    <3> QED BY <2>1, <2>2, <3>1, Zenon
  <2> QED BY <2>3, <2>4
<1>3. f = e
  BY <1>2
<1>4. Is(f)
  BY <1>3, Zenon DEF SumIn
<1>5. Is(h)
  BY <1>4, Zenon
<1>6. Total(n, keys, values, k) = h[n]
  BY Zenon DEF Total
<1>h. HIDE DEF h
<1>7. Sums(n, keys, values, k, h)
  <2>1. ASSUME NEW i \in 0 .. n PROVE h[i] = SumIn(keys, values, k, i, h[i - 1])
    <3>1. h[i] = IF i = 0 THEN Zero(values[k])
               ELSE IF i \in DOMAIN keys /\ keys[i] = keys[k] THEN Plus(h[i - 1], values[i])
               ELSE h[i - 1]
      BY <1>5
    <3> QED BY <3>1, Zenon DEF SumIn
  <2> QED BY <2>1, Zenon DEF Sums
<1> QED BY <1>6, <1>7

\* agg[i] is what an aggregator of five keys has become after i of n events.
Adds5(n, agg, keys, values) ==
    /\ agg[0] = EventAggregator
    /\ \A i \in 1 .. n :
          agg[i] = IF i \in DOMAIN keys THEN Add5(agg[i - 1], values[i], keys[i]) ELSE agg[i - 1]

\* It knows the keys p when they are those of an event so far.
KnownSoFar5(n, agg, keys, p) ==
    \A i \in 0 .. n :
        Known5(agg[i], p) <=> \E j \in 1 .. i : j \in DOMAIN keys /\ keys[j] = p

\* Its values for p are the sums so far.
SumsSoFar5(n, agg, p, zero, s) ==
    \A i \in 0 .. n : IF Known5(agg[i], p) THEN Value5(agg[i], p) = s[i] ELSE s[i] = zero

(* It knows the keys of the events so far.                                 *)
LEMMA KeysAfter5 ==
    ASSUME NEW n \in Nat, NEW agg, NEW keys, NEW values, Adds5(n, agg, keys, values),
           \A i \in DOMAIN keys : IsKeys(keys[i], 5),
           NEW p, IsKeys(p, 5)
    PROVE  KnownSoFar5(n, agg, keys, p)
<1> DEFINE Some(i) == \E j \in 1 .. i : j \in DOMAIN keys /\ keys[j] = p
           S == {i \in Nat : i <= n => (Known5(agg[i], p) <=> Some(i))}
<1>1. 0 \in S
  <2>1. ~Known5(agg[0], p)
    BY NothingKnown, Zenon DEF Adds5
  <2>2. ~Some(0)
    OBVIOUS
  <2> QED BY <2>1, <2>2
<1>2. ASSUME NEW i \in Nat, i \in S PROVE i + 1 \in S
  <2> SUFFICES ASSUME i + 1 <= n PROVE Known5(agg[i + 1], p) <=> Some(i + 1)
    OBVIOUS
  <2>1. Known5(agg[i], p) <=> Some(i)
    BY <1>2
  <2>2. Some(i + 1) <=> Some(i) \/ (i + 1 \in DOMAIN keys /\ keys[i + 1] = p)
    <3>1. 1 .. i + 1 = (1 .. i) \cup {i + 1}
      OBVIOUS
    <3> QED BY <3>1
  <2>3. agg[i + 1] = IF i + 1 \in DOMAIN keys THEN Add5(agg[i], values[i + 1], keys[i + 1])
                     ELSE agg[i]
    <3>1. i + 1 \in 1 .. n /\ (i + 1) - 1 = i
      OBVIOUS
    <3> QED BY <3>1 DEF Adds5
  <2>h. HIDE DEF Some
  <2>4. CASE i + 1 \in DOMAIN keys
    <3> DEFINE q == keys[i + 1]
               a == agg[i]
               v == values[i + 1]
    <3>1. IsKeys(q, 5) /\ agg[i + 1] = Add5(a, v, q)
      BY <2>3, <2>4
    <3>h. HIDE DEF q, a, v
    <3>2. Known5(Add5(a, v, q), p) <=> p = q \/ Known5(a, p)
      BY <3>1, Add5Facts, Zenon
    <3>3. Known5(agg[i + 1], p) <=> p = keys[i + 1] \/ Known5(agg[i], p)
      BY <3>1, <3>2, Zenon DEF q, a
    <3> QED BY <2>1, <2>2, <2>4, <3>3
  <2>5. CASE i + 1 \notin DOMAIN keys
    BY <2>1, <2>2, <2>3, <2>5
  <2> QED BY <2>4, <2>5
<1>h. HIDE DEF Some
<1>3. Nat \subseteq S
  BY <1>1, <1>2, NatSetInduction
<1>4. \A i \in 0 .. n : Known5(agg[i], p) <=> Some(i)
  BY <1>3
<1> QED BY <1>4 DEF Some, KnownSoFar5

(* Its values are the sums.                                                *)
LEMMA ValuesAfter5 ==
    ASSUME NEW n \in Nat, NEW agg, NEW keys, NEW values, Adds5(n, agg, keys, values),
           \A i \in DOMAIN keys : IsKeys(keys[i], 5),
           \A i, j \in DOMAIN keys : Zero(values[i]) = Zero(values[j]),
           NEW k \in DOMAIN keys, NEW s, Sums(n, keys, values, k, s)
    PROVE  SumsSoFar5(n, agg, keys[k], Zero(values[k]), s)
<1> DEFINE p == keys[k]
           Right(i) == IF Known5(agg[i], p) THEN Value5(agg[i], p) = s[i]
                       ELSE s[i] = Zero(values[k])
           S == {i \in Nat : i <= n => Right(i)}
<1>p. IsKeys(p, 5)
  OBVIOUS
<1>1. 0 \in S
  <2>1. ~Known5(agg[0], p)
    BY NothingKnown, Zenon DEF Adds5
  <2>2. s[0] = Zero(values[k])
    BY DEF Sums, SumIn
  <2> QED BY <2>1, <2>2
<1>2. ASSUME NEW i \in Nat, i \in S PROVE i + 1 \in S
  <2> SUFFICES ASSUME i + 1 <= n PROVE Right(i + 1)
    OBVIOUS
  <2>1. Right(i)
    BY <1>2
  <2>0. i + 1 \in 1 .. n /\ i + 1 \in 0 .. n /\ (i + 1) - 1 = i /\ i + 1 # 0
    OBVIOUS
  <2>2. s[i + 1] = IF i + 1 \in DOMAIN keys /\ keys[i + 1] = p THEN Plus(s[i], values[i + 1])
                   ELSE s[i]
    BY <2>0 DEF Sums, SumIn
  <2>3. agg[i + 1] = IF i + 1 \in DOMAIN keys THEN Add5(agg[i], values[i + 1], keys[i + 1])
                     ELSE agg[i]
    BY <2>0 DEF Adds5
  <2>4. CASE i + 1 \notin DOMAIN keys
    <3>1. agg[i + 1] = agg[i] /\ s[i + 1] = s[i]
      BY <2>2, <2>3, <2>4
    <3> QED BY <2>1, <3>1, Zenon
  <2>5. CASE i + 1 \in DOMAIN keys /\ keys[i + 1] = p
    <3> DEFINE a == agg[i]
               v == values[i + 1]
               new == Add5(a, v, p)
    <3>1. agg[i + 1] = new /\ s[i + 1] = Plus(s[i], v)
      BY <2>2, <2>3, <2>5
    <3>2. Zero(values[k]) = Zero(v)
      BY <2>5
    <3>r. IF Known5(a, p) THEN Value5(a, p) = s[i] ELSE s[i] = Zero(v)
      BY <2>1, <3>2, Zenon
    <3>h. HIDE DEF p, a, v
    <3>p. IsKeys(p, 5)
      BY <1>p DEF p
    <3>3. Known5(new, p)
      BY <3>p, Add5Facts, Zenon
    <3>4. Value5(new, p) = Sum(Known5(a, p), Value5(a, p), v)
      BY <3>p, Add5Facts, Zenon
    <3>h2. HIDE DEF new
    <3>5. Value5(new, p) = Plus(s[i], v)
      BY <3>r, <3>4, Zenon DEF Sum
    <3> QED BY <3>1, <3>3, <3>5, Zenon DEF p
  <2>6. CASE i + 1 \in DOMAIN keys /\ keys[i + 1] # p
    <3> DEFINE q == keys[i + 1]
               new == Add5(agg[i], values[i + 1], q)
    <3>1. agg[i + 1] = new /\ s[i + 1] = s[i]
      BY <2>2, <2>3, <2>6
    <3>2. IsKeys(q, 5) /\ p # q
      BY <2>6
    <3>h. HIDE DEF p, q
    <3>p. IsKeys(p, 5)
      BY <1>p DEF p
    <3>3. Known5(new, p) <=> Known5(agg[i], p)
      BY <3>p, <3>2, Add5Facts, Zenon
    <3>4. Known5(agg[i], p) => Value5(new, p) = Value5(agg[i], p)
      BY <3>p, <3>2, Add5Facts
    <3>h2. HIDE DEF new
    <3> QED BY <2>1, <3>1, <3>3, <3>4, Zenon
  <2> QED BY <2>4, <2>5, <2>6
<1>h. HIDE DEF Right
<1>3. Nat \subseteq S
  BY <1>1, <1>2, NatSetInduction
<1>4. \A i \in 0 .. n : Right(i)
  BY <1>3
<1> QED BY <1>4 DEF Right, SumsSoFar5

\* The paths of the keys, with their totals.
Totals5(n, keys, values, rules) ==
    {Path5(rules, keys[k], Total(n, keys, values, k)) : k \in DOMAIN keys}

(* The rows have the sums over exactly the events, for each of their keys. *)
LEMMA RowsAddUp5 ==
    ASSUME NEW n \in Nat, NEW agg, NEW keys, NEW values, NEW rules,
           Adds5(n, agg, keys, values),
           DOMAIN keys \subseteq 1 .. n,
           \A i \in DOMAIN keys : IsKeys(keys[i], 5),
           \A i, j \in DOMAIN keys : Zero(values[i]) = Zero(values[j])
    PROVE  Same(Rows5(agg[n], rules), Totals5(n, keys, values, rules))
<1>1. ASSUME NEW k \in DOMAIN keys
      PROVE  /\ Known5(agg[n], keys[k])
             /\ Value5(agg[n], keys[k]) = Total(n, keys, values, k)
  <2>1. PICK s : Sums(n, keys, values, k, s) /\ Total(n, keys, values, k) = s[n]
    BY TotalUnfold
  <2>2. k \in 1 .. n /\ IsKeys(keys[k], 5) /\ n \in 0 .. n
    OBVIOUS
  <2>3. SumsSoFar5(n, agg, keys[k], Zero(values[k]), s)
    BY <2>1, ValuesAfter5, Zenon
  <2>4. KnownSoFar5(n, agg, keys, keys[k])
    BY <2>2, KeysAfter5, Zenon
  <2>5. Known5(agg[n], keys[k])
    BY <2>2, <2>4 DEF KnownSoFar5
  <2> QED BY <2>1, <2>2, <2>3, <2>5, Zenon DEF SumsSoFar5
<1>2. ASSUME NEW p, IsKeys(p, 5), Known5(agg[n], p)
      PROVE  \E k \in DOMAIN keys : keys[k] = p
  <2>1. KnownSoFar5(n, agg, keys, p)
    BY <1>2, KeysAfter5, Zenon
  <2>2. n \in 0 .. n
    OBVIOUS
  <2>3. PICK j \in 1 .. n : j \in DOMAIN keys /\ keys[j] = p
    BY <1>2, <2>1, <2>2, Zenon DEF KnownSoFar5
  <2> QED BY <2>3, Zenon
<1>3. ASSUME NEW x, x \in Rows5(agg[n], rules)
      PROVE  \E k \in DOMAIN keys : x = Path5(rules, keys[k], Total(n, keys, values, k))
  <2>1. PICK p : /\ IsKeys(p, 5) /\ Known5(agg[n], p)
                 /\ x = Path5(rules, p, Value5(agg[n], p))
    <3> DEFINE a == agg[n]
    <3>h. HIDE DEF a
    <3>1. x \in Rows5(a, rules)
      BY <1>3 DEF a
    <3>2. \E k : IsKeys(k, 5) /\ Known5(a, k) /\ x = Path5(rules, k, Value5(a, k))
      BY <3>1, Rows5Facts
    <3> QED BY <3>2, Zenon DEF a
  <2>2. PICK k \in DOMAIN keys : keys[k] = p
    BY <1>2, <2>1
  <2>3. x = Path5(rules, keys[k], Total(n, keys, values, k))
    BY <1>1, <2>1, <2>2
  <2> QED BY <2>3
<1>4. ASSUME NEW k \in DOMAIN keys
      PROVE  Path5(rules, keys[k], Total(n, keys, values, k)) \in Rows5(agg[n], rules)
  <2> DEFINE p == keys[k]
             x == Path5(rules, p, Value5(agg[n], p))
  <2>1. IsKeys(p, 5) /\ Known5(agg[n], p)
    BY <1>1
  <2>2. x \in Rows5(agg[n], rules)
    BY <2>1, Rows5Facts, Zenon
  <2> QED BY <1>1, <2>2
<1>5. Rows5(agg[n], rules)
          = {Path5(rules, keys[k], Total(n, keys, values, k)) : k \in DOMAIN keys}
  BY <1>3, <1>4
<1> QED BY <1>5, Zenon DEF Totals5, Same

\* agg[i] is what an aggregator of four keys has become after i of n events.
Adds4(n, agg, keys, values) ==
    /\ agg[0] = EventAggregator
    /\ \A i \in 1 .. n :
          agg[i] = IF i \in DOMAIN keys THEN Add4(agg[i - 1], values[i], keys[i]) ELSE agg[i - 1]

\* It knows the keys p when they are those of an event so far.
KnownSoFar4(n, agg, keys, p) ==
    \A i \in 0 .. n :
        Known4(agg[i], p) <=> \E j \in 1 .. i : j \in DOMAIN keys /\ keys[j] = p

\* Its values for p are the sums so far.
SumsSoFar4(n, agg, p, zero, s) ==
    \A i \in 0 .. n : IF Known4(agg[i], p) THEN Value4(agg[i], p) = s[i] ELSE s[i] = zero

(* It knows the keys of the events so far.                                 *)
LEMMA KeysAfter4 ==
    ASSUME NEW n \in Nat, NEW agg, NEW keys, NEW values, Adds4(n, agg, keys, values),
           \A i \in DOMAIN keys : IsKeys(keys[i], 4),
           NEW p, IsKeys(p, 4)
    PROVE  KnownSoFar4(n, agg, keys, p)
<1> DEFINE Some(i) == \E j \in 1 .. i : j \in DOMAIN keys /\ keys[j] = p
           S == {i \in Nat : i <= n => (Known4(agg[i], p) <=> Some(i))}
<1>1. 0 \in S
  <2>1. ~Known4(agg[0], p)
    BY NothingKnown, Zenon DEF Adds4
  <2>2. ~Some(0)
    OBVIOUS
  <2> QED BY <2>1, <2>2
<1>2. ASSUME NEW i \in Nat, i \in S PROVE i + 1 \in S
  <2> SUFFICES ASSUME i + 1 <= n PROVE Known4(agg[i + 1], p) <=> Some(i + 1)
    OBVIOUS
  <2>1. Known4(agg[i], p) <=> Some(i)
    BY <1>2
  <2>2. Some(i + 1) <=> Some(i) \/ (i + 1 \in DOMAIN keys /\ keys[i + 1] = p)
    <3>1. 1 .. i + 1 = (1 .. i) \cup {i + 1}
      OBVIOUS
    <3> QED BY <3>1
  <2>3. agg[i + 1] = IF i + 1 \in DOMAIN keys THEN Add4(agg[i], values[i + 1], keys[i + 1])
                     ELSE agg[i]
    <3>1. i + 1 \in 1 .. n /\ (i + 1) - 1 = i
      OBVIOUS
    <3> QED BY <3>1 DEF Adds4
  <2>h. HIDE DEF Some
  <2>4. CASE i + 1 \in DOMAIN keys
    <3> DEFINE q == keys[i + 1]
               a == agg[i]
               v == values[i + 1]
    <3>1. IsKeys(q, 4) /\ agg[i + 1] = Add4(a, v, q)
      BY <2>3, <2>4
    <3>h. HIDE DEF q, a, v
    <3>2. Known4(Add4(a, v, q), p) <=> p = q \/ Known4(a, p)
      BY <3>1, Add4Facts, Zenon
    <3>3. Known4(agg[i + 1], p) <=> p = keys[i + 1] \/ Known4(agg[i], p)
      BY <3>1, <3>2, Zenon DEF q, a
    <3> QED BY <2>1, <2>2, <2>4, <3>3
  <2>5. CASE i + 1 \notin DOMAIN keys
    BY <2>1, <2>2, <2>3, <2>5
  <2> QED BY <2>4, <2>5
<1>h. HIDE DEF Some
<1>3. Nat \subseteq S
  BY <1>1, <1>2, NatSetInduction
<1>4. \A i \in 0 .. n : Known4(agg[i], p) <=> Some(i)
  BY <1>3
<1> QED BY <1>4 DEF Some, KnownSoFar4

(* Its values are the sums.                                                *)
LEMMA ValuesAfter4 ==
    ASSUME NEW n \in Nat, NEW agg, NEW keys, NEW values, Adds4(n, agg, keys, values),
           \A i \in DOMAIN keys : IsKeys(keys[i], 4),
           \A i, j \in DOMAIN keys : Zero(values[i]) = Zero(values[j]),
           NEW k \in DOMAIN keys, NEW s, Sums(n, keys, values, k, s)
    PROVE  SumsSoFar4(n, agg, keys[k], Zero(values[k]), s)
<1> DEFINE p == keys[k]
           Right(i) == IF Known4(agg[i], p) THEN Value4(agg[i], p) = s[i]
                       ELSE s[i] = Zero(values[k])
           S == {i \in Nat : i <= n => Right(i)}
<1>p. IsKeys(p, 4)
  OBVIOUS
<1>1. 0 \in S
  <2>1. ~Known4(agg[0], p)
    BY NothingKnown, Zenon DEF Adds4
  <2>2. s[0] = Zero(values[k])
    BY DEF Sums, SumIn
  <2> QED BY <2>1, <2>2
<1>2. ASSUME NEW i \in Nat, i \in S PROVE i + 1 \in S
  <2> SUFFICES ASSUME i + 1 <= n PROVE Right(i + 1)
    OBVIOUS
  <2>1. Right(i)
    BY <1>2
  <2>0. i + 1 \in 1 .. n /\ i + 1 \in 0 .. n /\ (i + 1) - 1 = i /\ i + 1 # 0
    OBVIOUS
  <2>2. s[i + 1] = IF i + 1 \in DOMAIN keys /\ keys[i + 1] = p THEN Plus(s[i], values[i + 1])
                   ELSE s[i]
    BY <2>0 DEF Sums, SumIn
  <2>3. agg[i + 1] = IF i + 1 \in DOMAIN keys THEN Add4(agg[i], values[i + 1], keys[i + 1])
                     ELSE agg[i]
    BY <2>0 DEF Adds4
  <2>4. CASE i + 1 \notin DOMAIN keys
    <3>1. agg[i + 1] = agg[i] /\ s[i + 1] = s[i]
      BY <2>2, <2>3, <2>4
    <3> QED BY <2>1, <3>1, Zenon
  <2>5. CASE i + 1 \in DOMAIN keys /\ keys[i + 1] = p
    <3> DEFINE a == agg[i]
               v == values[i + 1]
               new == Add4(a, v, p)
    <3>1. agg[i + 1] = new /\ s[i + 1] = Plus(s[i], v)
      BY <2>2, <2>3, <2>5
    <3>2. Zero(values[k]) = Zero(v)
      BY <2>5
    <3>r. IF Known4(a, p) THEN Value4(a, p) = s[i] ELSE s[i] = Zero(v)
      BY <2>1, <3>2, Zenon
    <3>h. HIDE DEF p, a, v
    <3>p. IsKeys(p, 4)
      BY <1>p DEF p
    <3>3. Known4(new, p)
      BY <3>p, Add4Facts, Zenon
    <3>4. Value4(new, p) = Sum(Known4(a, p), Value4(a, p), v)
      BY <3>p, Add4Facts, Zenon
    <3>h2. HIDE DEF new
    <3>5. Value4(new, p) = Plus(s[i], v)
      BY <3>r, <3>4, Zenon DEF Sum
    <3> QED BY <3>1, <3>3, <3>5, Zenon DEF p
  <2>6. CASE i + 1 \in DOMAIN keys /\ keys[i + 1] # p
    <3> DEFINE q == keys[i + 1]
               new == Add4(agg[i], values[i + 1], q)
    <3>1. agg[i + 1] = new /\ s[i + 1] = s[i]
      BY <2>2, <2>3, <2>6
    <3>2. IsKeys(q, 4) /\ p # q
      BY <2>6
    <3>h. HIDE DEF p, q
    <3>p. IsKeys(p, 4)
      BY <1>p DEF p
    <3>3. Known4(new, p) <=> Known4(agg[i], p)
      BY <3>p, <3>2, Add4Facts, Zenon
    <3>4. Known4(agg[i], p) => Value4(new, p) = Value4(agg[i], p)
      BY <3>p, <3>2, Add4Facts
    <3>h2. HIDE DEF new
    <3> QED BY <2>1, <3>1, <3>3, <3>4, Zenon
  <2> QED BY <2>4, <2>5, <2>6
<1>h. HIDE DEF Right
<1>3. Nat \subseteq S
  BY <1>1, <1>2, NatSetInduction
<1>4. \A i \in 0 .. n : Right(i)
  BY <1>3
<1> QED BY <1>4 DEF Right, SumsSoFar4

\* The paths of the keys, with their totals.
Totals4(n, keys, values, rules) ==
    {Path4(rules, keys[k], Total(n, keys, values, k)) : k \in DOMAIN keys}

(* The rows have the sums over exactly the events, for each of their keys. *)
LEMMA RowsAddUp4 ==
    ASSUME NEW n \in Nat, NEW agg, NEW keys, NEW values, NEW rules,
           Adds4(n, agg, keys, values),
           DOMAIN keys \subseteq 1 .. n,
           \A i \in DOMAIN keys : IsKeys(keys[i], 4),
           \A i, j \in DOMAIN keys : Zero(values[i]) = Zero(values[j])
    PROVE  Same(Rows4(agg[n], rules), Totals4(n, keys, values, rules))
<1>1. ASSUME NEW k \in DOMAIN keys
      PROVE  /\ Known4(agg[n], keys[k])
             /\ Value4(agg[n], keys[k]) = Total(n, keys, values, k)
  <2>1. PICK s : Sums(n, keys, values, k, s) /\ Total(n, keys, values, k) = s[n]
    BY TotalUnfold
  <2>2. k \in 1 .. n /\ IsKeys(keys[k], 4) /\ n \in 0 .. n
    OBVIOUS
  <2>3. SumsSoFar4(n, agg, keys[k], Zero(values[k]), s)
    BY <2>1, ValuesAfter4, Zenon
  <2>4. KnownSoFar4(n, agg, keys, keys[k])
    BY <2>2, KeysAfter4, Zenon
  <2>5. Known4(agg[n], keys[k])
    BY <2>2, <2>4 DEF KnownSoFar4
  <2> QED BY <2>1, <2>2, <2>3, <2>5, Zenon DEF SumsSoFar4
<1>2. ASSUME NEW p, IsKeys(p, 4), Known4(agg[n], p)
      PROVE  \E k \in DOMAIN keys : keys[k] = p
  <2>1. KnownSoFar4(n, agg, keys, p)
    BY <1>2, KeysAfter4, Zenon
  <2>2. n \in 0 .. n
    OBVIOUS
  <2>3. PICK j \in 1 .. n : j \in DOMAIN keys /\ keys[j] = p
    BY <1>2, <2>1, <2>2, Zenon DEF KnownSoFar4
  <2> QED BY <2>3, Zenon
<1>3. ASSUME NEW x, x \in Rows4(agg[n], rules)
      PROVE  \E k \in DOMAIN keys : x = Path4(rules, keys[k], Total(n, keys, values, k))
  <2>1. PICK p : /\ IsKeys(p, 4) /\ Known4(agg[n], p)
                 /\ x = Path4(rules, p, Value4(agg[n], p))
    <3> DEFINE a == agg[n]
    <3>h. HIDE DEF a
    <3>1. x \in Rows4(a, rules)
      BY <1>3 DEF a
    <3>2. \E k : IsKeys(k, 4) /\ Known4(a, k) /\ x = Path4(rules, k, Value4(a, k))
      BY <3>1, Rows4Facts
    <3> QED BY <3>2, Zenon DEF a
  <2>2. PICK k \in DOMAIN keys : keys[k] = p
    BY <1>2, <2>1
  <2>3. x = Path4(rules, keys[k], Total(n, keys, values, k))
    BY <1>1, <2>1, <2>2
  <2> QED BY <2>3
<1>4. ASSUME NEW k \in DOMAIN keys
      PROVE  Path4(rules, keys[k], Total(n, keys, values, k)) \in Rows4(agg[n], rules)
  <2> DEFINE p == keys[k]
             x == Path4(rules, p, Value4(agg[n], p))
  <2>1. IsKeys(p, 4) /\ Known4(agg[n], p)
    BY <1>1
  <2>2. x \in Rows4(agg[n], rules)
    BY <2>1, Rows4Facts, Zenon
  <2> QED BY <1>1, <2>2
<1>5. Rows4(agg[n], rules)
          = {Path4(rules, keys[k], Total(n, keys, values, k)) : k \in DOMAIN keys}
  BY <1>3, <1>4
<1> QED BY <1>5, Zenon DEF Totals4, Same

-----------------------------------------------------------------------------
(* The report of a log.                                                    *)

\* st[i] is what the aggregators have become after i events.
AnalysisOf(events, i, before) ==
    IF i = 0 THEN [sql |-> EventAggregator, ttimeout |-> EventAggregator, managed_lock |-> <<>>]
    ELSE Analyse(before, events[i])
Analysed(events, n, st) == \A i \in 0 .. n : st[i] = AnalysisOf(events, i, st[i - 1])

(* There are such states.                                                  *)
LEMMA AnalysedExists ==
    ASSUME NEW events, NEW n \in Nat
    PROVE  \E st : Analysed(events, n, st)
<1> DEFINE In(i, before) == AnalysisOf(events, i, before)
           S == {m \in Nat : \E st : Analysed(events, m, st)}
<1>1. 0 \in S
  <2> DEFINE st == [i \in {0} |-> In(0, 0)]
  <2>1. \A i \in 0 .. 0 : i = 0
    OBVIOUS
  <2>2. st[0] = In(0, st[0 - 1])
    BY DEF AnalysisOf
  <2>h. HIDE DEF st
  <2>3. Analysed(events, 0, st)
    BY <2>1, <2>2 DEF Analysed
  <2> QED BY <2>3
<1>2. ASSUME NEW m \in Nat, m \in S PROVE m + 1 \in S
  <2>1. PICK st : Analysed(events, m, st)
    BY <1>2
  <2> DEFINE h == [i \in 0 .. m + 1 |-> IF i <= m THEN st[i] ELSE In(m + 1, st[m])]
  <2>2. ASSUME NEW i \in 0 .. m + 1 PROVE h[i] = In(i, h[i - 1])
    <3>1. CASE i = 0
      <4>1. h[i] = st[0] /\ 0 \in 0 .. m
        BY <3>1
      <4>2. st[0] = In(0, st[0 - 1])
        BY <2>1, <4>1, Zenon DEF Analysed
      <4>3. \A a, b : In(0, a) = In(0, b)
        BY DEF AnalysisOf
      <4>h. HIDE DEF h, In
      <4> QED BY <3>1, <4>1, <4>2, <4>3
    <3>2. CASE i # 0 /\ i <= m
      <4>1. h[i] = st[i] /\ h[i - 1] = st[i - 1] /\ i \in 0 .. m
        BY <3>2
      <4>h. HIDE DEF h
      <4>2. st[i] = In(i, st[i - 1])
        BY <2>1, <4>1, Zenon DEF Analysed
      <4> QED BY <4>1, <4>2, Zenon
    <3>3. CASE i = m + 1
      <4>1. h[i] = In(m + 1, st[m]) /\ h[i - 1] = st[m]
        BY <3>3
      <4>h. HIDE DEF h, In
      <4> QED BY <3>3, <4>1
    <3> QED BY <3>1, <3>2, <3>3
  <2>h. HIDE DEF h
  <2>3. Analysed(events, m + 1, h)
    BY <2>2, Zenon DEF Analysed
  <2> QED BY <2>3
<1> QED BY <1>1, <1>2, NatSetInduction

\* The report of what the aggregators have become.
Report(end) ==
    [TTIMEOUT |-> ToJsonArray4(SetGenerationRule4(end.ttimeout, LockRules)),
     TDEADLOCK |-> ToJsonArray4(SetGenerationRule4(EventAggregator, LockRules)),
     DBMSSQL |-> ToJsonArray5(SetGenerationRule5(end.sql, SqlRules)),
     MANAGED_LOCKS |-> end.managed_lock]

(* RunAnalysis reports the last of them.                                   *)
LEMMA RunAnalysisUnfold ==
    ASSUME NEW events, Len(events) \in Nat
    PROVE  \E st : Analysed(events, Len(events), st) /\ RunAnalysis(events) = Report(st[Len(events)])
<1> DEFINE n == Len(events)
           Is(f) == f = [i \in 0 .. n |->
               IF i = 0 THEN [sql |-> EventAggregator, ttimeout |-> EventAggregator,
                              managed_lock |-> <<>>]
               ELSE Analyse(f[i - 1], events[i])]
           h == CHOOSE f : Is(f)
<1>1. PICK st : Analysed(events, n, st)
  BY AnalysedExists
<1>6. RunAnalysis(events) = Report(h[n])
  BY Zenon DEF RunAnalysis, Report
<1>n. n \in Nat
  OBVIOUS
<1>hn. HIDE DEF n
<1> DEFINE f == [i \in 0 .. n |-> st[i]]
           e == [i \in 0 .. n |-> AnalysisOf(events, i, f[i - 1])]
<1>2. ASSUME NEW i \in 0 .. n PROVE f[i] = e[i]
  <2>1. f[i] = AnalysisOf(events, i, st[i - 1])
    BY <1>1 DEF Analysed
  <2>2. e[i] = AnalysisOf(events, i, f[i - 1])
    OBVIOUS
  <2>3. CASE i = 0
    BY <2>1, <2>2, <2>3 DEF AnalysisOf
  <2>4. CASE i # 0
    <3>1. f[i - 1] = st[i - 1]
      BY <1>n, <2>4
    <3> QED BY <2>1, <2>2, <3>1, Zenon
  <2> QED BY <2>3, <2>4
<1>3. f = e
  BY <1>2
<1>4. Is(f)
  BY <1>3, Zenon DEF AnalysisOf
<1>5. Is(h)
  BY <1>4, Zenon
<1>h. HIDE DEF h
<1>7. Analysed(events, n, h)
  <2>1. ASSUME NEW i \in 0 .. n PROVE h[i] = AnalysisOf(events, i, h[i - 1])
    <3>1. h[i] = IF i = 0 THEN [sql |-> EventAggregator, ttimeout |-> EventAggregator,
                                managed_lock |-> <<>>]
                 ELSE Analyse(h[i - 1], events[i])
      BY <1>5
    <3> QED BY <3>1, Zenon DEF AnalysisOf
  <2> QED BY <2>1, Zenon DEF Analysed
<1> QED BY <1>6, <1>7 DEF n

(* The keys of a query and of a lock.                                      *)
LEMMA KeysOfEvents ==
    ASSUME NEW event
    PROVE  IsKeys(SqlKeys(event), 5) /\ IsKeys(LockKeys(event), 4)
<1>1. ASSUME NEW a, NEW b, NEW c, NEW d, NEW e
      PROVE  IsKeys(<<a, b, c, d, e>>, 5) /\ IsKeys(<<a, b, c, d>>, 4)
  BY DEF IsKeys
<1> QED BY <1>1, Zenon DEF SqlKeys, LockKeys

(* They have as many values as others.                                     *)
LEMMA ValuesOfEvents ==
    ASSUME NEW event, NEW other
    PROVE  Zero(SqlValues(event)) = Zero(SqlValues(other))
<1>1. ASSUME NEW x PROVE DOMAIN SqlValues(x) = 1 .. 8
  BY DEF SqlValues
<1>2. ASSUME NEW x PROVE Zero(SqlValues(x)) = [i \in 1 .. 8 |-> 0]
  BY <1>1, Zenon DEF Zero
<1> QED BY <1>2, Zenon

(* The paths are those of the keys.                                        *)
LEMMA PathsAre ==
    ASSUME NEW event, NEW v
    PROVE  /\ Path5(SqlRules, SqlKeys(event), v) = SqlPath(SqlKeys(event), v)
           /\ Path4(LockRules, LockKeys(event), v) = LockPath(LockKeys(event), v)
<1>1. /\ \A t : WrittenAs(DateString, t) = Dated(t)
      /\ \A t : WrittenAs(Plain, t) = Plainly(t)
      /\ \A t : WrittenAs(Hashed, t) = WithHash(t)
  BY DEF WrittenAs, DateString, Plain, Hashed, GenerationRule, Dated, Plainly, WithHash
<1>2. ASSUME NEW q, NEW a
      PROVE  Same(Path1(<<q>>, <<a>>, v),
                  <<WrittenAs(q, a), v>>)
  BY DEF Path1, Same
<1>3. ASSUME NEW q, NEW r, NEW a, NEW b
      PROVE  Same(Path2(<<q, r>>, <<a, b>>, v),
                  <<WrittenAs(q, a), <<WrittenAs(r, b), v>>>>)
  <2>1. Tail(<<q, r>>) = <<r>> /\ Tail(<<a, b>>) = <<b>>
    OBVIOUS
  <2>2. <<q, r>>[1] = q /\ <<a, b>>[1] = a
    OBVIOUS
  <2> DEFINE rest == Path1(<<r>>, <<b>>, v)
             below == <<WrittenAs(r, b), v>>
  <2>3. Path2(<<q, r>>, <<a, b>>, v) = <<WrittenAs(q, a), rest>>
    BY <2>1, <2>2, Zenon DEF Path2
  <2>4. Same(rest, below)
    BY <1>2, Zenon
  <2>h. HIDE DEF rest, below
  <2>5. Same(Path2(<<q, r>>, <<a, b>>, v), <<WrittenAs(q, a), below>>)
    BY <2>3, <2>4, Zenon DEF Same
  <2> QED BY <2>5, Zenon DEF below
<1>4. ASSUME NEW q, NEW r, NEW s, NEW a, NEW b, NEW c
      PROVE  Same(Path3(<<q, r, s>>, <<a, b, c>>, v),
                  <<WrittenAs(q, a), <<WrittenAs(r, b), <<WrittenAs(s, c), v>>>>>>)
  <2>1. Tail(<<q, r, s>>) = <<r, s>> /\ Tail(<<a, b, c>>) = <<b, c>>
    OBVIOUS
  <2>2. <<q, r, s>>[1] = q /\ <<a, b, c>>[1] = a
    OBVIOUS
  <2> DEFINE rest == Path2(<<r, s>>, <<b, c>>, v)
             below == <<WrittenAs(r, b), <<WrittenAs(s, c), v>>>>
  <2>3. Path3(<<q, r, s>>, <<a, b, c>>, v) = <<WrittenAs(q, a), rest>>
    BY <2>1, <2>2, Zenon DEF Path3
  <2>4. Same(rest, below)
    BY <1>3, Zenon
  <2>h. HIDE DEF rest, below
  <2>5. Same(Path3(<<q, r, s>>, <<a, b, c>>, v), <<WrittenAs(q, a), below>>)
    BY <2>3, <2>4, Zenon DEF Same
  <2> QED BY <2>5, Zenon DEF below
<1>5. ASSUME NEW q, NEW r, NEW s, NEW t, NEW a, NEW b, NEW c, NEW d
      PROVE  Same(Path4(<<q, r, s, t>>, <<a, b, c, d>>, v),
                  <<WrittenAs(q, a), <<WrittenAs(r, b), <<WrittenAs(s, c), <<WrittenAs(t, d), v>>>>>>>>)
  <2>1. Tail(<<q, r, s, t>>) = <<r, s, t>> /\ Tail(<<a, b, c, d>>) = <<b, c, d>>
    OBVIOUS
  <2>2. <<q, r, s, t>>[1] = q /\ <<a, b, c, d>>[1] = a
    OBVIOUS
  <2> DEFINE rest == Path3(<<r, s, t>>, <<b, c, d>>, v)
             below == <<WrittenAs(r, b), <<WrittenAs(s, c), <<WrittenAs(t, d), v>>>>>>
  <2>3. Path4(<<q, r, s, t>>, <<a, b, c, d>>, v) = <<WrittenAs(q, a), rest>>
    BY <2>1, <2>2, Zenon DEF Path4
  <2>4. Same(rest, below)
    BY <1>4, Zenon
  <2>h. HIDE DEF rest, below
  <2>5. Same(Path4(<<q, r, s, t>>, <<a, b, c, d>>, v), <<WrittenAs(q, a), below>>)
    BY <2>3, <2>4, Zenon DEF Same
  <2> QED BY <2>5, Zenon DEF below
<1>6. ASSUME NEW q, NEW r, NEW s, NEW t, NEW u, NEW a, NEW b, NEW c, NEW d, NEW e
      PROVE  Same(Path5(<<q, r, s, t, u>>, <<a, b, c, d, e>>, v),
                  <<WrittenAs(q, a), <<WrittenAs(r, b), <<WrittenAs(s, c), <<WrittenAs(t, d), <<WrittenAs(u, e), v>>>>>>>>>>)
  <2>1. Tail(<<q, r, s, t, u>>) = <<r, s, t, u>> /\ Tail(<<a, b, c, d, e>>) = <<b, c, d, e>>
    OBVIOUS
  <2>2. <<q, r, s, t, u>>[1] = q /\ <<a, b, c, d, e>>[1] = a
    OBVIOUS
  <2> DEFINE rest == Path4(<<r, s, t, u>>, <<b, c, d, e>>, v)
             below == <<WrittenAs(r, b), <<WrittenAs(s, c), <<WrittenAs(t, d), <<WrittenAs(u, e), v>>>>>>>>
  <2>3. Path5(<<q, r, s, t, u>>, <<a, b, c, d, e>>, v) = <<WrittenAs(q, a), rest>>
    BY <2>1, <2>2, Zenon DEF Path5
  <2>4. Same(rest, below)
    BY <1>5, Zenon
  <2>h. HIDE DEF rest, below
  <2>5. Same(Path5(<<q, r, s, t, u>>, <<a, b, c, d, e>>, v), <<WrittenAs(q, a), below>>)
    BY <2>3, <2>4, Zenon DEF Same
  <2> QED BY <2>5, Zenon DEF below
<1>7. ASSUME NEW a, NEW b, NEW c, NEW d, NEW e
      PROVE  Path5(SqlRules, <<a, b, c, d, e>>, v) = SqlPath(<<a, b, c, d, e>>, v)
  <2> DEFINE k == <<a, b, c, d, e>>
  <2>1. k[1] = a /\ k[2] = b /\ k[3] = c /\ k[4] = d /\ k[5] = e
    OBVIOUS
  <2>2. Same(Path5(SqlRules, k, v),
             <<WrittenAs(DateString, a), <<WrittenAs(Plain, b), <<WrittenAs(Hashed, c), <<WrittenAs(Hashed, d), <<WrittenAs(Hashed, e), v>>>>>>>>>>)
    BY <1>6, Zenon DEF SqlRules
  <2>3. /\ WrittenAs(DateString, a) = Dated(a)
      /\ WrittenAs(Plain, b) = Plainly(b)
      /\ WrittenAs(Hashed, c) = WithHash(c)
      /\ WrittenAs(Hashed, d) = WithHash(d)
      /\ WrittenAs(Hashed, e) = WithHash(e)
    BY <1>1
  <2>4. Path5(SqlRules, k, v)
            = <<Dated(a), <<Plainly(b), <<WithHash(c), <<WithHash(d), <<WithHash(e), v>>>>>>>>>>
    BY <2>2, <2>3, Zenon DEF Same
  <2>5. SqlPath(k, v) = <<Dated(a), <<Plainly(b), <<WithHash(c), <<WithHash(d), <<WithHash(e), v>>>>>>>>>>
    <3> HIDE DEF k
    <3> QED BY <2>1, Zenon DEF SqlPath, LockPath
  <2> QED BY <2>4, <2>5, Zenon
<1>8. ASSUME NEW a, NEW b, NEW c, NEW d
      PROVE  Path4(LockRules, <<a, b, c, d>>, v) = LockPath(<<a, b, c, d>>, v)
  <2> DEFINE k == <<a, b, c, d>>
  <2>1. k[1] = a /\ k[2] = b /\ k[3] = c /\ k[4] = d
    OBVIOUS
  <2>2. Same(Path4(LockRules, k, v),
             <<WrittenAs(DateString, a), <<WrittenAs(Plain, b), <<WrittenAs(Hashed, c), <<WrittenAs(Hashed, d), v>>>>>>>>)
    BY <1>5, Zenon DEF LockRules
  <2>3. /\ WrittenAs(DateString, a) = Dated(a)
      /\ WrittenAs(Plain, b) = Plainly(b)
      /\ WrittenAs(Hashed, c) = WithHash(c)
      /\ WrittenAs(Hashed, d) = WithHash(d)
    BY <1>1
  <2>4. Path4(LockRules, k, v)
            = <<Dated(a), <<Plainly(b), <<WithHash(c), <<WithHash(d), v>>>>>>>>
    BY <2>2, <2>3, Zenon DEF Same
  <2>5. LockPath(k, v) = <<Dated(a), <<Plainly(b), <<WithHash(c), <<WithHash(d), v>>>>>>>>
    <3> HIDE DEF k
    <3> QED BY <2>1, Zenon DEF LockPath
  <2> QED BY <2>4, <2>5, Zenon
<1> QED BY <1>7, <1>8, Zenon DEF SqlKeys, LockKeys

\* The events of a name in a log, their keys and their values.
Of(events, name) == {k \in DOMAIN events : events[k].name = name}
SqlKeysOf(events) == [k \in Of(events, "DBMSSQL") |-> SqlKeys(events[k])]
SqlValuesOf(events) == [k \in Of(events, "DBMSSQL") |-> SqlValues(events[k])]
LockKeysOf(events) == [k \in Of(events, "TTIMEOUT") |-> LockKeys(events[k])]
OnesOf(events) == [k \in Of(events, "TTIMEOUT") |-> <<1>>]

\* The row of the k-th event, when it is a lock.
LockRow(events, k) == IF events[k].name = "TTIMEOUT" THEN <<ManagedLockEvent(events[k])>> ELSE <<>>
LockRows(events, n) == [k \in 1 .. n |-> LockRow(events, k)]

(* What one event does.                                                    *)
LEMMA AnalysedStep ==
    ASSUME NEW events, NEW n \in Nat, NEW st, Analysed(events, n, st), NEW i \in 1 .. n
    PROVE  /\ st[i].sql = IF events[i].name = "DBMSSQL"
                          THEN Add5(st[i - 1].sql, SqlValues(events[i]), SqlKeys(events[i]))
                          ELSE st[i - 1].sql
           /\ st[i].ttimeout = IF events[i].name = "TTIMEOUT"
                               THEN Add4(st[i - 1].ttimeout, <<1>>, LockKeys(events[i]))
                               ELSE st[i - 1].ttimeout
           /\ st[i].managed_lock = IF events[i].name = "TTIMEOUT"
                                   THEN Append(st[i - 1].managed_lock, ManagedLockEvent(events[i]))
                                   ELSE st[i - 1].managed_lock
<1>1. i \in 0 .. n /\ i # 0
  OBVIOUS
<1>2. st[i] = Analyse(st[i - 1], events[i])
  BY <1>1, Zenon DEF Analysed, AnalysisOf
<1> QED BY <1>2, SMT DEF Analyse

(* At first there is nothing.                                              *)
LEMMA AnalysedStart ==
    ASSUME NEW events, NEW n \in Nat, NEW st, Analysed(events, n, st)
    PROVE  /\ st[0].sql = EventAggregator /\ st[0].ttimeout = EventAggregator
           /\ st[0].managed_lock = <<>>
<1>1. 0 \in 0 .. n
  OBVIOUS
<1>2. st[0] = [sql |-> EventAggregator, ttimeout |-> EventAggregator, managed_lock |-> <<>>]
  BY <1>1, Zenon DEF Analysed, AnalysisOf
<1> QED BY <1>2

(* The rows of the requests.                                               *)
LEMMA SqlRowsAddUp ==
    ASSUME NEW events, NEW n \in Nat, DOMAIN events = 1 .. n, NEW st, Analysed(events, n, st)
    PROVE  Rows5(st[n].sql, SqlRules) =
               {SqlPath(SqlKeysOf(events)[k], Total(n, SqlKeysOf(events), SqlValuesOf(events), k)) :
                   k \in Of(events, "DBMSSQL")}
<1> DEFINE keys == SqlKeysOf(events)
           values == SqlValuesOf(events)
           agg == [i \in 0 .. n |-> st[i].sql]
           D == Of(events, "DBMSSQL")
<1>1. DOMAIN keys = D /\ D \subseteq 1 .. n
  BY DEF SqlKeysOf, Of
<1>2. \A k \in D : keys[k] = SqlKeys(events[k]) /\ values[k] = SqlValues(events[k])
  BY DEF SqlKeysOf, SqlValuesOf
<1>3. \A i \in 1 .. n : i \in D <=> events[i].name = "DBMSSQL"
  BY DEF Of
<1>h. HIDE DEF keys, values, D
<1>4. Adds5(n, agg, keys, values)
  <2>1. agg[0] = EventAggregator
    <3>1. agg[0] = st[0].sql
      OBVIOUS
    <3> QED BY <3>1, AnalysedStart, Zenon
  <2>2. ASSUME NEW i \in 1 .. n
        PROVE  agg[i] = IF i \in DOMAIN keys THEN Add5(agg[i - 1], values[i], keys[i]) ELSE agg[i - 1]
    <3>1. agg[i] = st[i].sql /\ agg[i - 1] = st[i - 1].sql
      OBVIOUS
    <3>2. st[i].sql = IF events[i].name = "DBMSSQL"
                      THEN Add5(st[i - 1].sql, SqlValues(events[i]), SqlKeys(events[i]))
                      ELSE st[i - 1].sql
      BY AnalysedStep
    <3>h. HIDE DEF agg
    <3>3. CASE i \in D
      BY <1>1, <1>2, <1>3, <3>1, <3>2, <3>3
    <3>4. CASE i \notin D
      BY <1>1, <1>3, <3>1, <3>2, <3>4
    <3> QED BY <3>3, <3>4
  <2>h. HIDE DEF agg
  <2> QED BY <2>1, <2>2, Zenon DEF Adds5
<1>5. \A i \in DOMAIN keys : IsKeys(keys[i], 5)
  <2>1. ASSUME NEW i \in D PROVE IsKeys(keys[i], 5)
    <3>1. IsKeys(SqlKeys(events[i]), 5)
      BY KeysOfEvents, Zenon
    <3> QED BY <1>2, <3>1, Zenon
  <2> QED BY <1>1, <2>1
<1>6. \A i, j \in DOMAIN keys : Zero(values[i]) = Zero(values[j])
  <2>1. ASSUME NEW i \in D, NEW j \in D PROVE Zero(values[i]) = Zero(values[j])
    <3>1. Zero(SqlValues(events[i])) = Zero(SqlValues(events[j]))
      BY ValuesOfEvents, SMT
    <3>2. values[i] = SqlValues(events[i]) /\ values[j] = SqlValues(events[j])
      BY <1>2, Zenon
    <3> QED BY <3>1, <3>2, Zenon
  <2> QED BY <1>1, <2>1
<1>7. agg[n] = st[n].sql
  OBVIOUS
<1>h2. HIDE DEF agg
<1>8. Rows5(agg[n], SqlRules) =
          {Path5(SqlRules, keys[k], Total(n, keys, values, k)) : k \in DOMAIN keys}
  <2>1. DOMAIN keys \subseteq 1 .. n
    BY <1>1
  <2>2. Same(Rows5(agg[n], SqlRules), Totals5(n, keys, values, SqlRules))
    BY <1>4, <1>5, <1>6, <2>1, RowsAddUp5, Zenon
  <2> QED BY <2>2, Zenon DEF Same, Totals5
<1>9. ASSUME NEW k \in D
      PROVE  Path5(SqlRules, keys[k], Total(n, keys, values, k))
                 = SqlPath(keys[k], Total(n, keys, values, k))
  <2> DEFINE v == Total(n, keys, values, k)
  <2>h. HIDE DEF v
  <2>1. Path5(SqlRules, SqlKeys(events[k]), v) = SqlPath(SqlKeys(events[k]), v)
    BY PathsAre, SMT
  <2>2. Path5(SqlRules, keys[k], v) = SqlPath(keys[k], v)
    BY <1>2, <2>1
  <2> QED BY <2>2 DEF v
<1>10. Rows5(st[n].sql, SqlRules) =
           {SqlPath(keys[k], Total(n, keys, values, k)) : k \in D}
  BY <1>1, <1>7, <1>8, <1>9
<1> QED BY <1>10, Zenon DEF keys, values, D

(* The rows of the locks that are counted.                                 *)
LEMMA LockRowsAddUp ==
    ASSUME NEW events, NEW n \in Nat, DOMAIN events = 1 .. n, NEW st, Analysed(events, n, st)
    PROVE  Rows4(st[n].ttimeout, LockRules) =
               {LockPath(LockKeysOf(events)[k], Total(n, LockKeysOf(events), OnesOf(events), k)) :
                   k \in Of(events, "TTIMEOUT")}
<1> DEFINE keys == LockKeysOf(events)
           values == OnesOf(events)
           agg == [i \in 0 .. n |-> st[i].ttimeout]
           D == Of(events, "TTIMEOUT")
<1>1. DOMAIN keys = D /\ D \subseteq 1 .. n
  BY DEF LockKeysOf, Of
<1>2. \A k \in D : keys[k] = LockKeys(events[k]) /\ values[k] = <<1>>
  BY DEF LockKeysOf, OnesOf
<1>3. \A i \in 1 .. n : i \in D <=> events[i].name = "TTIMEOUT"
  BY DEF Of
<1>h. HIDE DEF keys, values, D
<1>4. Adds4(n, agg, keys, values)
  <2>1. agg[0] = EventAggregator
    <3>1. agg[0] = st[0].ttimeout
      OBVIOUS
    <3> QED BY <3>1, AnalysedStart, Zenon
  <2>2. ASSUME NEW i \in 1 .. n
        PROVE  agg[i] = IF i \in DOMAIN keys THEN Add4(agg[i - 1], values[i], keys[i]) ELSE agg[i - 1]
    <3>1. agg[i] = st[i].ttimeout /\ agg[i - 1] = st[i - 1].ttimeout
      OBVIOUS
    <3>2. st[i].ttimeout = IF events[i].name = "TTIMEOUT"
                           THEN Add4(st[i - 1].ttimeout, <<1>>, LockKeys(events[i]))
                           ELSE st[i - 1].ttimeout
      BY AnalysedStep
    <3>h. HIDE DEF agg
    <3>3. CASE i \in D
      BY <1>1, <1>2, <1>3, <3>1, <3>2, <3>3
    <3>4. CASE i \notin D
      BY <1>1, <1>3, <3>1, <3>2, <3>4
    <3> QED BY <3>3, <3>4
  <2>h. HIDE DEF agg
  <2> QED BY <2>1, <2>2, Zenon DEF Adds4
<1>5. \A i \in DOMAIN keys : IsKeys(keys[i], 4)
  <2>1. ASSUME NEW i \in D PROVE IsKeys(keys[i], 4)
    <3>1. IsKeys(LockKeys(events[i]), 4)
      BY KeysOfEvents, Zenon
    <3> QED BY <1>2, <3>1, Zenon
  <2> QED BY <1>1, <2>1
<1>6. \A i, j \in DOMAIN keys : Zero(values[i]) = Zero(values[j])
  BY <1>1, <1>2
<1>7. agg[n] = st[n].ttimeout
  OBVIOUS
<1>h2. HIDE DEF agg
<1>8. Rows4(agg[n], LockRules) =
          {Path4(LockRules, keys[k], Total(n, keys, values, k)) : k \in DOMAIN keys}
  <2>1. DOMAIN keys \subseteq 1 .. n
    BY <1>1
  <2>2. Same(Rows4(agg[n], LockRules), Totals4(n, keys, values, LockRules))
    BY <1>4, <1>5, <1>6, <2>1, RowsAddUp4, Zenon
  <2> QED BY <2>2, Zenon DEF Same, Totals4
<1>9. ASSUME NEW k \in D
      PROVE  Path4(LockRules, keys[k], Total(n, keys, values, k))
                 = LockPath(keys[k], Total(n, keys, values, k))
  <2> DEFINE v == Total(n, keys, values, k)
  <2>h. HIDE DEF v
  <2>1. Path4(LockRules, LockKeys(events[k]), v) = LockPath(LockKeys(events[k]), v)
    BY PathsAre, SMT
  <2>2. Path4(LockRules, keys[k], v) = LockPath(keys[k], v)
    BY <1>2, <2>1
  <2> QED BY <2>2 DEF v
<1>10. Rows4(st[n].ttimeout, LockRules) =
           {LockPath(keys[k], Total(n, keys, values, k)) : k \in D}
  BY <1>1, <1>7, <1>8, <1>9
<1> QED BY <1>10, Zenon DEF keys, values, D

(* Each lock has its own row, in the order of the log.                     *)
LEMMA LocksInOrder ==
    ASSUME NEW events, NEW n \in Nat, DOMAIN events = 1 .. n, NEW st, Analysed(events, n, st)
    PROVE  st[n].managed_lock = FlattenSeq(LockRows(events, n))
<1> DEFINE R == {ManagedLockEvent(events[k]) : k \in 1 .. n}
           L(i) == LockRows(events, i)
           S == {i \in Nat : i <= n => st[i].managed_lock = FlattenSeq(L(i))}
<1>1. ASSUME NEW k \in 1 .. n PROVE LockRow(events, k) \in Seq(R)
  <2>1. ManagedLockEvent(events[k]) \in R
    OBVIOUS
  <2>h. HIDE DEF R
  <2> QED BY <2>1 DEF LockRow
<1>hR. HIDE DEF R
<1>2. ASSUME NEW i \in Nat, i <= n PROVE L(i) \in Seq(Seq(R))
  <2>1. \A k \in 1 .. i : LockRow(events, k) \in Seq(R)
    BY <1>1, <1>2
  <2> DEFINE T == Seq(R)
  <2>h. HIDE DEF T
  <2>2. [k \in 1 .. i |-> LockRow(events, k)] \in Seq(T)
    BY <2>1 DEF T
  <2> QED BY <2>2 DEF T, LockRows
<1>3. 0 \in S
  <2>1. L(0) = <<>>
    BY DEF LockRows
  <2>2. st[0].managed_lock = <<>>
    BY AnalysedStart, Zenon
  <2>3. FlattenSeq(L(0)) = <<>>
    BY <2>1, FlattenEmpty, Zenon
  <2> QED BY <2>2, <2>3
<1>4. ASSUME NEW i \in Nat, i \in S PROVE i + 1 \in S
  <2> SUFFICES ASSUME i + 1 <= n PROVE st[i + 1].managed_lock = FlattenSeq(L(i + 1))
    OBVIOUS
  <2> DEFINE row == LockRow(events, i + 1)
             old == st[i].managed_lock
             flat == FlattenSeq(L(i))
  <2>0. i + 1 \in 1 .. n /\ (i + 1) - 1 = i /\ i <= n
    OBVIOUS
  <2>1. old = flat
    BY <1>4, <2>0
  <2>2. row \in Seq(R) /\ L(i) \in Seq(Seq(R))
    BY <1>1, <1>2, <2>0
  <2>3. L(i + 1) = Append(L(i), row)
    BY DEF LockRows
  <2>4. FlattenSeq(L(i + 1)) = flat \o row
    <3> DEFINE l == L(i)
               r == row
    <3>1. l \in Seq(Seq(R)) /\ r \in Seq(R) /\ L(i + 1) = Append(l, r)
      BY <2>2, <2>3
    <3>h. HIDE DEF l, r
    <3>2. FlattenSeq(Append(l, r)) = FlattenSeq(l) \o r
      BY <3>1, FlattenAppend
    <3> QED BY <3>1, <3>2, Zenon DEF l, r
  <2>5. st[i + 1].managed_lock = IF events[i + 1].name = "TTIMEOUT"
                                 THEN Append(old, ManagedLockEvent(events[i + 1]))
                                 ELSE old
    BY <2>0, AnalysedStep
  <2>6. flat \in Seq(R)
    BY <2>2, FlattenType
  <2>h. HIDE DEF old, flat
  <2>7. CASE events[i + 1].name = "TTIMEOUT"
    <3> DEFINE m == ManagedLockEvent(events[i + 1])
    <3>1. row = <<m>> /\ st[i + 1].managed_lock = Append(flat, m)
      BY <2>1, <2>5, <2>7, Zenon DEF LockRow
    <3>2. m \in R
      BY <2>0 DEF R
    <3>h. HIDE DEF m, row
    <3>3. Append(flat, m) = flat \o <<m>>
      BY <2>6, <3>2
    <3> QED BY <2>4, <3>1, <3>3, Zenon
  <2>8. CASE events[i + 1].name # "TTIMEOUT"
    <3>1. row = <<>> /\ st[i + 1].managed_lock = flat
      BY <2>1, <2>5, <2>8, Zenon DEF LockRow
    <3>h. HIDE DEF row
    <3>2. flat = flat \o <<>>
      BY <2>6
    <3> QED BY <2>4, <3>1, <3>2, Zenon
  <2> QED BY <2>7, <2>8
<1>h. HIDE DEF L
<1>5. Nat \subseteq S
  BY <1>3, <1>4, NatSetInduction
<1>6. st[n].managed_lock = FlattenSeq(L(n))
  BY <1>5
<1> QED BY <1>6 DEF L

(* RunAnalysis: for every minute, base, context and form of a query that   *)
(* occurs there is one path through the rows, with the sums over exactly   *)
(* its events; locks are counted likewise and have a row each: for every   *)
(* log, whatever its events are.                                           *)
THEOREM AnalysisAddsUpHolds == InputsSpec => []AnalysisAddsUp
<1>1. Answers => AnalysisAddsUp
  <2> DEFINE events == problem.log
             n == Len(events)
  <2> SUFFICES ASSUME Answers, answer # <<>>, problem.kind = "analysis"
               PROVE  /\ Leaves5(answer[1].DBMSSQL) =
                            {SqlPath(SqlKeysOf(events)[k],
                                     Total(n, SqlKeysOf(events), SqlValuesOf(events), k)) :
                                k \in Of(events, "DBMSSQL")}
                      /\ Leaves4(answer[1].TTIMEOUT) =
                            {LockPath(LockKeysOf(events)[k],
                                      Total(n, LockKeysOf(events), OnesOf(events), k)) :
                                k \in Of(events, "TTIMEOUT")}
                      /\ answer[1].MANAGED_LOCKS =
                            FlattenSeq([k \in DOMAIN events |-> LockRow(events, k)])
    BY Zenon DEF AnalysisAddsUp, Answered, Of, SqlKeysOf, SqlValuesOf, LockKeysOf, OnesOf, LockRow
  <2>1. problem \in [kind : {"analysis"}, log : EventLogs]
    BY DEF Answers, InputProblems
  <2>2. events \in Seq(ToSet(events))
    BY <2>1, LogsAssumption
  <2>3. n \in Nat /\ DOMAIN events = 1 .. n
    BY <2>2
  <2>4. answer = <<RunAnalysis(events)>>
    BY DEF Answers
  <2>h. HIDE DEF events, n
  <2>5. PICK st : Analysed(events, n, st) /\ RunAnalysis(events) = Report(st[n])
    BY <2>3, RunAnalysisUnfold DEF n
  <2>6. answer[1] = Report(st[n])
    BY <2>4, <2>5
  <2> DEFINE end == st[n]
  <2>7. /\ Leaves5(answer[1].DBMSSQL) = Rows5(end.sql, SqlRules)
        /\ Leaves4(answer[1].TTIMEOUT) = Rows4(end.ttimeout, LockRules)
        /\ answer[1].MANAGED_LOCKS = end.managed_lock
    BY <2>6 DEF Report, Rows5, Rows4
  <2>8. Leaves5(answer[1].DBMSSQL) =
            {SqlPath(SqlKeysOf(events)[k], Total(n, SqlKeysOf(events), SqlValuesOf(events), k)) :
                k \in Of(events, "DBMSSQL")}
    BY <2>3, <2>5, <2>7, SqlRowsAddUp
  <2>9. Leaves4(answer[1].TTIMEOUT) =
            {LockPath(LockKeysOf(events)[k], Total(n, LockKeysOf(events), OnesOf(events), k)) :
                k \in Of(events, "TTIMEOUT")}
    BY <2>3, <2>5, <2>7, LockRowsAddUp
  <2>10. LockRows(events, n) = [k \in DOMAIN events |-> LockRow(events, k)]
    BY <2>3 DEF LockRows
  <2>11. end.managed_lock = FlattenSeq(LockRows(events, n))
    BY <2>3, <2>5, LocksInOrder
  <2>12. answer[1].MANAGED_LOCKS = FlattenSeq([k \in DOMAIN events |-> LockRow(events, k)])
    BY <2>7, <2>10, <2>11, Zenon
  <2>h2. HIDE DEF end
  <2> QED BY <2>8, <2>9, <2>12, Zenon DEF events, n
<1> QED BY <1>1, AnswersInit, AnswersNext, PTL DEF InputsSpec
=============================================================================
