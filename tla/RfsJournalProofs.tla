-------------------------- MODULE RfsJournalProofs --------------------------
(***************************************************************************)
(* Proofs about RfsJournal, for every number of clusters, entries and      *)
(* inodes, every size of a pre-allocation and of a group of deallocation   *)
(* records, and any interleaving of operations, write-back, inode          *)
(* synchronisation and power losses: types, the entries of the inodes, and *)
(* what the chains of a volume and the replay of a log are.                *)
(***************************************************************************)
EXTENDS RfsJournal, Integers, TLAPS, SequenceTheorems, FiniteSetTheorems, WellFoundedInduction

(***************************************************************************)
(* Naturals and recursive functions.                                       *)
(***************************************************************************)
Less == OpToRel(<, Nat)

\* A set of naturals that is not empty has a least element.
LEMMA Smallest ==
  ASSUME NEW S \in SUBSET Nat, S # {}
  PROVE  \E x \in S : \A y \in S : x <= y
<1>1. IsWellFoundedOn(Less, Nat)
  BY NatLessThanWellFounded DEF Less
<1>2. PICK x \in S : \A y \in S : ~(<<y, x>> \in Less)
  BY <1>1, WFMin
<1>3. ASSUME NEW y \in S, y < x PROVE <<y, x>> \in Less
  BY <1>3 DEF OpToRel, Less
<1>4. ASSUME NEW y \in S PROVE x <= y
  <2>1. ~(y < x)
    BY <1>2, <1>3
  <2>2. QED BY <2>1
<1>5. QED BY <1>4

\* A set of naturals that holds 0 and with n - 1 also n, up to N, holds all of
\* them: induction, on a set.
LEMMA Reaches ==
  ASSUME NEW N \in Nat, NEW S,
         0 \in S, \A n \in 1..N : n - 1 \in S => n \in S
  PROVE  \A n \in 0..N : n \in S
<1> DEFINE Out == {n \in 0..N : n \notin S}
<1>1. SUFFICES ASSUME Out # {} PROVE FALSE
  OBVIOUS
<1>2. Out \in SUBSET Nat
  OBVIOUS
<1>3. PICK x \in Out : \A y \in Out : x <= y
  BY <1>1, <1>2, Smallest
<1>4. x \in 1..N
  OBVIOUS
<1>5. x - 1 \in S
  BY <1>3, <1>4
<1>6. QED BY <1>3, <1>4, <1>5

\* Functions that start with a and take the step g[n] to their n-th value.
Maps(N, D) == [0..N -> D]
StepsOn(N, D) == [1..N -> [D -> D]]
Follows(f, N, a, g) == f[0] = a /\ \A n \in 1..N : f[n] = g[n][f[n - 1]]

\* The recursive function that starts with a and takes the step g exists, and
\* the function its definition chooses is it.
LEMMA Recursion ==
  ASSUME NEW N \in Nat, NEW D, NEW a \in D, NEW g \in StepsOn(N, D)
  PROVE  \E f \in Maps(N, D) : Follows(f, N, a, g)
<1> USE DEF StepsOn, Maps, Follows
<1> DEFINE Is(u, m) == /\ u \in [0..m -> D] /\ u[0] = a
                       /\ \A n \in 1..m : u[n] = g[n][u[n - 1]]
           S == {m \in 0..N : \E u : Is(u, m)}
<1>1. 0 \in S
  <2>1. Is([n \in 0..0 |-> a], 0)
    OBVIOUS
  <2> HIDE DEF Is
  <2>2. \E u : Is(u, 0)
    BY <2>1
  <2>3. QED BY <2>2
<1>2. ASSUME NEW m \in 1..N, m - 1 \in S PROVE m \in S
  <2>1. PICK f : Is(f, m - 1)
    BY <1>2
  <2> DEFINE h == [n \in 0..m |-> IF n = m THEN g[m][f[m - 1]] ELSE f[n]]
  <2>2. f[m - 1] \in D
    BY <2>1
  <2>3. g[m][f[m - 1]] \in D
    BY <2>2
  <2>4. h \in [0..m -> D]
    BY <2>1, <2>3
  <2>5. ASSUME NEW n \in 1..m PROVE h[n] = g[n][h[n - 1]]
    <3>1. h[n - 1] = f[n - 1]
      OBVIOUS
    <3>2. CASE n = m
      <4>1. h[n] = g[m][f[m - 1]]
        BY <3>2
      <4> HIDE DEF h
      <4>2. QED BY <3>1, <3>2, <4>1
    <3>3. CASE n # m
      <4>1. n \in 1..(m - 1) /\ h[n] = f[n]
        BY <3>3
      <4>2. QED BY <2>1, <3>1, <4>1
    <3>4. QED BY <3>2, <3>3
  <2>6. h[0] = a
    BY <2>1
  <2>7. Is(h, m)
    BY <2>4, <2>5, <2>6
  <2> HIDE DEF Is
  <2>8. \E u : Is(u, m)
    BY <2>7
  <2>9. QED BY <2>8
<1>3. \A n \in 0..N : n \in S
  <2> HIDE DEF S
  <2>1. QED BY <1>1, <1>2, Reaches
<1>4. N \in S
  BY <1>3
<1>5. QED BY <1>4

-----------------------------------------------------------------------------
(***************************************************************************)
(* Chains.                                                                 *)
(***************************************************************************)
FatVal == Cluster \cup {FREE, TAIL}
FatMap == [FatIndex -> FatVal]
Path == Seq(FatIndex) \ {<<>>}

\* One more cluster of a chain, if there is one.
Longer(fat, p) == IF fat[Last(p)] \in Cluster THEN Append(p, fat[Last(p)]) ELSE p

LEMMA PathLast ==
  ASSUME NEW p \in Path
  PROVE  Len(p) \in Nat \ {0} /\ Last(p) = p[Len(p)] /\ Last(p) \in FatIndex
BY DEF Path, Last

LEMMA LongerPath ==
  ASSUME NEW fat \in FatMap, NEW p \in Path
  PROVE  Longer(fat, p) \in Path
BY PathLast DEF Longer, Path, FatIndex

\* The steps of the walk, and that the chain is where they end.
LEMMA WalkSteps ==
  ASSUME NEW fat \in FatMap, NEW c \in FatIndex, NEW N, N = Cardinality(Cluster)
  PROVE  \E w \in [0..N -> Path] :
           /\ w[0] = <<c>>
           /\ \A n \in 1..N : w[n] = Longer(fat, w[n - 1])
           /\ ChainFrom(fat, c) = w[N]
<1>1. N \in Nat
  BY RfsAssumption, FS_CardinalityType
<1> DEFINE a == <<c>>
           g == [n \in 1..N |-> [p \in Path |-> Longer(fat, p)]]
           Eq(w) == w = [n \in 0..N |-> IF n = 0 THEN <<c>>
                          ELSE LET p == w[n - 1]
                               IN IF fat[Last(p)] \in Cluster
                                  THEN Append(p, fat[Last(p)]) ELSE p]
           W == CHOOSE w : Eq(w)
<1>2. a \in Path
  BY DEF Path
<1>3. g \in [1..N -> [Path -> Path]]
  BY LongerPath
<1>4. PICK f \in [0..N -> Path] :
           f[0] = a /\ \A n \in 1..N : f[n] = g[n][f[n - 1]]
  <2> HIDE DEF a, g
  <2>1. g \in StepsOn(N, Path)
    BY <1>3 DEF StepsOn
  <2>2. \E u \in Maps(N, Path) : Follows(u, N, a, g)
    BY <1>1, <1>2, <2>1, Recursion
  <2>3. QED BY <2>2 DEF Maps, Follows
<1>5. ASSUME NEW n \in 1..N PROVE f[n] = Longer(fat, f[n - 1])
  <2>1. f[n - 1] \in Path
    BY <1>1, <1>4
  <2>2. g[n][f[n - 1]] = Longer(fat, f[n - 1])
    BY <2>1
  <2>3. f[n] = g[n][f[n - 1]]
    <3> HIDE DEF g
    <3>1. n \in 0..N /\ n # 0
      BY <1>1
    <3>2. QED BY <1>4, <3>1
  <2>4. QED BY <2>2, <2>3
<1>6. f[0] = <<c>>
  BY <1>1, <1>4
<1>7. Eq(f)
  <2>1. ASSUME NEW n \in 0..N
        PROVE  f[n] = IF n = 0 THEN <<c>> ELSE Longer(fat, f[n - 1])
    <3>1. n # 0 => n \in 1..N
      BY <1>1
    <3>2. QED BY <1>5, <1>6, <3>1
  <2>2. QED BY <2>1 DEF Longer
<1>8. Eq(W)
  BY <1>7
<1>9. ChainFrom(fat, c) = W[N]
  BY DEF ChainFrom
<1>10. W[0] = <<c>> /\ \A n \in 1..N : W[n] = Longer(fat, W[n - 1])
  <2> HIDE DEF W
  <2>1. ASSUME NEW n \in 0..N
        PROVE  W[n] = IF n = 0 THEN <<c>> ELSE Longer(fat, W[n - 1])
    BY <1>8 DEF Longer
  <2>2. 0 \in 0..N /\ \A n \in 1..N : n \in 0..N /\ n # 0
    BY <1>1
  <2>3. QED BY <2>1, <2>2
<1>11. \A n \in 0..N : W[n] \in Path
  <2> HIDE DEF W
  <2> DEFINE S == {n \in 0..N : W[n] \in Path}
  <2>1. 0 \in S
    BY <1>1, <1>2, <1>10
  <2>2. ASSUME NEW n \in 1..N, n - 1 \in S PROVE n \in S
    BY <1>1, <1>10, <2>2, LongerPath
  <2> HIDE DEF S
  <2>3. \A n \in 0..N : n \in S
    BY <1>1, <2>1, <2>2, Reaches
  <2>4. QED BY <2>3 DEF S
<1>12. W = [n \in 0..N |-> W[n]]
  <2> HIDE DEF W
  <2>1. QED BY <1>8
<1>13. W \in [0..N -> Path]
  <2> HIDE DEF W
  <2>1. QED BY <1>11, <1>12
<1>14. QED
  <2> HIDE DEF W
  <2>1. QED BY <1>9, <1>10, <1>13

-----------------------------------------------------------------------------
(***************************************************************************)
(* Sequences of sequences.                                                 *)
(***************************************************************************)
LEMMA FlattenEmpty ==
  ASSUME NEW S, NEW seqs \in Seq(S), Len(seqs) = 0
  PROVE  FlattenSeq(seqs) = <<>>
BY DEF FlattenSeq

\* The values of a function are those of the concatenations from the left.
Partials(seqs, S) == [1..Len(seqs) -> Seq(S)]
Concatenates(h, seqs) ==
  /\ h[1] = seqs[1]
  /\ \A i \in 2..Len(seqs) : h[i] = h[i - 1] \o seqs[i]
  /\ FlattenSeq(seqs) = h[Len(seqs)]

LEMMA FlattenSteps ==
  ASSUME NEW S, NEW seqs \in Seq(Seq(S)), Len(seqs) # 0
  PROVE  \E h \in Partials(seqs, S) : Concatenates(h, seqs)
<1> DEFINE L == Len(seqs)
<1>1. L \in Nat \ {0} /\ \A i \in 1..L : seqs[i] \in Seq(S)
  OBVIOUS
<1> DEFINE N == L - 1
           a == seqs[1]
           g == [n \in 1..N |-> [p \in Seq(S) |-> p \o seqs[n + 1]]]
           Eq(w) == w = [i \in 1..L |-> IF i = 1 THEN seqs[i] ELSE w[i - 1] \o seqs[i]]
           W == CHOOSE w : Eq(w)
<1>2. N \in Nat /\ a \in Seq(S)
  BY <1>1
<1>3. g \in StepsOn(N, Seq(S))
  <2>1. ASSUME NEW n \in 1..N, NEW p \in Seq(S) PROVE p \o seqs[n + 1] \in Seq(S)
    <3>1. n + 1 \in 1..L
      BY <1>1
    <3>2. seqs[n + 1] \in Seq(S)
      BY <1>1, <3>1
    <3>3. QED BY <3>2
  <2>2. QED BY <2>1 DEF StepsOn
<1>4. PICK f \in Maps(N, Seq(S)) : Follows(f, N, a, g)
  <2> HIDE DEF a, g, N
  <2>1. QED BY <1>2, <1>3, Recursion
<1>5. f \in [0..N -> Seq(S)] /\ f[0] = seqs[1]
  BY <1>4 DEF Maps, Follows
<1>6. ASSUME NEW i \in 2..L PROVE f[i - 1] = f[i - 2] \o seqs[i]
  <2>1. i - 1 \in 1..N /\ (i - 1) - 1 = i - 2 /\ (i - 1) + 1 = i
    BY <1>1
  <2>2. f[i - 2] \in Seq(S)
    <3>1. i - 2 \in 0..N
      BY <1>1
    <3>2. QED BY <1>5, <3>1
  <2>3. f[i - 1] = g[i - 1][f[(i - 1) - 1]]
    <3> HIDE DEF g, N
    <3>1. QED BY <1>4, <2>1 DEF Follows
  <2>4. g[i - 1][f[i - 2]] = f[i - 2] \o seqs[i]
    BY <2>1, <2>2
  <2>5. QED BY <2>1, <2>3, <2>4
<1> DEFINE h == [i \in 1..L |-> f[i - 1]]
<1>7. h \in [1..L -> Seq(S)]
  BY <1>1, <1>5
<1>8. h[1] = seqs[1] /\ \A i \in 2..L : h[i] = h[i - 1] \o seqs[i]
  <2>1. h[1] = seqs[1]
    BY <1>1, <1>5
  <2>2. ASSUME NEW i \in 2..L PROVE h[i] = h[i - 1] \o seqs[i]
    <3>1. h[i] = f[i - 1] /\ h[i - 1] = f[i - 2]
      BY <1>1
    <3>2. QED BY <1>6, <3>1
  <2>3. QED BY <2>1, <2>2
<1>9. Eq(h)
  <2>1. ASSUME NEW i \in 1..L
        PROVE  h[i] = IF i = 1 THEN seqs[i] ELSE h[i - 1] \o seqs[i]
    <3> HIDE DEF h
    <3>1. i # 1 => i \in 2..L
      BY <1>1
    <3>2. QED BY <1>8, <3>1
  <2>2. QED BY <2>1
<1>10. Eq(W)
  <2> HIDE DEF h, Eq
  <2>1. \E w : Eq(w)
    BY <1>9
  <2>2. QED BY <2>1
<1>11. FlattenSeq(seqs) = W[L]
  BY <1>1 DEF FlattenSeq
<1>12. \A i \in 1..L : W[i] = h[i]
  <2> HIDE DEF W, h
  <2>1. \A i \in 1..L : W[i] = IF i = 1 THEN seqs[i] ELSE W[i - 1] \o seqs[i]
    BY <1>10
  <2> DEFINE T == {n \in 0..N : W[n + 1] = h[n + 1]}
  <2>2. 0 \in T
    BY <1>1, <1>8, <2>1
  <2>3. ASSUME NEW n \in 1..N, n - 1 \in T PROVE n \in T
    <3>1. n + 1 \in 2..L /\ (n + 1) - 1 = n /\ (n - 1) + 1 = n /\ n \in 0..N
      BY <1>1
    <3>2. W[n] = h[n]
      BY <2>3, <3>1
    <3>3. W[n + 1] = W[n] \o seqs[n + 1]
      <4>1. SUFFICES ASSUME NEW i \in 2..L, i - 1 = n PROVE W[i] = W[n] \o seqs[i]
        BY <3>1
      <4>2. i \in 1..L /\ i # 1
        BY <1>1
      <4>3. QED BY <2>1, <4>1, <4>2
    <3>4. h[n + 1] = h[n] \o seqs[n + 1]
      <4>1. SUFFICES ASSUME NEW i \in 2..L, i - 1 = n PROVE h[i] = h[n] \o seqs[i]
        BY <3>1
      <4>2. QED BY <1>8, <4>1
    <3>5. QED BY <3>1, <3>2, <3>3, <3>4
  <2>4. \A n \in 0..N : n \in T
    <3> HIDE DEF T, N
    <3>1. QED BY <1>2, <2>2, <2>3, Reaches
  <2>5. ASSUME NEW i \in 1..L PROVE W[i] = h[i]
    <3>1. i - 1 \in 0..N /\ (i - 1) + 1 = i
      BY <1>1
    <3>2. i - 1 \in T
      BY <2>4, <3>1
    <3>3. QED BY <3>1, <3>2
  <2>6. QED BY <2>5
<1>13. FlattenSeq(seqs) = h[L]
  <2> HIDE DEF W, h
  <2>1. L \in 1..L
    BY <1>1
  <2>2. QED BY <1>11, <1>12, <2>1
<1>14. QED
  <2> HIDE DEF h
  <2>1. h \in Partials(seqs, S) /\ Concatenates(h, seqs)
    BY <1>7, <1>8, <1>13 DEF Partials, Concatenates
  <2>2. QED BY <2>1

LEMMA FlattenType ==
  ASSUME NEW S, NEW seqs \in Seq(Seq(S))
  PROVE  FlattenSeq(seqs) \in Seq(S)
<1>1. CASE Len(seqs) = 0
  <2>1. FlattenSeq(seqs) = <<>>
    BY <1>1, FlattenEmpty
  <2>2. QED BY <2>1
<1>2. CASE Len(seqs) # 0
  <2> DEFINE L == Len(seqs)
  <2>1. L \in 1..L
    BY <1>2
  <2>2. PICK h \in Partials(seqs, S) : Concatenates(h, seqs)
    BY <1>2, FlattenSteps
  <2>3. QED BY <2>1, <2>2 DEF Partials, Concatenates
<1>3. QED BY <1>1, <1>2

-----------------------------------------------------------------------------
(***************************************************************************)
(* Types of the in-core state, of the records and of the steps.            *)
(***************************************************************************)
Inodes == [st : {"none", "alloc", "free"}, slot : Slot \cup {None},
           start : Cluster \cup {TAIL}, last : Cluster \cup {TAIL}]

\* An inode in use has an entry, and a first cluster when it has a last one.
InodeOK(i) == /\ i.st = "alloc" => i.slot \in Slot
              /\ i.start = TAIL <=> i.last = TAIL

\* The inodes that belong in the candidate list.
Hung(ino) == {f \in File : ino[f].st = "free" /\ ino[f].start # TAIL}

RamShape == [ino : [File -> Inodes], segs : Seq(File),
             writer : File \cup {None}, pre : Seq(Cluster)]
RamOK(r) == /\ r \in RamShape
            /\ \A f \in File : InodeOK(r.ino[f])
            /\ IsInjective(r.segs) /\ ToSet(r.segs) = Hung(r.ino)
            /\ IsInjective(r.pre)
Rams == {r \in RamShape : RamOK(r)}

\* Where a deallocation takes place: "d" of its records.
Places == [trunc : BOOLEAN, slot : Slot \cup {None}, newlast : FatIndex \cup {TAIL},
           prev : FatIndex, succ : Cluster \cup {TAIL}]

AllocRecs == [kind : {"alloc"}, slot : Slot \cup {None}, prev : Cluster \cup {TAIL},
              next : FatVal, clus : Seq(Cluster)]
MoveRecs == [kind : {"move"}, slot : Slot \cup {None}, prev : FatIndex,
             first : Cluster, last : Cluster]
EntryRecs == [kind : {"build", "remove"}, slot : Slot]
DeallocSet == [kind : {"dealloc"}, d : Places, next : Cluster \cup {TAIL},
               count : Nat \ {0}, clus : Seq(Cluster)]
MrcRecs == [kind : {"mrc"}, d : Places, next : Cluster \cup {TAIL}]
RecSet == AllocRecs \cup MoveRecs \cup EntryRecs \cup DeallocSet \cup MrcRecs

FatSteps == [op : {"fat"}, at : FatIndex, val : FatVal]
StartSteps == [op : {"start"}, at : Slot, val : Cluster \cup {TAIL}]
LiveSteps == [op : {"live"}, at : Slot, val : BOOLEAN]
LogSteps == [op : {"log"}, rec : RecSet]
FlushSteps == [op : {"flush"}]
RamSteps(R) == [op : {"ram", "mark"}, ram : R]
\* Steps that leave the entries and the in-core state alone.
DataSteps == FatSteps \cup LogSteps \cup FlushSteps
StepSet == DataSteps \cup StartSteps \cup LiveSteps \cup RamSteps(Rams)

LEMMA StepTypes ==
  /\ \A c \in FatIndex, x \in FatVal : Fat(c, x) \in FatSteps
  /\ \A s \in Slot, x \in Cluster \cup {TAIL} : Start(s, x) \in StartSteps
  /\ \A s \in Slot, b \in BOOLEAN : Live(s, b) \in LiveSteps
  /\ \A r \in RecSet : Rec(r) \in LogSteps
  /\ Flush \in FlushSteps
  /\ \A R, r : r \in R => Mark(r) \in RamSteps(R) /\ Ram(r) \in RamSteps(R)
BY DEF Fat, Start, Live, Rec, Flush, Mark, Ram, FatSteps, StartSteps, LiveSteps,
       LogSteps, FlushSteps, RamSteps

-----------------------------------------------------------------------------
(***************************************************************************)
(* What a sequence of steps does to a volume.                              *)
(***************************************************************************)
LEMMA ApplyType ==
  ASSUME NEW v \in Volume, NEW s \in StepSet
  PROVE  Apply(v, s) \in Volume
<1>1. CASE s \in FatSteps
  <2>1. s.op = "fat" /\ s.at \in FatIndex /\ s.val \in FatVal
    BY <1>1 DEF FatSteps
  <2>2. Apply(v, s) = [v EXCEPT !.fat[s.at] = s.val]
    BY <2>1 DEF Apply
  <2>3. QED BY <2>1, <2>2 DEF Volume, FatVal
<1>2. CASE s \in StartSteps
  <2>1. s.op = "start" /\ s.at \in Slot /\ s.val \in Cluster \cup {TAIL}
    BY <1>2 DEF StartSteps
  <2>2. Apply(v, s) = [v EXCEPT !.start[s.at] = s.val]
    BY <2>1 DEF Apply
  <2>3. QED BY <2>1, <2>2 DEF Volume
<1>3. CASE s \in LiveSteps
  <2>1. s.op = "live" /\ s.at \in Slot /\ s.val \in BOOLEAN
    BY <1>3 DEF LiveSteps
  <2>2. Apply(v, s) = [v EXCEPT !.live[s.at] = s.val]
    BY <2>1 DEF Apply
  <2>3. QED BY <2>1, <2>2 DEF Volume
<1>4. CASE s \in LogSteps \cup FlushSteps \cup RamSteps(Rams)
  <2>1. s.op \notin {"fat", "start", "live"}
    BY <1>4 DEF LogSteps, FlushSteps, RamSteps
  <2>2. QED BY <2>1 DEF Apply
<1>5. QED BY <1>1, <1>2, <1>3, <1>4 DEF StepSet, DataSteps

\* A function gives the volumes that the steps pass through.
Volumes(t) == [0..Len(t) -> Volume]
Passes(f, v, t) == f[0] = v /\ \A n \in 1..Len(t) : f[n] = Apply(f[n - 1], t[n])

LEMMA PassesUnique ==
  ASSUME NEW t \in Seq(StepSet), NEW v, NEW f, NEW h, Passes(f, v, t), Passes(h, v, t)
  PROVE  f[Len(t)] = h[Len(t)]
<1> DEFINE N == Len(t)
           S == {n \in 0..N : f[n] = h[n]}
<1>1. N \in Nat
  OBVIOUS
<1>2. 0 \in S
  BY <1>1 DEF Passes
<1>3. ASSUME NEW n \in 1..N, n - 1 \in S PROVE n \in S
  BY <1>1, <1>3 DEF Passes
<1>4. \A n \in 0..N : n \in S
  <2> HIDE DEF S, N
  <2>1. QED BY <1>1, <1>2, <1>3, Reaches
<1>5. N \in S
  BY <1>1, <1>4
<1>6. QED BY <1>5

LEMMA ApplySteps ==
  ASSUME NEW v \in Volume, NEW t \in Seq(StepSet)
  PROVE  \E f \in Volumes(t) : Passes(f, v, t) /\ ApplyAll(v, t) = f[Len(t)]
<1> DEFINE N == Len(t)
           g == [n \in 1..N |-> [p \in Volume |-> Apply(p, t[n])]]
           Eq(w) == w = [n \in 0..N |-> IF n = 0 THEN v ELSE Apply(w[n - 1], t[n])]
           W == CHOOSE w : Eq(w)
<1>1. N \in Nat /\ \A n \in 1..N : t[n] \in StepSet
  OBVIOUS
<1>2. g \in StepsOn(N, Volume)
  BY <1>1, ApplyType DEF StepsOn
<1>3. PICK f \in Maps(N, Volume) : Follows(f, N, v, g)
  <2> HIDE DEF g, N
  <2>1. QED BY <1>1, <1>2, Recursion
<1>4. f \in Volumes(t)
  BY <1>3 DEF Maps, Volumes
<1>5. Passes(f, v, t)
  <2>1. ASSUME NEW n \in 1..N PROVE f[n] = Apply(f[n - 1], t[n])
    <3>1. n - 1 \in 0..N
      BY <1>1
    <3>2. f[n - 1] \in Volume
      BY <1>4, <3>1 DEF Volumes
    <3>3. f[n] = g[n][f[n - 1]]
      <4> HIDE DEF g
      <4>1. QED BY <1>3 DEF Follows
    <3>4. QED BY <3>2, <3>3
  <2>2. QED BY <1>3, <2>1 DEF Passes, Follows
<1>6. Eq(f)
  <2>1. ASSUME NEW n \in 0..N
        PROVE  f[n] = IF n = 0 THEN v ELSE Apply(f[n - 1], t[n])
    <3>1. n # 0 => n \in 1..N
      BY <1>1
    <3>2. QED BY <1>5, <3>1 DEF Passes
  <2>2. QED BY <1>4, <2>1 DEF Volumes
<1>7. Eq(W)
  <2> HIDE DEF Eq
  <2>1. \E w : Eq(w)
    BY <1>6
  <2>2. QED BY <2>1
<1>8. ApplyAll(v, t) = W[N]
  BY DEF ApplyAll
<1>9. Passes(W, v, t)
  <2> HIDE DEF W
  <2>1. \A n \in 0..N : W[n] = IF n = 0 THEN v ELSE Apply(W[n - 1], t[n])
    BY <1>7
  <2>2. 0 \in 0..N /\ \A n \in 1..N : n \in 0..N /\ n # 0
    BY <1>1
  <2>3. QED BY <2>1, <2>2 DEF Passes
<1>10. W[N] = f[N]
  <2> HIDE DEF W
  <2>1. QED BY <1>5, <1>9, PassesUnique
<1>11. QED BY <1>4, <1>5, <1>8, <1>10

LEMMA ApplyAllType ==
  ASSUME NEW v \in Volume, NEW t \in Seq(StepSet)
  PROVE  ApplyAll(v, t) \in Volume
<1>1. PICK f \in Volumes(t) : ApplyAll(v, t) = f[Len(t)]
  BY ApplySteps
<1>2. Len(t) \in 0..Len(t)
  OBVIOUS
<1>3. QED BY <1>1, <1>2 DEF Volumes

LEMMA ApplyNone ==
  ASSUME NEW v \in Volume
  PROVE  ApplyAll(v, <<>>) = v
<1>1. <<>> \in Seq(StepSet) /\ Len(<<>>) = 0
  OBVIOUS
<1>2. PICK f \in Volumes(<<>>) : Passes(f, v, <<>>) /\ ApplyAll(v, <<>>) = f[Len(<<>>)]
  BY <1>1, ApplySteps
<1>3. QED BY <1>1, <1>2 DEF Passes

LEMMA ApplyOne ==
  ASSUME NEW v \in Volume, NEW s \in StepSet
  PROVE  ApplyAll(v, <<s>>) = Apply(v, s)
<1> DEFINE t == <<s>>
<1>1. t \in Seq(StepSet) /\ Len(t) = 1 /\ t[1] = s /\ 1 - 1 = 0
  OBVIOUS
<1> HIDE DEF t
<1>2. PICK f \in Volumes(t) : Passes(f, v, t) /\ ApplyAll(v, t) = f[Len(t)]
  BY <1>1, ApplySteps
<1>3. f[1] = Apply(f[1 - 1], t[1])
  BY <1>1, <1>2 DEF Passes
<1>4. ApplyAll(v, t) = Apply(v, s)
  BY <1>1, <1>2, <1>3 DEF Passes
<1>5. QED BY <1>4 DEF t

LEMMA ApplyConcat ==
  ASSUME NEW v \in Volume, NEW a \in Seq(StepSet), NEW b \in Seq(StepSet)
  PROVE  ApplyAll(v, a \o b) = ApplyAll(ApplyAll(v, a), b)
<1> DEFINE A == Len(a)
           B == Len(b)
           t == a \o b
<1>1. /\ A \in Nat /\ B \in Nat /\ t \in Seq(StepSet) /\ Len(t) = A + B
      /\ \A n \in 1..A : t[n] = a[n]
      /\ \A n \in 1..(A + B) : n > A => t[n] = b[n - A]
  OBVIOUS
<1>2. PICK f \in Volumes(a) : Passes(f, v, a) /\ ApplyAll(v, a) = f[A]
  BY ApplySteps
<1>3. ApplyAll(v, a) \in Volume
  BY ApplyAllType
<1>4. PICK h \in Volumes(b) : Passes(h, f[A], b) /\ ApplyAll(f[A], b) = h[B]
  BY <1>2, <1>3, ApplySteps
<1> DEFINE k == [n \in 0..(A + B) |-> IF n <= A THEN f[n] ELSE h[n - A]]
<1>5. Passes(k, v, t)
  <2>1. k[0] = v
    BY <1>1, <1>2 DEF Passes
  <2>2. ASSUME NEW n \in 1..(A + B) PROVE k[n] = Apply(k[n - 1], t[n])
    <3>1. CASE n <= A
      <4>1. n \in 1..A /\ k[n] = f[n] /\ k[n - 1] = f[n - 1]
        BY <1>1, <3>1
      <4>2. QED BY <1>1, <1>2, <4>1 DEF Passes
    <3>2. CASE n > A
      <4>1. n - A \in 1..B /\ k[n] = h[n - A]
        BY <1>1, <3>2
      <4>2. k[n - 1] = h[(n - A) - 1]
        <5>1. CASE n = A + 1
          BY <1>1, <1>4, <5>1 DEF Passes
        <5>2. CASE n # A + 1
          BY <1>1, <3>2, <5>2
        <5>3. QED BY <5>1, <5>2
      <4>3. h[n - A] = Apply(h[(n - A) - 1], b[n - A])
        BY <1>4, <4>1 DEF Passes
      <4>4. QED BY <1>1, <3>2, <4>1, <4>2, <4>3
    <3>3. QED BY <1>1, <3>1, <3>2
  <2> HIDE DEF k, t
  <2>3. QED BY <1>1, <2>1, <2>2 DEF Passes
<1>6. k[A + B] = h[B]
  <2>1. CASE B = 0
    BY <1>1, <1>4, <2>1 DEF Passes
  <2>2. CASE B # 0
    BY <1>1, <2>2
  <2>3. QED BY <2>1, <2>2
<1>7. PICK w \in Volumes(t) : Passes(w, v, t) /\ ApplyAll(v, t) = w[Len(t)]
  <2> HIDE DEF t
  <2>1. QED BY <1>1, ApplySteps
<1>8. w[Len(t)] = k[Len(t)]
  <2> HIDE DEF t, k
  <2>1. QED BY <1>1, <1>5, <1>7, PassesUnique
<1>9. QED
  <2> HIDE DEF t, k
  <2>1. ApplyAll(v, t) = h[B]
    BY <1>1, <1>6, <1>7, <1>8
  <2>2. ApplyAll(ApplyAll(v, a), b) = h[B]
    BY <1>2, <1>4
  <2>3. QED BY <2>1, <2>2 DEF t

-----------------------------------------------------------------------------
(***************************************************************************)
(* The types of the steps the operations are made of.                      *)
(***************************************************************************)
\* The quotient rounded up.
LEMMA CeilDiv ==
  ASSUME NEW L \in Nat, NEW M \in Nat \ {0}, NEW n, n = (L + M - 1) \div M
  PROVE  n \in Nat /\ L <= n * M /\ (n - 1) * M < L
<1>1. L + M - 1 \in Nat
  OBVIOUS
<1>2. n \in Nat
  BY <1>1
<1>3. L + M - 1 = M * n + ((L + M - 1) % M) /\ (L + M - 1) % M \in 0..(M - 1)
  BY <1>1
<1>4. M * n <= L + M - 1 /\ L + M - 1 < M * n + M
  BY <1>1, <1>2, <1>3
<1>5. n * M = M * n /\ (n - 1) * M = M * n - M
  BY <1>2
<1>6. QED BY <1>2, <1>4, <1>5

LEMMA SubSeqType ==
  ASSUME NEW S, NEW s \in Seq(S), NEW m \in Nat, NEW n \in Nat, m >= 1, n <= Len(s)
  PROVE  SubSeq(s, m, n) \in Seq(S)
OBVIOUS

LEMMA IfType ==
  ASSUME NEW S, NEW b, NEW s, b => s \in Seq(S)
  PROVE  If(b, s) \in Seq(S)
BY DEF If

LEMMA FreesType ==
  ASSUME NEW cs \in Seq(Cluster)
  PROVE  Frees(cs) \in Seq(FatSteps) /\ Len(Frees(cs)) = Len(cs)
<1>1. ASSUME NEW i \in 1..Len(cs) PROVE Fat(cs[i], FREE) \in FatSteps
  BY StepTypes DEF FatIndex, FatVal
<1>2. QED BY <1>1 DEF Frees

LEMMA DeallocRecsType ==
  ASSUME NEW d \in Places, NEW cs \in Seq(Cluster), NEW next \in Cluster \cup {TAIL}
  PROVE  DeallocRecs(d, cs, next) \in Seq(LogSteps)
<1> DEFINE L == Len(cs)
           M == MaxChunks
           n == (L + M - 1) \div M
           part(k) == SubSeq(cs, (k - 1) * M + 1, IF k = n THEN L ELSE k * M)
<1>1. L \in Nat /\ M \in Nat \ {0}
  BY RfsAssumption
<1>2. n \in Nat /\ (n - 1) * M < L
  <2> HIDE DEF L, M
  <2>1. QED BY <1>1, CeilDiv
<1>3. ASSUME NEW k \in 1..n PROVE part(k) \in Seq(Cluster)
  <2>1. n \in Nat \ {0} /\ (n - 1) * M < L
    <3> HIDE DEF n, L, M
    <3>1. QED BY <1>2
  <2>2. (k - 1) * M + 1 \in Nat /\ (k - 1) * M + 1 >= 1
    <3> HIDE DEF L, n, M
    <3>1. (k - 1) \in Nat
      BY <2>1
    <3>2. (k - 1) * M \in Nat
      BY <1>1, <3>1
    <3>3. QED BY <3>2
  <2>3. k # n => k * M \in Nat /\ k * M <= L
    <3> HIDE DEF L, n, M
    <3>1. SUFFICES ASSUME k # n PROVE k * M \in Nat /\ k * M <= L
      OBVIOUS
    <3>2. (n - 1) - k \in Nat
      BY <2>1, <3>1
    <3>3. ((n - 1) - k) * M \in Nat /\ k * M \in Nat
      BY <1>1, <2>1, <3>2
    <3>4. ((n - 1) - k) * M = (n - 1) * M - k * M
      BY <1>1, <2>1
    <3>5. QED BY <1>1, <2>1, <3>3, <3>4
  <2>4. QED
    <3> HIDE DEF n, M
    <3>1. QED BY <1>1, <2>2, <2>3, SubSeqType
<1>4. ASSUME NEW k \in 1..n
      PROVE  Rec([kind |-> "dealloc", d |-> d, next |-> next, count |-> n, clus |-> part(k)])
               \in LogSteps
  <2>1. n \in Nat \ {0}
    <3> HIDE DEF n, L, M
    <3>1. QED BY <1>2
  <2>2. [kind |-> "dealloc", d |-> d, next |-> next, count |-> n, clus |-> part(k)] \in DeallocSet
    <3> HIDE DEF n, part
    <3>1. QED BY <1>3, <2>1 DEF DeallocSet
  <2> HIDE DEF n, part
  <2>3. QED BY <2>2, StepTypes DEF RecSet
<1>5. DeallocRecs(d, cs, next) =
        [k \in 1..n |-> Rec([kind |-> "dealloc", d |-> d, next |-> next, count |-> n,
                             clus |-> part(k)])]
  BY DEF DeallocRecs
<1>6. n \in Nat
  <2> HIDE DEF n, L, M
  <2>1. QED BY <1>2
<1>7. QED
  <2> HIDE DEF n, part
  <2>1. QED BY <1>4, <1>5, <1>6

LEMMA OneType ==
  ASSUME NEW S, NEW x \in S
  PROVE  <<x>> \in Seq(S)
OBVIOUS

LEMMA FreeGroupType ==
  ASSUME NEW d \in Places, NEW cs \in Seq(Cluster), NEW g \in Nat,
         g * GroupSize < Len(cs)
  PROVE  FreeGroup(d, cs, g) \in Seq(DataSteps)
<1> DEFINE L == Len(cs)
           G == GroupSize
           from == g * G + 1
           to == IF L < from + G THEN L ELSE from + G - 1
           more == to < L
           next == IF more THEN cs[to + 1] ELSE TAIL
           part == SubSeq(cs, from, to)
<1>1. L \in Nat /\ G \in Nat \ {0}
  BY RfsAssumption DEF GroupSize
<1>2. from \in Nat /\ from >= 1 /\ from <= L
  <2>1. g * G \in Nat
    BY <1>1
  <2>2. QED BY <1>1, <2>1
<1>3. to \in Nat /\ to <= L /\ to >= 1
  <2> HIDE DEF from, L, G
  <2>1. QED BY <1>1, <1>2
<1>4. next \in Cluster \cup {TAIL}
  <2> HIDE DEF to
  <2>1. CASE more
    <3>1. to + 1 \in 1..Len(cs)
      BY <1>1, <1>3, <2>1
    <3>2. cs[to + 1] \in Cluster
      BY <3>1
    <3>3. QED BY <2>1, <3>2
  <2>2. CASE ~more
    BY <2>2
  <2>3. QED BY <2>1, <2>2
<1>5. part \in Seq(Cluster)
  <2> HIDE DEF from, to
  <2>1. QED BY <1>2, <1>3, SubSeqType
<1>6. DeallocRecs(d, part, next) \in Seq(LogSteps)
  <2> HIDE DEF part, next
  <2>1. QED BY <1>4, <1>5, DeallocRecsType
<1>7. Frees(part) \in Seq(FatSteps)
  <2> HIDE DEF part
  <2>1. QED BY <1>5, FreesType
<1>8. Rec([kind |-> "mrc", d |-> d, next |-> next]) \in LogSteps
  <2> HIDE DEF next
  <2>1. [kind |-> "mrc", d |-> d, next |-> next] \in MrcRecs
    BY <1>4 DEF MrcRecs
  <2>2. QED BY <2>1, StepTypes DEF RecSet
<1> DEFINE mark == <<Flush, Rec([kind |-> "mrc", d |-> d, next |-> next])>>
<1>9. mark \in Seq(DataSteps)
  <2> HIDE DEF next
  <2>1. QED BY <1>8, StepTypes DEF DataSteps
<1>10. If(more, mark) \in Seq(DataSteps)
  <2> HIDE DEF mark, more
  <2>1. QED BY <1>9, IfType
<1>11. FreeGroup(d, cs, g) = DeallocRecs(d, part, next) \o Frees(part) \o If(more, mark)
  BY DEF FreeGroup
<1>12. QED
  <2> HIDE DEF part, next, more, mark
  <2>1. DeallocRecs(d, part, next) \in Seq(DataSteps) /\ Frees(part) \in Seq(DataSteps)
    BY <1>6, <1>7 DEF DataSteps
  <2>2. QED BY <1>10, <1>11, <2>1

LEMMA FreeChainType ==
  ASSUME NEW d \in Places, NEW cs \in Seq(Cluster)
  PROVE  FreeChain(d, cs) \in Seq(DataSteps)
<1> DEFINE L == Len(cs)
           G == GroupSize
           K == (L + G - 1) \div G
           seqs == [g \in 1..K |-> FreeGroup(d, cs, g - 1)]
<1>1. L \in Nat /\ G \in Nat \ {0}
  BY RfsAssumption DEF GroupSize
<1>2. K \in Nat /\ (K - 1) * G < L
  <2> HIDE DEF L, G
  <2>1. QED BY <1>1, CeilDiv
<1>3. ASSUME NEW g \in 1..K PROVE FreeGroup(d, cs, g - 1) \in Seq(DataSteps)
  <2>1. g - 1 \in Nat
    BY <1>2
  <2>2. (g - 1) * G < L
    <3> HIDE DEF L, G, K
    <3>1. K - g \in Nat
      BY <1>2
    <3>2. (K - g) * G \in Nat
      BY <1>1, <3>1
    <3>3. (K - g) * G = (K - 1) * G - (g - 1) * G
      BY <1>1, <1>2
    <3>4. (g - 1) * G \in Nat /\ (K - 1) * G \in Int
      BY <1>1, <1>2, <2>1
    <3>5. QED BY <1>1, <1>2, <3>2, <3>3, <3>4
  <2>3. SUFFICES ASSUME NEW h \in Nat, h * GroupSize < Len(cs)
                 PROVE  FreeGroup(d, cs, h) \in Seq(DataSteps)
    BY <2>1, <2>2
  <2>4. QED BY <2>3, FreeGroupType
<1>4. seqs \in Seq(Seq(DataSteps))
  <2> HIDE DEF K
  <2>1. QED BY <1>2, <1>3
<1>5. FreeChain(d, cs) = FlattenSeq(seqs)
  BY DEF FreeChain
<1>6. QED
  <2> HIDE DEF seqs
  <2>1. QED BY <1>4, <1>5, FlattenType

-----------------------------------------------------------------------------
(***************************************************************************)
(* The steps of a replay and of the release of orphans.                    *)
(***************************************************************************)
\* The steps that change a volume.
Edits == FatSteps \cup StartSteps \cup LiveSteps
ReplaySet == DataSteps \cup StartSteps \cup LiveSteps \cup RamSteps({NoRam})

LEMMA UndoType ==
  ASSUME NEW r \in RecSet
  PROVE  Undo(r) \in Seq(Edits)
<1> USE DEF Edits
<1>1. CASE r \in AllocRecs
  <2>1. /\ r.kind = "alloc" /\ r.slot \in Slot \cup {None} /\ r.prev \in Cluster \cup {TAIL}
        /\ r.next \in FatVal /\ r.clus \in Seq(Cluster)
    BY <1>1 DEF AllocRecs
  <2>2. Undo(r) = UndoAlloc(r)
    BY <2>1 DEF Undo
  <2>3. Frees(r.clus) \in Seq(Edits)
    BY <2>1, FreesType
  <2>4. r.prev # TAIL => <<Fat(r.prev, r.next)>> \in Seq(Edits)
    <3>1. r.prev # TAIL => Fat(r.prev, r.next) \in FatSteps
      BY <2>1, StepTypes DEF FatIndex
    <3>2. QED BY <3>1
  <2>5. r.slot # None => <<Start(r.slot, TAIL)>> \in Seq(Edits)
    <3>1. r.slot # None => Start(r.slot, TAIL) \in StartSteps
      BY <2>1, StepTypes
    <3>2. QED BY <3>1
  <2>6. If(r.slot # None, <<Start(r.slot, TAIL)>>) \in Seq(Edits)
    BY <2>5, IfType
  <2> DEFINE undone == IF r.prev # TAIL THEN <<Fat(r.prev, r.next)>>
                       ELSE If(r.slot # None, <<Start(r.slot, TAIL)>>)
  <2>7. undone \in Seq(Edits)
    BY <2>4, <2>6
  <2>8. Undo(r) = undone \o Frees(r.clus)
    BY <2>2 DEF UndoAlloc
  <2>9. QED
    <3> HIDE DEF undone
    <3>1. QED BY <2>3, <2>7, <2>8
<1>2. CASE r \in MoveRecs
  <2>1. /\ r.kind = "move" /\ r.slot \in Slot \cup {None} /\ r.prev \in FatIndex
        /\ r.first \in Cluster /\ r.last \in Cluster
    BY <1>2 DEF MoveRecs
  <2>2. Undo(r) = UndoMove(r)
    BY <2>1 DEF Undo
  <2>3. r.slot # None => <<Start(r.slot, r.first)>> \in Seq(Edits)
    <3>1. r.slot # None => Start(r.slot, r.first) \in StartSteps
      BY <2>1, StepTypes
    <3>2. QED BY <3>1
  <2>4. If(r.slot # None, <<Start(r.slot, r.first)>>) \in Seq(Edits)
    BY <2>3, IfType
  <2>5. Fat(r.last, TAIL) \in FatSteps /\ Fat(r.prev, TAIL) \in FatSteps
    BY <2>1, StepTypes DEF FatIndex, FatVal
  <2>6. <<Fat(r.last, TAIL), Fat(r.prev, TAIL)>> \in Seq(Edits)
    BY <2>5
  <2>7. QED BY <2>2, <2>4, <2>6 DEF UndoMove
<1>3. CASE r \in EntryRecs
  <2>1. r.kind \in {"build", "remove"} /\ r.slot \in Slot
    BY <1>3 DEF EntryRecs
  <2>2. Live(r.slot, FALSE) \in LiveSteps /\ Live(r.slot, TRUE) \in LiveSteps
    BY <2>1, StepTypes
  <2>3. Undo(r) = <<Live(r.slot, FALSE)>> \/ Undo(r) = <<Live(r.slot, TRUE)>>
    BY <2>1 DEF Undo
  <2>4. <<Live(r.slot, FALSE)>> \in Seq(Edits) /\ <<Live(r.slot, TRUE)>> \in Seq(Edits)
    <3>1. Live(r.slot, FALSE) \in Edits /\ Live(r.slot, TRUE) \in Edits
      BY <2>2
    <3>2. QED BY <3>1, OneType
  <2>5. QED BY <2>3, <2>4
<1>4. CASE r \in DeallocSet \cup MrcRecs
  <2>1. r.kind \in {"dealloc", "mrc"}
    BY <1>4 DEF DeallocSet, MrcRecs
  <2>2. QED BY <2>1 DEF Undo
<1>5. QED BY <1>1, <1>2, <1>3, <1>4 DEF RecSet

LEMMA RedoSourceType ==
  ASSUME NEW r \in DeallocSet \cup MrcRecs
  PROVE  RedoSource(r) \in Seq(Edits)
<1> USE DEF Edits
<1>1. r.d \in Places /\ r.next \in Cluster \cup {TAIL}
  BY DEF DeallocSet, MrcRecs
<1> DEFINE d == r.d
           cut == IF d.newlast = TAIL THEN If(d.slot # None, <<Start(d.slot, TAIL)>>)
                  ELSE <<Fat(d.newlast, TAIL)>>
           rest == <<Fat(d.prev, IF r.next # TAIL THEN r.next ELSE d.succ)>>
<1>2. /\ d.slot \in Slot \cup {None} /\ d.newlast \in FatIndex \cup {TAIL}
      /\ d.prev \in FatIndex /\ d.succ \in Cluster \cup {TAIL}
  BY <1>1 DEF Places
<1>3. cut \in Seq(Edits)
  <2>1. d.slot # None => <<Start(d.slot, TAIL)>> \in Seq(Edits)
    <3>1. d.slot # None => Start(d.slot, TAIL) \in StartSteps
      BY <1>2, StepTypes
    <3>2. QED BY <3>1
  <2>2. If(d.slot # None, <<Start(d.slot, TAIL)>>) \in Seq(Edits)
    BY <2>1, IfType
  <2>3. d.newlast # TAIL => <<Fat(d.newlast, TAIL)>> \in Seq(Edits)
    <3>1. d.newlast # TAIL => Fat(d.newlast, TAIL) \in FatSteps
      BY <1>2, StepTypes DEF FatVal
    <3>2. QED BY <3>1
  <2>4. QED BY <2>2, <2>3
<1>4. rest \in Seq(Edits)
  <2>1. Fat(d.prev, IF r.next # TAIL THEN r.next ELSE d.succ) \in FatSteps
    BY <1>1, <1>2, StepTypes DEF FatVal
  <2>2. QED BY <2>1
<1>5. RedoSource(r) = If(d.trunc, cut) \o rest
  BY DEF RedoSource
<1>6. QED
  <2> HIDE DEF cut, rest
  <2>1. If(d.trunc, cut) \in Seq(Edits)
    BY <1>3, IfType
  <2>2. QED BY <1>4, <1>5, <2>1

\* The record the walk back stops at is redone; the ones behind it are undone.
LEMMA RedoneType ==
  ASSUME NEW l \in Seq(RecSet)
  PROVE  \/ Redone(l) = 0
         \/ /\ Redone(l) \in 1..Len(l)
            /\ \/ l[Redone(l)].kind = "mrc"
               \/ (l[Redone(l)].kind = "dealloc" /\ WholeGroup(l, Redone(l)))
<1> DEFINE stops == {i \in 1..Len(l) : \/ l[i].kind = "mrc"
                                      \/ (l[i].kind = "dealloc" /\ WholeGroup(l, i))}
           flip == {n \in 0..Len(l) : Len(l) - n \in stops}
<1>1. Redone(l) = IF stops = {} THEN 0 ELSE CHOOSE i \in stops : \A j \in stops : j <= i
  BY DEF Redone
<1>2. ASSUME stops # {} PROVE \E i \in stops : \A j \in stops : j <= i
  <2>1. Len(l) \in Nat /\ stops \subseteq 1..Len(l)
    OBVIOUS
  <2> HIDE DEF stops
  <2>2. PICK k \in stops : TRUE
    BY <1>2
  <2>3. Len(l) - k \in 0..Len(l) /\ Len(l) - (Len(l) - k) = k
    BY <2>1
  <2>4. flip # {} /\ flip \in SUBSET Nat
    <3>1. Len(l) - k \in flip
      BY <2>3
    <3>2. 0..Len(l) \subseteq Nat
      BY <2>1
    <3>3. QED BY <3>1, <3>2
  <2>5. PICK n \in flip : \A y \in flip : n <= y
    <3> HIDE DEF flip
    <3>1. QED BY <2>4, Smallest
  <2>6. ASSUME NEW j \in stops PROVE j <= Len(l) - n
    <3>1. Len(l) - j \in flip
      BY <2>1
    <3>2. n <= Len(l) - j
      BY <2>5, <3>1
    <3>3. QED BY <2>1, <3>2
  <2>7. QED BY <2>6
<1>3. stops = {} \/ Redone(l) \in stops
  <2> HIDE DEF stops
  <2>1. QED BY <1>1, <1>2
<1>4. QED BY <1>1, <1>3

LEMMA OfKind ==
  ASSUME NEW r \in RecSet
  PROVE  /\ r.kind = "mrc" => r \in MrcRecs
         /\ r.kind = "dealloc" => r \in DeallocSet
BY DEF RecSet, AllocRecs, MoveRecs, EntryRecs, DeallocSet, MrcRecs

LEMMA RedoStepsType ==
  ASSUME NEW l \in Seq(RecSet), NEW i, i = Redone(l)
  PROVE  RedoSteps(l, i) \in Seq(Edits)
<1>1. CASE i = 0
  BY <1>1 DEF RedoSteps
<1>2. CASE i \in 1..Len(l) /\ l[i].kind = "mrc"
  <2>1. l[i] \in MrcRecs
    BY <1>2, OfKind
  <2>2. RedoSteps(l, i) = RedoSource(l[i])
    BY <1>2 DEF RedoSteps
  <2>3. QED BY <2>1, <2>2, RedoSourceType
<1>3. CASE i \in 1..Len(l) /\ l[i].kind = "dealloc" /\ WholeGroup(l, i)
  <2> DEFINE n == l[i].count
             first == i - n + 1
             seqs == [k \in 1..n |-> Frees(l[first + k - 1].clus)]
  <2>1. l[i] \in DeallocSet
    BY <1>3, OfKind
  <2>2. n \in Nat \ {0} /\ i \in 1..Len(l)
    BY <1>3, <2>1 DEF DeallocSet
  <2>3. first \in 1..i /\ \A j \in first..i : l[j].kind = "dealloc"
    BY <1>3, <2>2 DEF WholeGroup
  <2>4. \A j \in first..i : l[j] \in DeallocSet
    <3>1. ASSUME NEW j \in first..i PROVE l[j] \in DeallocSet
      <4>1. j \in 1..Len(l)
        BY <2>2, <2>3
      <4>2. l[j] \in RecSet
        BY <4>1
      <4>3. QED BY <2>3, <4>2, OfKind
    <3>2. QED BY <3>1
  <2>5. seqs \in Seq(Seq(Edits))
    <3>1. ASSUME NEW k \in 1..n PROVE Frees(l[first + k - 1].clus) \in Seq(Edits)
      <4>1. first + k - 1 \in first..i
        BY <2>2, <2>3
      <4>2. l[first + k - 1] \in DeallocSet
        BY <2>4, <4>1
      <4>3. l[first + k - 1].clus \in Seq(Cluster)
        BY <4>2 DEF DeallocSet
      <4>4. Frees(l[first + k - 1].clus) \in Seq(FatSteps)
        BY <4>3, FreesType
      <4>5. QED BY <4>4 DEF Edits
    <3> HIDE DEF n, first
    <3>2. QED BY <2>2, <3>1
  <2>6. RedoSource(l[first]) \in Seq(Edits)
    <3>1. l[first] \in DeallocSet
      <4>1. first \in first..i
        BY <2>2, <2>3
      <4>2. QED BY <2>4, <4>1
    <3>2. QED BY <3>1, RedoSourceType
  <2>7. RedoSteps(l, i) = RedoSource(l[first]) \o FlattenSeq(seqs)
    BY <1>3, <2>2 DEF RedoSteps
  <2>8. QED
    <3> HIDE DEF seqs, first
    <3>1. FlattenSeq(seqs) \in Seq(Edits)
      BY <2>5, FlattenType
    <3>2. QED BY <2>6, <2>7, <3>1
<1>4. QED BY <1>1, <1>2, <1>3, RedoneType

LEMMA ReplayStepsType ==
  ASSUME NEW l \in Seq(RecSet)
  PROVE  ReplaySteps(l) \in Seq(Edits) /\ ReplaySteps(l) \in Seq(ReplaySet)
<1> DEFINE n == Redone(l)
           rest == SubSeq(l, n + 1, Len(l))
           undone == Reverse(rest)
           seqs == [k \in 1..Len(undone) |-> Undo(undone[k])]
<1>1. n \in Nat /\ n <= Len(l)
  BY RedoneType
<1>2. rest \in Seq(RecSet)
  <2> HIDE DEF n
  <2>1. QED BY <1>1
<1>3. undone \in Seq(RecSet)
  <2> HIDE DEF rest
  <2>1. QED BY <1>2 DEF Reverse
<1>4. seqs \in Seq(Seq(Edits))
  <2> HIDE DEF undone
  <2>1. \A k \in 1..Len(undone) : Undo(undone[k]) \in Seq(Edits)
    BY <1>3, UndoType
  <2>2. QED BY <1>3, <2>1
<1>5. FlattenSeq(seqs) \in Seq(Edits)
  <2> HIDE DEF seqs
  <2>1. QED BY <1>4, FlattenType
<1>6. RedoSteps(l, n) \in Seq(Edits)
  BY RedoStepsType
<1>7. ReplaySteps(l) = FlattenSeq(seqs) \o RedoSteps(l, n)
  BY DEF ReplaySteps
<1>8. ReplaySteps(l) \in Seq(Edits)
  <2> HIDE DEF seqs, n
  <2>1. QED BY <1>5, <1>6, <1>7
<1>9. QED
  <2>1. Edits \subseteq ReplaySet
    BY DEF Edits, ReplaySet, DataSteps
  <2>2. QED BY <1>8, <2>1

LEMMA ConstantFacts ==
  /\ FREE # TAIL /\ FREE \notin FatIndex /\ TAIL \notin FatIndex
  /\ Log \in FatIndex /\ Cluster \subseteq FatIndex
  /\ None \notin Slot /\ None \notin File
BY RfsAssumption DEF FatIndex

\* Beyond its first cluster a chain holds data clusters.
ChainShape(c) == {p \in Path : p[1] = c /\ \A i \in 2..Len(p) : p[i] \in Cluster}

LEMMA LongerShape ==
  ASSUME NEW fat \in FatMap, NEW c \in FatIndex, NEW p \in ChainShape(c)
  PROVE  Longer(fat, p) \in ChainShape(c)
<1>1. p \in Path /\ p[1] = c /\ \A i \in 2..Len(p) : p[i] \in Cluster
  BY DEF ChainShape
<1>2. Longer(fat, p) \in Path
  BY <1>1, LongerPath
<1>3. CASE fat[Last(p)] \in Cluster
  <2> DEFINE x == fat[Last(p)]
             q == Append(p, x)
  <2>1. p \in Seq(FatIndex) /\ Len(p) \in Nat \ {0}
    BY <1>1, PathLast DEF Path
  <2>2. x \in Cluster
    BY <1>3
  <2>3. Len(q) = Len(p) + 1 /\ q[Len(p) + 1] = x /\ \A i \in 1..Len(p) : q[i] = p[i]
    <3> HIDE DEF x
    <3>1. QED BY <2>1
  <2>4. Longer(fat, p) = q
    BY <1>3 DEF Longer
  <2>5. \A i \in 2..Len(q) : q[i] \in Cluster
    <3> HIDE DEF q, x
    <3>1. QED BY <1>1, <2>1, <2>2, <2>3
  <2>6. q[1] = c
    <3> HIDE DEF q, x
    <3>1. QED BY <1>1, <2>1, <2>3
  <2>7. QED BY <1>2, <2>4, <2>5, <2>6 DEF ChainShape
<1>4. CASE fat[Last(p)] \notin Cluster
  BY <1>4 DEF Longer
<1>5. QED BY <1>3, <1>4

LEMMA ChainFromType ==
  ASSUME NEW fat \in FatMap, NEW c \in FatIndex
  PROVE  ChainFrom(fat, c) \in ChainShape(c)
<1> DEFINE N == Cardinality(Cluster)
<1>1. N \in Nat
  BY RfsAssumption, FS_CardinalityType
<1>2. PICK w \in [0..N -> Path] :
           /\ w[0] = <<c>>
           /\ \A n \in 1..N : w[n] = Longer(fat, w[n - 1])
           /\ ChainFrom(fat, c) = w[N]
  BY WalkSteps
<1> DEFINE S == {n \in 0..N : w[n] \in ChainShape(c)}
<1>3. 0 \in S
  <2>1. <<c>> \in ChainShape(c)
    BY DEF ChainShape, Path
  <2>2. QED BY <1>1, <1>2, <2>1
<1>4. ASSUME NEW n \in 1..N, n - 1 \in S PROVE n \in S
  BY <1>1, <1>2, <1>4, LongerShape
<1>5. \A n \in 0..N : n \in S
  <2> HIDE DEF S, N
  <2>1. QED BY <1>1, <1>3, <1>4, Reaches
<1>6. N \in S
  BY <1>1, <1>5
<1>7. QED BY <1>2, <1>6

\* A chain that starts in the data area.
LEMMA ChainType ==
  ASSUME NEW fat \in FatMap, NEW c \in Cluster \cup {TAIL}
  PROVE  /\ Chain(fat, c) \in Seq(Cluster)
         /\ Chain(fat, c) = <<>> <=> c = TAIL
<1>1. CASE c = TAIL
  BY <1>1 DEF Chain
<1>2. CASE c # TAIL
  <2> DEFINE p == ChainFrom(fat, c)
  <2>1. c \in Cluster /\ c \in FatIndex
    BY <1>2 DEF FatIndex
  <2>2. p \in ChainShape(c)
    BY <2>1, ChainFromType
  <2>3. Chain(fat, c) = p
    BY <1>2 DEF Chain
  <2> HIDE DEF p
  <2>4. p \in Seq(FatIndex) /\ p # <<>> /\ p[1] = c /\ \A i \in 2..Len(p) : p[i] \in Cluster
    BY <2>2 DEF ChainShape, Path
  <2>5. \A i \in 1..Len(p) : p[i] \in Cluster
    <3>1. ASSUME NEW i \in 1..Len(p) PROVE p[i] \in Cluster
      <4>1. i = 1 \/ i \in 2..Len(p)
        BY <2>4
      <4>2. QED BY <2>1, <2>4, <4>1
    <3>2. QED BY <3>1
  <2>6. p \in Seq(Cluster)
    BY <2>4, <2>5
  <2>7. QED BY <1>2, <2>3, <2>4, <2>6
<1>3. QED BY <1>1, <1>2

LEMMA OrphanStepsType ==
  ASSUME NEW v \in Volume
  PROVE  OrphanSteps(v) \in Seq(ReplaySet)
<1> DEFINE d == [trunc |-> TRUE, slot |-> None, newlast |-> Log, prev |-> Log, succ |-> TAIL]
           p == ChainFrom(v.fat, Log)
           fin == <<Fat(Log, TAIL), Flush, Mark(NoRam)>>
<1>1. v.fat \in FatMap
  BY DEF Volume, FatMap, FatVal
<1>2. p \in ChainShape(Log)
  BY <1>1, ConstantFacts, ChainFromType
<1>3. Tail(p) \in Seq(Cluster)
  <2> HIDE DEF p
  <2>1. p \in Seq(FatIndex) /\ p # <<>> /\ \A i \in 2..Len(p) : p[i] \in Cluster
    BY <1>2 DEF ChainShape, Path
  <2>2. Tail(p) \in Seq(FatIndex) /\ Len(Tail(p)) = Len(p) - 1
        /\ \A i \in 1..Len(Tail(p)) : Tail(p)[i] = p[i + 1]
    BY <2>1
  <2>3. \A i \in 1..Len(Tail(p)) : Tail(p)[i] \in Cluster
    <3>1. ASSUME NEW i \in 1..Len(Tail(p)) PROVE Tail(p)[i] \in Cluster
      <4>1. i + 1 \in 2..Len(p)
        BY <2>1, <2>2
      <4>2. p[i + 1] \in Cluster
        BY <2>1, <4>1
      <4>3. QED BY <2>2, <4>2
    <3>2. QED BY <3>1
  <2> DEFINE q == Tail(p)
  <2>4. q \in Seq(FatIndex) /\ \A i \in 1..Len(q) : q[i] \in Cluster
    BY <2>2, <2>3
  <2> HIDE DEF q
  <2>5. q \in Seq(Cluster)
    BY <2>4
  <2>6. QED BY <2>5 DEF q
<1>4. d \in Places
  BY ConstantFacts DEF Places
<1>5. FreeChain(d, Tail(p)) \in Seq(ReplaySet)
  <2> HIDE DEF d, p
  <2>1. FreeChain(d, Tail(p)) \in Seq(DataSteps)
    BY <1>3, <1>4, FreeChainType
  <2>2. QED BY <2>1 DEF ReplaySet
<1>6. fin \in Seq(ReplaySet)
  <2>1. /\ Fat(Log, TAIL) \in ReplaySet /\ Flush \in ReplaySet /\ Mark(NoRam) \in ReplaySet
    BY StepTypes, ConstantFacts DEF FatVal, ReplaySet, DataSteps
  <2>2. QED BY <2>1
<1>7. OrphanSteps(v) = IF v.fat[Log] = TAIL THEN <<>> ELSE FreeChain(d, Tail(p)) \o fin
  BY DEF OrphanSteps
<1>8. QED
  <2> HIDE DEF d, p, fin
  <2>1. QED BY <1>5, <1>6, <1>7

-----------------------------------------------------------------------------
(***************************************************************************)
(* What the steps of an operation do to the entries: the argument for      *)
(* StartNotCorrupted.  An operation changes the in-core inodes at most     *)
(* twice: it may shed the inode it replaces, then it turns to the new      *)
(* inodes.  Before the turn it writes the start clusters of the old        *)
(* inodes, or entries that no inode owns yet; after it, those of the new   *)
(* ones.                                                                   *)
(***************************************************************************)
Owns(ino, f, s) == ino[f].st = "alloc" /\ ino[f].slot = s
Free(ino, s) == \A f \in File : ~Owns(ino, f, s)
Distinct(ino) == \A f, g \in File, s \in Slot : Owns(ino, f, s) /\ Owns(ino, g, s) => f = g

\* Steps that may run while the inodes are ino.
Calm(ino) ==
  DataSteps \cup RamSteps({r \in Rams : r.ino = ino})
    \cup {s \in StartSteps : \E f \in File : Owns(ino, f, s.at) /\ s.val = ino[f].start}

\* Steps that may run before the inodes ino turn into the inodes new.
Leading(ino, new) ==
  Calm(ino)
    \cup {s \in StartSteps : /\ Free(ino, s.at)
                             /\ \A f \in File : Owns(new, f, s.at) => s.val \in {TAIL, new[f].start}}
    \cup {s \in LiveSteps : \A f \in File : Owns(new, f, s.at) => s.val = TRUE}

\* From ino to mid some inodes are no longer in use, and nothing takes their
\* entries.
Sheds(ino, mid, new) ==
  \A h \in File : /\ mid[h].st = "alloc" => mid[h] = ino[h]
                  /\ ino[h].st = "alloc" /\ mid[h].st # "alloc" => Free(new, ino[h].slot)

Mentions(a, kind, s) == \E i \in 1..Len(a) : a[i].op = kind /\ a[i].at = s

\* Entry s, of an inode that starts at c once the steps of a have run and before
\* those of b: it is up to date, or the first step of b brings it up to date.
Settles(v, ino, a, b, s, c) ==
  /\ \A h \in File : Owns(ino, h, s) =>
       ino[h].start \in {TAIL, c} \/ (c = TAIL /\ b # <<>> /\ Head(b) = Start(s, TAIL))
  /\ Free(ino, s) => v.start[s] \in {TAIL, c} \/ Mentions(a, "start", s)
  /\ v.live[s] \/ Mentions(a, "live", s)

TurnsBy(v, r, t, a, m, x, b) ==
  LET new == x.ram.ino
  IN /\ t = a \o m \o <<x>> \o b
     /\ x \in RamSteps(Rams) /\ Distinct(new)
     /\ a \in Seq(Leading(r.ino, new)) /\ b \in Seq(Calm(new))
     /\ m \in Seq(RamSteps(Rams))
     /\ m # <<>> => Len(m) = 1 /\ Sheds(r.ino, m[1].ram.ino, new)
     /\ \A f \in File, s \in Slot : Owns(new, f, s) => Settles(v, r.ino, a, b, s, new[f].start)

Turns(v, r, t) == \E a, m, x, b : TurnsBy(v, r, t, a, m, x, b)

\* The inodes do not change any more.
AllLive(v, r) == \A f \in File, s \in Slot : Owns(r.ino, f, s) => v.live[s]
Quiet(v, r, t) == t \in Seq(Calm(r.ino)) /\ AllLive(v, r)

\* The entry of an inode holds no cluster or its first one, unless the next
\* step writes it, the inode having lost its clusters.
Agrees(v, r, t) ==
  \A f \in File, s \in Slot : Owns(r.ino, f, s) =>
    \/ v.start[s] \in {TAIL, r.ino[f].start}
    \/ r.ino[f].start = TAIL /\ t # <<>> /\ Head(t) = Start(s, TAIL)

Entries == /\ Distinct(ram.ino) /\ Agrees(cache, ram, todo)
           /\ Quiet(cache, ram, todo) \/ Turns(cache, ram, todo)

\* The types of all variables, which TypeOK states in part.
Types ==
  /\ disk \in Volume /\ cache \in Volume
  /\ ram \in Rams /\ log \in Seq(RecSet) /\ todo \in Seq(StepSet)
  /\ sync \in {None} \cup [file : File, slot : Slot]
  /\ mode \in {"down", "replay", "orphans", "up"}
  /\ mode # "up" => ram = NoRam /\ todo \in Seq(ReplaySet)

\* The inductive invariant.
JInv == Types /\ (mode = "up" => Entries)

-----------------------------------------------------------------------------
LEMMA RamFields ==
  ASSUME NEW r \in Rams
  PROVE  /\ r.ino \in [File -> Inodes] /\ r.segs \in Seq(File)
         /\ r.writer \in File \cup {None} /\ r.pre \in Seq(Cluster)
         /\ \A f \in File : InodeOK(r.ino[f])
         /\ IsInjective(r.segs) /\ ToSet(r.segs) = Hung(r.ino) /\ IsInjective(r.pre)
         /\ r = [ino |-> r.ino, segs |-> r.segs, writer |-> r.writer, pre |-> r.pre]
BY DEF Rams, RamOK, RamShape

LEMMA RamIntro ==
  ASSUME NEW ino \in [File -> Inodes], NEW segs \in Seq(File),
         NEW writer \in File \cup {None}, NEW pre \in Seq(Cluster),
         \A f \in File : InodeOK(ino[f]),
         IsInjective(segs), ToSet(segs) = Hung(ino), IsInjective(pre)
  PROVE  [ino |-> ino, segs |-> segs, writer |-> writer, pre |-> pre] \in Rams
BY DEF Rams, RamOK, RamShape

\* Giving one field of the in-core state another value.
LEMMA SetFields ==
  ASSUME NEW r \in RamShape
  PROVE  /\ \A x : [r EXCEPT !.ino = x]
                   = [ino |-> x, segs |-> r.segs, writer |-> r.writer, pre |-> r.pre]
         /\ \A x : [r EXCEPT !.segs = x]
                   = [ino |-> r.ino, segs |-> x, writer |-> r.writer, pre |-> r.pre]
         /\ \A x : [r EXCEPT !.writer = x]
                   = [ino |-> r.ino, segs |-> r.segs, writer |-> x, pre |-> r.pre]
         /\ \A x : [r EXCEPT !.pre = x]
                   = [ino |-> r.ino, segs |-> r.segs, writer |-> r.writer, pre |-> x]
BY DEF RamShape

LEMMA NoRamType == NoRam \in Rams /\ \A f \in File : NoRam.ino[f].st = "none"
<1> DEFINE ino == [f \in File |-> NoInode]
<1>1. NoInode \in Inodes /\ InodeOK(NoInode) /\ NoInode.st = "none"
  BY DEF NoInode, Inodes, InodeOK
<1>2. ino \in [File -> Inodes] /\ \A f \in File : InodeOK(ino[f]) /\ ino[f].st = "none"
  BY <1>1
<1>3. Hung(ino) = {}
  BY <1>2 DEF Hung
<1>4. ToSet(<<>>) = {} /\ IsInjective(<<>>) /\ <<>> \in Seq(File) /\ <<>> \in Seq(Cluster)
  BY DEF ToSet, IsInjective
<1>5. NoRam = [ino |-> ino, segs |-> <<>>, writer |-> None, pre |-> <<>>]
  BY DEF NoRam
<1>6. QED
  <2> HIDE DEF ino
  <2>1. NoRam \in Rams
    BY <1>2, <1>3, <1>4, <1>5, RamIntro
  <2>2. QED BY <1>2, <1>5, <2>1

LEMMA ReleasedType ==
  ASSUME NEW r \in Rams
  PROVE  /\ Released(r) \in Rams
         /\ Released(r) = [ino |-> r.ino, segs |-> r.segs, writer |-> None, pre |-> <<>>]
<1>1. Released(r) = [ino |-> r.ino, segs |-> r.segs, writer |-> None, pre |-> <<>>]
  <2> DEFINE q == [r EXCEPT !.writer = None]
  <2>1. r \in RamShape
    BY DEF Rams
  <2>2. Released(r) = [q EXCEPT !.pre = <<>>]
    BY DEF Released
  <2>3. q = [ino |-> r.ino, segs |-> r.segs, writer |-> None, pre |-> r.pre]
    BY <2>1, SetFields
  <2>4. q \in RamShape
    BY <2>1, <2>3 DEF RamShape
  <2>5. QED
    <3> HIDE DEF q
    <3>1. [q EXCEPT !.pre = <<>>] = [ino |-> q.ino, segs |-> q.segs, writer |-> q.writer, pre |-> <<>>]
      BY <2>4, SetFields
    <3>2. QED BY <2>2, <2>3, <3>1
<1>2. IsInjective(<<>>) /\ <<>> \in Seq(Cluster)
  BY DEF IsInjective
<1>3. [ino |-> r.ino, segs |-> r.segs, writer |-> None, pre |-> <<>>] \in Rams
  <2>1. /\ r.ino \in [File -> Inodes] /\ r.segs \in Seq(File)
        /\ \A f \in File : InodeOK(r.ino[f])
        /\ IsInjective(r.segs) /\ ToSet(r.segs) = Hung(r.ino)
    BY RamFields
  <2>2. QED BY <1>2, <2>1, RamIntro
<1>4. QED BY <1>1, <1>3

LEMMA CalmSteps ==
  ASSUME NEW r \in Rams
  PROVE  /\ Calm(r.ino) \subseteq StepSet
         /\ Flush \in Calm(r.ino)
         /\ \A q \in Rams : q.ino = r.ino => Mark(q) \in Calm(r.ino) /\ Ram(q) \in Calm(r.ino)
         /\ \A f \in File : r.ino[f].st = "alloc" =>
              Start(r.ino[f].slot, r.ino[f].start) \in Calm(r.ino)
         /\ DataSteps \subseteq Calm(r.ino)
<1>1. Calm(r.ino) \subseteq StepSet
  <2>1. RamSteps({q \in Rams : q.ino = r.ino}) \subseteq RamSteps(Rams)
    BY DEF RamSteps
  <2>2. QED BY <2>1 DEF Calm, StepSet
<1>2. Flush \in Calm(r.ino)
  BY StepTypes DEF Calm, DataSteps
<1>3. ASSUME NEW q \in Rams, q.ino = r.ino PROVE Mark(q) \in Calm(r.ino) /\ Ram(q) \in Calm(r.ino)
  BY <1>3, StepTypes DEF Calm
<1>4. ASSUME NEW f \in File, r.ino[f].st = "alloc"
      PROVE  Start(r.ino[f].slot, r.ino[f].start) \in Calm(r.ino)
  <2> DEFINE s == Start(r.ino[f].slot, r.ino[f].start)
  <2>1. r.ino[f].slot \in Slot /\ r.ino[f].start \in Cluster \cup {TAIL}
    BY <1>4, RamFields DEF InodeOK, Inodes
  <2>2. s \in StartSteps
    BY <2>1, StepTypes
  <2>3. s.at = r.ino[f].slot /\ s.val = r.ino[f].start
    BY DEF Start
  <2> HIDE DEF s
  <2>4. Owns(r.ino, f, s.at) /\ s.val = r.ino[f].start
    BY <1>4, <2>3 DEF Owns
  <2>5. s \in Calm(r.ino)
    BY <2>2, <2>4 DEF Calm
  <2>6. QED BY <2>5 DEF s
<1>5. DataSteps \subseteq Calm(r.ino)
  BY DEF Calm
<1>6. QED BY <1>1, <1>2, <1>3, <1>4, <1>5

LEMMA MetaCommitCalm ==
  ASSUME NEW r \in Rams, NEW f \in File \cup {None}
  PROVE  MetaCommit(r, f) \in Seq(Calm(r.ino))
<1> DEFINE b == f # None /\ r.ino[f].st = "alloc"
           s == Start(r.ino[f].slot, r.ino[f].start)
<1>1. b => <<s>> \in Seq(Calm(r.ino))
  <2> HIDE DEF s
  <2>1. b => s \in Calm(r.ino)
    BY CalmSteps DEF s
  <2>2. QED BY <2>1, OneType
<1>2. If(b, <<s>>) \in Seq(Calm(r.ino))
  <2> HIDE DEF b, s
  <2>1. QED BY <1>1, IfType
<1>3. <<Flush>> \in Seq(Calm(r.ino))
  BY CalmSteps, OneType
<1>4. MetaCommit(r, f) = If(b, <<s>>) \o <<Flush>>
  BY DEF MetaCommit
<1>5. QED
  <2> HIDE DEF b, s
  <2>1. QED BY <1>2, <1>3, <1>4

LEMMA LogEndCalm ==
  ASSUME NEW r \in Rams, NEW f \in File \cup {None}
  PROVE  /\ LogEnd(r, f) \in Seq(Calm(r.ino))
         /\ f # None /\ r.ino[f].st = "alloc" =>
              LogEnd(r, f) # <<>> /\ Head(LogEnd(r, f)) = Start(r.ino[f].slot, r.ino[f].start)
<1>1. MetaCommit(r, f) \in Seq(Calm(r.ino))
  BY MetaCommitCalm
<1>2. Released(r) \in Rams /\ Released(r).ino = r.ino
  BY ReleasedType
<1>3. Mark(Released(r)) \in Calm(r.ino)
  BY <1>2, CalmSteps
<1>4. <<Mark(Released(r))>> \in Seq(Calm(r.ino))
  BY <1>3, OneType
<1>5. LogEnd(r, f) \in Seq(Calm(r.ino))
  BY <1>1, <1>4 DEF LogEnd
<1>6. ASSUME f # None, r.ino[f].st = "alloc"
      PROVE  LogEnd(r, f) # <<>> /\ Head(LogEnd(r, f)) = Start(r.ino[f].slot, r.ino[f].start)
  <2> DEFINE s == Start(r.ino[f].slot, r.ino[f].start)
  <2>1. LogEnd(r, f) = (<<s>> \o <<Flush>>) \o <<Mark(Released(r))>>
    BY <1>6 DEF LogEnd, MetaCommit, If
  <2> HIDE DEF s
  <2>2. QED BY <2>1 DEF s
<1>7. QED BY <1>5, <1>6

LEMMA CommitCalm ==
  ASSUME NEW r \in Rams
  PROVE  CommitDeferred(r) \in Seq(Calm(r.ino))
<1> DEFINE c == MetaCommit(r, r.writer) \o <<Mark(Released(r))>>
<1>1. c \in Seq(Calm(r.ino))
  <2>1. MetaCommit(r, r.writer) \in Seq(Calm(r.ino))
    BY RamFields, MetaCommitCalm
  <2>2. Released(r) \in Rams /\ Released(r).ino = r.ino
    BY ReleasedType
  <2>3. Mark(Released(r)) \in Calm(r.ino)
    BY <2>2, CalmSteps
  <2>4. <<Mark(Released(r))>> \in Seq(Calm(r.ino))
    BY <2>3, OneType
  <2>5. QED BY <2>1, <2>4
<1>2. CommitDeferred(r) = If(r.writer # None, c)
  BY DEF CommitDeferred
<1>3. QED
  <2> HIDE DEF c
  <2>1. QED BY <1>1, <1>2, IfType

-----------------------------------------------------------------------------
(***************************************************************************)
(* Each operation, started between two operations, turns the inodes once.  *)
(***************************************************************************)
AtRest(v, r) ==
  /\ v \in Volume /\ r \in Rams /\ Distinct(r.ino)
  /\ \A f \in File, s \in Slot : Owns(r.ino, f, s) =>
       v.live[s] /\ v.start[s] \in {TAIL, r.ino[f].start}

\* What an operation must be like, and what it leads to.
Planned(v, r, t) == t \in Seq(StepSet) /\ (Quiet(v, r, t) \/ Turns(v, r, t))

\* An inode keeps its entry, or moves into one that nobody owned.
Stays(ino, new, b, f) ==
  /\ Owns(ino, f, new[f].slot)
  /\ \/ ino[f].start \in {TAIL, new[f].start}
     \/ (new[f].start = TAIL /\ b # <<>> /\ Head(b) = Start(new[f].slot, TAIL))
Moves(ino, new, a, f) ==
  /\ Free(ino, new[f].slot)
  /\ Mentions(a, "start", new[f].slot) /\ Mentions(a, "live", new[f].slot)

LEMMA MentionsConcat ==
  ASSUME NEW S, NEW a \in Seq(S), NEW b \in Seq(S), NEW k, NEW s
  PROVE  Mentions(a \o b, k, s) <=> Mentions(a, k, s) \/ Mentions(b, k, s)
<1>1. ASSUME Mentions(a, k, s) PROVE Mentions(a \o b, k, s)
  <2>1. PICK i \in 1..Len(a) : a[i].op = k /\ a[i].at = s
    BY <1>1 DEF Mentions
  <2>2. i \in 1..Len(a \o b) /\ (a \o b)[i] = a[i]
    OBVIOUS
  <2>3. QED BY <2>1, <2>2 DEF Mentions
<1>2. ASSUME Mentions(b, k, s) PROVE Mentions(a \o b, k, s)
  <2>1. PICK i \in 1..Len(b) : b[i].op = k /\ b[i].at = s
    BY <1>2 DEF Mentions
  <2>2. Len(a) + i \in 1..Len(a \o b) /\ (a \o b)[Len(a) + i] = b[i]
    OBVIOUS
  <2>3. QED BY <2>1, <2>2 DEF Mentions
<1>3. ASSUME Mentions(a \o b, k, s) PROVE Mentions(a, k, s) \/ Mentions(b, k, s)
  <2>1. PICK i \in 1..Len(a \o b) : (a \o b)[i].op = k /\ (a \o b)[i].at = s
    BY <1>3 DEF Mentions
  <2>2. CASE i <= Len(a)
    <3>1. i \in 1..Len(a) /\ (a \o b)[i] = a[i]
      BY <2>2
    <3>2. QED BY <2>1, <3>1 DEF Mentions
  <2>3. CASE i > Len(a)
    <3>1. i - Len(a) \in 1..Len(b) /\ (a \o b)[i] = b[i - Len(a)]
      BY <2>3
    <3>2. QED BY <2>1, <3>1 DEF Mentions
  <2>4. QED BY <2>2, <2>3
<1>4. QED BY <1>1, <1>2, <1>3

LEMMA LeadingSteps ==
  ASSUME NEW r \in Rams, NEW new
  PROVE  /\ Leading(r.ino, new) \subseteq StepSet
         /\ Calm(r.ino) \subseteq Leading(r.ino, new)
         /\ DataSteps \subseteq Leading(r.ino, new)
BY CalmSteps DEF Leading, StepSet

\* The inodes turn from those of r into those of x; in between, when m is not
\* empty, some of them go out of use.
LEMMA TurnsWith ==
  ASSUME NEW v, NEW r, AtRest(v, r), NEW x \in RamSteps(Rams), NEW new, new = x.ram.ino,
         Distinct(new), NEW a \in Seq(Leading(r.ino, new)), NEW b \in Seq(Calm(new)),
         NEW m \in Seq(RamSteps(Rams)),
         m # <<>> => Len(m) = 1 /\ Sheds(r.ino, m[1].ram.ino, new),
         \A f \in File : new[f].st = "alloc" => Stays(r.ino, new, b, f) \/ Moves(r.ino, new, a, f),
         NEW t, t = a \o m \o <<x>> \o b
  PROVE  Planned(v, r, t)
<1>1. x.ram \in Rams /\ r \in Rams
  BY DEF RamSteps, AtRest
<1>2. Calm(new) \subseteq StepSet /\ Leading(r.ino, new) \subseteq StepSet
  BY <1>1, CalmSteps, LeadingSteps
<1>3. x \in StepSet /\ m \in Seq(StepSet)
  <2>1. RamSteps(Rams) \subseteq StepSet
    BY DEF StepSet
  <2>2. QED BY <2>1, SeqMonotonic
<1>4. t \in Seq(StepSet)
  <2>1. a \in Seq(StepSet) /\ b \in Seq(StepSet) /\ <<x>> \in Seq(StepSet)
    BY <1>2, <1>3
  <2>2. QED BY <1>3, <2>1
<1>5. ASSUME NEW f \in File, NEW s \in Slot, Owns(new, f, s)
      PROVE  Settles(v, r.ino, a, b, s, new[f].start)
  <2>1. new[f].st = "alloc" /\ s = new[f].slot
    BY <1>5 DEF Owns
  <2>2. CASE Stays(r.ino, new, b, f)
    <3>1. Owns(r.ino, f, s)
      BY <2>1, <2>2 DEF Stays
    <3>2. v.live[s]
      BY <3>1 DEF AtRest
    <3>3. ASSUME NEW h \in File, Owns(r.ino, h, s) PROVE h = f
      BY <3>1, <3>3 DEF AtRest, Distinct
    <3>4. ~Free(r.ino, s)
      BY <3>1 DEF Free
    <3>5. QED BY <2>1, <2>2, <3>2, <3>3, <3>4 DEF Settles, Stays
  <2>3. CASE Moves(r.ino, new, a, f)
    BY <2>1, <2>3 DEF Moves, Settles, Free
  <2>4. QED BY <2>1, <2>2, <2>3
<1>6. TurnsBy(v, r, t, a, m, x, b)
  BY <1>5 DEF TurnsBy
<1>7. QED BY <1>4, <1>6 DEF Planned, Turns

LEMMA TurnsIntro ==
  ASSUME NEW v, NEW r, AtRest(v, r), NEW x \in RamSteps(Rams), NEW new, new = x.ram.ino,
         Distinct(new), NEW a \in Seq(Leading(r.ino, new)), NEW b \in Seq(Calm(new)),
         \A f \in File : new[f].st = "alloc" => Stays(r.ino, new, b, f) \/ Moves(r.ino, new, a, f),
         NEW t, t = a \o <<x>> \o b
  PROVE  Planned(v, r, t)
<1>1. t = a \o <<>> \o <<x>> \o b
  <2>1. a \o <<>> = a
    OBVIOUS
  <2>2. QED BY <2>1
<1>2. <<>> \in Seq(RamSteps(Rams))
  OBVIOUS
<1>3. QED BY <1>1, <1>2, TurnsWith

\* Taking entries away keeps the owners distinct.
LEMMA StillDistinct ==
  ASSUME NEW ino, NEW new, Distinct(ino),
         \A f \in File : new[f].st = "alloc" => Owns(ino, f, new[f].slot)
  PROVE  Distinct(new)
BY DEF Distinct, Owns

LEMMA Associate ==
  ASSUME NEW S, NEW a \in Seq(S), NEW b \in Seq(S), NEW c \in Seq(S)
  PROVE  (a \o b) \o c = a \o (b \o c)
<1> DEFINE p == (a \o b) \o c
           q == a \o (b \o c)
<1>1. p \in Seq(S) /\ q \in Seq(S) /\ Len(p) = Len(a) + Len(b) + Len(c) /\ Len(q) = Len(p)
  OBVIOUS
<1>2. ASSUME NEW i \in 1..Len(p) PROVE p[i] = q[i]
  OBVIOUS
<1>3. QED
  <2> HIDE DEF p, q
  <2>1. p = q
    BY <1>1, <1>2
  <2>2. QED BY <2>1 DEF p, q

LEMMA Split4 ==
  ASSUME NEW p, NEW q, NEW r, NEW x
  PROVE  <<p, q, r, x>> = <<p, q, r>> \o <<x>>
OBVIOUS

LEMMA Three ==
  ASSUME NEW S, NEW x \in S, NEW y \in S, NEW z \in S
  PROVE  <<x, y, z>> \in Seq(S) /\ <<x, y>> \in Seq(S)
OBVIOUS
\* rfs_create and rfs_mkdir
LEMMA CreatePlan ==
  ASSUME NEW f \in File, NEW s \in Slot, NEW c \in Cluster \cup {None},
         AtRest(cache, ram), ram.ino[f].st = "none", ~cache.live[s]
  PROVE  Planned(cache, ram, CreateSteps(f, s, c))
<1> DEFINE r == Released(ram)
           i == [st |-> "alloc", slot |-> s,
                 start |-> IF c = None THEN TAIL ELSE c, last |-> IF c = None THEN TAIL ELSE c]
           new == [ram.ino EXCEPT ![f] = i]
           up == [r EXCEPT !.ino[f] = i]
           first == If(c # None, <<Rec(AllocRec(None, TAIL, TAIL, <<c>>)), Fat(c, TAIL)>>)
           entry == <<Rec(BuildRec(s)), Start(s, i.start), Live(s, TRUE)>>
           a == CommitDeferred(ram) \o first \o entry
           b == LogEnd(up, None)
<1>1. ram \in Rams /\ cache \in Volume
  BY DEF AtRest
<1>2. /\ r \in Rams
      /\ r = [ino |-> ram.ino, segs |-> ram.segs, writer |-> None, pre |-> <<>>]
  BY <1>1, ReleasedType
<1>3. i \in Inodes /\ InodeOK(i) /\ i.st = "alloc" /\ i.slot = s
  <2>1. (c = None => TAIL = TAIL) /\ (c # None => c \in Cluster /\ c # TAIL)
    BY RfsAssumption
  <2>2. QED BY <2>1 DEF Inodes, InodeOK
<1>4. ram.ino \in [File -> Inodes]
  BY <1>1, RamFields
<1>5. up = [ino |-> new, segs |-> ram.segs, writer |-> None, pre |-> <<>>]
  <2>1. r \in RamShape
    BY <1>2 DEF Rams
  <2>2. up = [r EXCEPT !.ino = [r.ino EXCEPT ![f] = i]]
    OBVIOUS
  <2> HIDE DEF i, r
  <2>3. QED BY <1>2, <2>1, <2>2, SetFields
<1>6. new \in [File -> Inodes] /\ new[f] = i /\ \A g \in File : g # f => new[g] = ram.ino[g]
  <2> HIDE DEF i
  <2>1. QED BY <1>3, <1>4
<1>7. up \in Rams /\ up.ino = new
  <2> HIDE DEF i, new
  <2>1. \A g \in File : InodeOK(new[g])
    BY <1>1, <1>3, <1>6, RamFields
  <2>2. Hung(new) = Hung(ram.ino)
    BY <1>3, <1>6 DEF Hung
  <2>3. ram.segs \in Seq(File) /\ IsInjective(ram.segs) /\ ToSet(ram.segs) = Hung(new)
    BY <1>1, <2>2, RamFields
  <2>4. <<>> \in Seq(Cluster) /\ IsInjective(<<>>)
    BY DEF IsInjective
  <2>5. None \in File \cup {None}
    OBVIOUS
  <2>6. [ino |-> new, segs |-> ram.segs, writer |-> None, pre |-> <<>>] \in Rams
    BY <1>6, <2>1, <2>3, <2>4, <2>5, RamIntro
  <2>7. QED
    <3> HIDE DEF up
    <3>1. QED BY <1>5, <2>6
<1>8. Free(ram.ino, s)
  BY DEF AtRest, Free
<1>9. ASSUME NEW g \in File, Owns(new, g, s) PROVE g = f
  <2> HIDE DEF i, new
  <2>1. QED BY <1>6, <1>8, <1>9 DEF Owns, Free
<1> DEFINE L == Leading(ram.ino, new)
<1>10. CommitDeferred(ram) \in Seq(L)
  <2> DEFINE K == Calm(ram.ino)
  <2>1. K \subseteq L
    BY <1>1, LeadingSteps
  <2>2. CommitDeferred(ram) \in Seq(K)
    BY <1>1, CommitCalm
  <2> HIDE DEF K, L
  <2>3. QED BY <2>1, <2>2
<1>11. first \in Seq(L)
  <2>1. ASSUME c # None
        PROVE  <<Rec(AllocRec(None, TAIL, TAIL, <<c>>)), Fat(c, TAIL)>> \in Seq(L)
    <3>1. c \in Cluster /\ <<c>> \in Seq(Cluster)
      BY <2>1
    <3>2. AllocRec(None, TAIL, TAIL, <<c>>) \in AllocRecs
      BY <3>1 DEF AllocRec, AllocRecs, FatVal
    <3>3. Rec(AllocRec(None, TAIL, TAIL, <<c>>)) \in DataSteps /\ Fat(c, TAIL) \in DataSteps
      BY <3>1, <3>2, StepTypes DEF RecSet, DataSteps, FatVal, FatIndex
    <3>4. Rec(AllocRec(None, TAIL, TAIL, <<c>>)) \in L /\ Fat(c, TAIL) \in L
      BY <1>1, <3>3, LeadingSteps
    <3> HIDE DEF L
    <3>5. QED BY <3>4
  <2>2. QED BY <2>1, IfType
<1>12. entry \in Seq(L)
  <2>1. Rec(BuildRec(s)) \in L
    <3>1. BuildRec(s) \in RecSet
      BY DEF BuildRec, EntryRecs, RecSet
    <3>2. QED BY <1>1, <3>1, StepTypes, LeadingSteps DEF DataSteps
  <2>2. Start(s, i.start) \in L
    <3>1. Start(s, i.start) \in StartSteps
      BY <1>3, StepTypes DEF Inodes
    <3>2. Start(s, i.start).at = s /\ Start(s, i.start).val = i.start
      BY DEF Start
    <3> HIDE DEF i, new
    <3>3. QED BY <1>6, <1>8, <1>9, <3>1, <3>2 DEF Leading
  <2>3. Live(s, TRUE) \in L
    BY StepTypes DEF Leading, Live
  <2> HIDE DEF L, i
  <2>4. QED BY <2>1, <2>2, <2>3, Three
<1>13. a \in Seq(L)
  <2> HIDE DEF first, entry, L
  <2>1. QED BY <1>10, <1>11, <1>12
<1>14. Moves(ram.ino, new, a, f)
  <2>1. entry[2].op = "start" /\ entry[2].at = s /\ entry[3].op = "live" /\ entry[3].at = s
        /\ Len(entry) = 3
    BY DEF Start, Live
  <2>2. 2 \in 1..Len(entry) /\ 3 \in 1..Len(entry)
    BY <2>1
  <2>3. Mentions(entry, "start", s) /\ Mentions(entry, "live", s)
    <3> HIDE DEF entry
    <3>1. QED BY <2>1, <2>2 DEF Mentions
  <2>4. Mentions(a, "start", s) /\ Mentions(a, "live", s)
    <3> HIDE DEF first, entry, L
    <3>1. CommitDeferred(ram) \o first \in Seq(L)
      BY <1>10, <1>11
    <3>2. QED BY <1>12, <2>3, <3>1, MentionsConcat
  <2> HIDE DEF a, i, new
  <2>5. QED BY <1>3, <1>6, <1>8, <2>4 DEF Moves
<1>15. ASSUME NEW g \in File, g # f, new[g].st = "alloc" PROVE Stays(ram.ino, new, b, g)
  <2> HIDE DEF i, new, b
  <2>1. QED BY <1>6, <1>15 DEF Stays, Owns
<1>16. Distinct(new)
  <2> HIDE DEF i, new
  <2>1. ASSUME NEW g \in File, NEW h \in File, NEW u \in Slot, Owns(new, g, u), Owns(new, h, u)
        PROVE  g = h
    <3>1. CASE u = s
      BY <1>9, <2>1, <3>1
    <3>2. CASE u # s
      <4>1. g # f /\ h # f
        BY <1>3, <1>6, <2>1, <3>2 DEF Owns
      <4>2. Owns(ram.ino, g, u) /\ Owns(ram.ino, h, u)
        BY <1>6, <2>1, <4>1 DEF Owns
      <4>3. QED BY <4>2 DEF AtRest, Distinct
    <3>3. QED BY <3>1, <3>2
  <2>2. QED BY <2>1 DEF Distinct
<1>17. Ram(up) \in RamSteps(Rams) /\ Ram(up).ram = up
  BY <1>7, StepTypes DEF Ram
<1>18. b \in Seq(Calm(new))
  <2> HIDE DEF up, new
  <2>1. QED BY <1>7, LogEndCalm
<1>19. CreateSteps(f, s, c) = a \o <<Ram(up)>> \o b
  <2> DEFINE four == <<Rec(BuildRec(s)), Start(s, i.start), Live(s, TRUE), Ram(up)>>
             pre == CommitDeferred(ram) \o first
  <2>1. CreateSteps(f, s, c) = pre \o four \o b
    BY DEF CreateSteps
  <2>2. four = entry \o <<Ram(up)>>
    <3> DEFINE p == Rec(BuildRec(s))
               q == Start(s, i.start)
               w == Live(s, TRUE)
               x == Ram(up)
    <3>1. entry = <<p, q, w>> /\ four = <<p, q, w, x>>
      OBVIOUS
    <3>2. <<p, q, w, x>> = <<p, q, w>> \o <<x>>
      <4> HIDE DEF p, q, w, x
      <4>1. QED BY Split4
    <3> HIDE DEF p, q, w, x, entry, four
    <3>3. four = entry \o <<x>>
      BY <3>1, <3>2
    <3>4. QED BY <3>3 DEF x
  <2>3. pre \o (entry \o <<Ram(up)>>) = (pre \o entry) \o <<Ram(up)>>
    <3>1. pre \in Seq(StepSet) /\ entry \in Seq(StepSet) /\ <<Ram(up)>> \in Seq(StepSet)
      <4>1. pre \in Seq(L)
        <5> HIDE DEF first, L
        <5>1. QED BY <1>10, <1>11
      <4>2. L \subseteq StepSet
        BY <1>1, LeadingSteps
      <4>3. Ram(up) \in StepSet
        BY <1>17 DEF StepSet
      <4> HIDE DEF pre, entry, L, up
      <4>4. QED BY <1>12, <4>1, <4>2, <4>3
    <3> HIDE DEF pre, entry, up
    <3>2. QED BY <3>1, Associate
  <2> HIDE DEF four, entry, first, up, b
  <2>4. QED BY <2>1, <2>2, <2>3
<1>20. QED
  <2> DEFINE x == Ram(up)
             t == CreateSteps(f, s, c)
  <2>1. x \in RamSteps(Rams) /\ new = x.ram.ino
    BY <1>7, <1>17
  <2>2. \A g \in File : new[g].st = "alloc" => Stays(ram.ino, new, b, g) \/ Moves(ram.ino, new, a, g)
    <3> HIDE DEF a, b, new
    <3>1. QED BY <1>14, <1>15
  <2>3. t = a \o <<x>> \o b
    BY <1>19
  <2> HIDE DEF a, b, x, new, t
  <2>4. Planned(cache, ram, t)
    BY <1>13, <1>16, <1>18, <2>1, <2>2, <2>3, TurnsIntro
  <2>5. QED BY <2>4 DEF t

LEMMA ListAppend ==
  ASSUME NEW S, NEW q \in Seq(S), IsInjective(q), NEW x \in S, x \notin ToSet(q)
  PROVE  /\ Append(q, x) \in Seq(S) /\ IsInjective(Append(q, x))
         /\ ToSet(Append(q, x)) = ToSet(q) \cup {x}
<1> DEFINE w == Append(q, x)
<1>1. w \in Seq(S) /\ Len(w) = Len(q) + 1 /\ w[Len(q) + 1] = x
      /\ \A k \in 1..Len(q) : w[k] = q[k]
  OBVIOUS
<1>2. DOMAIN w = 1..Len(w) /\ DOMAIN q = 1..Len(q) /\ Len(q) \in Nat
  OBVIOUS
<1>3. \A k \in 1..Len(q) : q[k] # x
  BY <1>2 DEF ToSet
<1>4. ASSUME NEW k \in 1..Len(w), NEW n \in 1..Len(w), w[k] = w[n] PROVE k = n
  <2>1. (k \in 1..Len(q) \/ k = Len(q) + 1) /\ (n \in 1..Len(q) \/ n = Len(q) + 1)
    BY <1>1, <1>2
  <2>2. CASE k \in 1..Len(q) /\ n \in 1..Len(q)
    BY <1>1, <1>2, <1>4, <2>2 DEF IsInjective
  <2>3. CASE k = Len(q) + 1 \/ n = Len(q) + 1
    BY <1>1, <1>3, <1>4, <2>1, <2>3
  <2>4. QED BY <2>1, <2>2, <2>3
<1>5. IsInjective(w)
  <2> HIDE DEF w
  <2>1. QED BY <1>2, <1>4 DEF IsInjective
<1>6. ToSet(w) = ToSet(q) \cup {x}
  <2> HIDE DEF w
  <2>1. \A k \in 1..Len(w) : k \in 1..Len(q) \/ k = Len(q) + 1
    BY <1>1, <1>2
  <2>2. Len(q) + 1 \in 1..Len(w) /\ \A k \in 1..Len(q) : k \in 1..Len(w)
    BY <1>1, <1>2
  <2>3. QED BY <1>1, <1>2, <2>1, <2>2 DEF ToSet
<1>7. QED
  <2>1. w \in Seq(S) /\ IsInjective(w) /\ ToSet(w) = ToSet(q) \cup {x}
    BY <1>1, <1>5, <1>6
  <2>2. QED BY <2>1

-----------------------------------------------------------------------------
(***************************************************************************)
(* The candidate list: its segments lie on data clusters.                  *)
(***************************************************************************)
\* Every listed inode has clusters.
Listed(r) == /\ r \in RamShape /\ \A f \in File : InodeOK(r.ino[f])
             /\ ToSet(r.segs) \subseteq Hung(r.ino)

LEMMA RamsListed ==
  ASSUME NEW r \in Rams
  PROVE  Listed(r)
BY DEF Rams, RamOK, Listed

LEMMA SegTypes ==
  ASSUME NEW r, Listed(r)
  PROVE  /\ \A k \in 1..Len(r.segs) : /\ r.segs[k] \in File
                                      /\ SegStart(r, k) \in Cluster
                                      /\ r.ino[r.segs[k]].last \in Cluster
         /\ \A k \in 0..Len(r.segs) : /\ SegLast(r, k) \in FatIndex
                                      /\ SegNext(r, k) \in Cluster \cup {TAIL}
         /\ SegEnd(r) \in FatIndex /\ Len(r.segs) \in Nat
<1>1. r.segs \in Seq(File) /\ r.ino \in [File -> Inodes]
  BY DEF Listed, RamShape
<1>2. ASSUME NEW k \in 1..Len(r.segs)
      PROVE  /\ r.segs[k] \in File /\ SegStart(r, k) \in Cluster
             /\ r.ino[r.segs[k]].last \in Cluster
  <2>1. r.segs[k] \in ToSet(r.segs) /\ r.segs[k] \in File
    BY <1>1 DEF ToSet
  <2>2. r.segs[k] \in Hung(r.ino)
    BY <2>1 DEF Listed
  <2> DEFINE i == r.ino[r.segs[k]]
  <2>3. i \in Inodes /\ InodeOK(i) /\ i.start # TAIL
    BY <1>1, <2>1, <2>2 DEF Listed, Hung
  <2>4. i.start \in Cluster /\ i.last \in Cluster
    BY <2>3 DEF Inodes, InodeOK
  <2>5. QED BY <2>1, <2>4 DEF SegStart
<1>3. ASSUME NEW k \in 0..Len(r.segs) PROVE SegLast(r, k) \in FatIndex
  <2>1. CASE k = 0
    BY <2>1 DEF SegLast, FatIndex
  <2>2. CASE k # 0
    <3>1. k \in 1..Len(r.segs)
      BY <1>1, <2>2
    <3>2. QED BY <1>2, <2>2, <3>1 DEF SegLast, FatIndex
  <2>3. QED BY <2>1, <2>2
<1>4. ASSUME NEW k \in 0..Len(r.segs) PROVE SegNext(r, k) \in Cluster \cup {TAIL}
  <2>1. CASE k < Len(r.segs)
    <3>1. k + 1 \in 1..Len(r.segs)
      BY <1>1, <2>1
    <3>2. QED BY <1>2, <2>1, <3>1 DEF SegNext
  <2>2. CASE ~(k < Len(r.segs))
    BY <2>2 DEF SegNext
  <2>3. QED BY <2>1, <2>2
<1>5. Len(r.segs) \in Nat /\ Len(r.segs) \in 0..Len(r.segs)
  BY <1>1
<1>6. QED BY <1>2, <1>3, <1>4, <1>5 DEF SegEnd

\* The position of an unlinked inode with clusters.
LEMMA SegPlace ==
  ASSUME NEW r \in Rams, NEW f \in File, r.ino[f].st = "free", r.ino[f].start # TAIL
  PROVE  SegIndex(r, f) \in 1..Len(r.segs) /\ r.segs[SegIndex(r, f)] = f
<1>1. f \in ToSet(r.segs) /\ r.segs \in Seq(File)
  BY RamFields DEF Hung
<1>2. \E k \in 1..Len(r.segs) : r.segs[k] = f
  BY <1>1 DEF ToSet
<1>3. QED BY <1>2 DEF SegIndex

LEMMA MoveChainType ==
  ASSUME NEW r, Listed(r), NEW f \in File, r.ino[f].start # TAIL, NEW s \in Slot \cup {None}
  PROVE  MoveChain(r, s, f) \in Seq(DataSteps)
<1> DEFINE i == r.ino[f]
           e == SegEnd(r)
<1>1. i.start \in Cluster /\ i.last \in Cluster
  <2>1. i \in Inodes /\ InodeOK(i)
    BY DEF Listed, RamShape
  <2>2. QED BY <2>1 DEF Inodes, InodeOK
<1>2. e \in FatIndex
  BY SegTypes
<1>3. MoveRec(s, e, i.start, i.last) \in MoveRecs
  <2> HIDE DEF e
  <2>1. QED BY <1>1, <1>2 DEF MoveRec, MoveRecs
<1> DEFINE p == Rec(MoveRec(s, e, i.start, i.last))
           q == Fat(e, i.start)
<1>4. p \in DataSteps
  BY <1>3, StepTypes DEF RecSet, DataSteps
<1>5. q \in DataSteps
  BY <1>1, <1>2, StepTypes DEF DataSteps, FatVal
<1>6. <<p, q>> \in Seq(DataSteps)
  <2> HIDE DEF p, q
  <2>1. QED BY <1>4, <1>5, Three
<1>7. QED BY <1>6 DEF MoveChain

LEMMA DataLeading ==
  ASSUME NEW r \in Rams, NEW new, NEW t \in Seq(DataSteps)
  PROVE  t \in Seq(Leading(r.ino, new)) /\ t \in Seq(Calm(r.ino))
<1>1. DataSteps \subseteq Leading(r.ino, new) /\ DataSteps \subseteq Calm(r.ino)
  BY LeadingSteps, CalmSteps
<1>2. QED BY <1>1, SeqMonotonic

LEMMA CalmLeading ==
  ASSUME NEW r \in Rams, NEW new, NEW t \in Seq(Calm(r.ino))
  PROVE  t \in Seq(Leading(r.ino, new))
<1>1. Calm(r.ino) \subseteq Leading(r.ino, new)
  BY LeadingSteps
<1>2. QED BY <1>1, SeqMonotonic

\* The inode of an unlinked file leaves its entry; the candidate list gets it
\* when it has clusters.
LEMMA DeletedType ==
  ASSUME NEW r \in Rams, NEW f \in File, r.ino[f].st = "alloc"
  PROVE  /\ Deleted(r, f) \in Rams
         /\ Deleted(r, f).ino = [r.ino EXCEPT ![f] = [r.ino[f] EXCEPT !.st = "free"]]
         /\ Deleted(r, f).segs = IF r.ino[f].start = TAIL THEN r.segs ELSE Append(r.segs, f)
         /\ Deleted(r, f).writer = r.writer /\ Deleted(r, f).pre = r.pre
<1> DEFINE i == [r.ino[f] EXCEPT !.st = "free"]
           new == [r.ino EXCEPT ![f] = i]
           segs == IF r.ino[f].start = TAIL THEN r.segs ELSE Append(r.segs, f)
           q == [r EXCEPT !.ino = new]
<1>1. Deleted(r, f) = [q EXCEPT !.segs = segs]
  BY DEF Deleted
<1>2. r.ino \in [File -> Inodes] /\ r.ino[f] \in Inodes /\ r.segs \in Seq(File) /\ IsInjective(r.segs)
      /\ ToSet(r.segs) = Hung(r.ino) /\ r.writer \in File \cup {None}
      /\ r.pre \in Seq(Cluster) /\ IsInjective(r.pre) /\ r \in RamShape
      /\ \A g \in File : InodeOK(r.ino[g])
  BY RamFields DEF Rams
<1>3. i \in Inodes /\ InodeOK(i) /\ i.st = "free" /\ i.start = r.ino[f].start
  BY <1>2 DEF Inodes, InodeOK
<1>4. new \in [File -> Inodes] /\ new[f] = i /\ \A g \in File : g # f => new[g] = r.ino[g]
  <2> HIDE DEF i
  <2>1. QED BY <1>2, <1>3
<1>5. q = [ino |-> new, segs |-> r.segs, writer |-> r.writer, pre |-> r.pre]
  <2> HIDE DEF new
  <2>1. QED BY <1>2, SetFields
<1>6. Deleted(r, f) = [ino |-> new, segs |-> segs, writer |-> r.writer, pre |-> r.pre]
  <2> HIDE DEF new, segs
  <2>1. q \in RamShape
    BY <1>2, <1>4, <1>5 DEF RamShape
  <2>2. [q EXCEPT !.segs = segs] = [ino |-> q.ino, segs |-> segs, writer |-> q.writer, pre |-> q.pre]
    <3> HIDE DEF q
    <3>1. QED BY <2>1, SetFields
  <2>3. q.ino = new /\ q.writer = r.writer /\ q.pre = r.pre
    <3> HIDE DEF q
    <3>1. QED BY <1>5
  <2> HIDE DEF q
  <2>4. QED BY <1>1, <2>2, <2>3
<1>7. segs \in Seq(File) /\ IsInjective(segs) /\ ToSet(segs) = Hung(new)
  <2> HIDE DEF i, new
  <2>1. CASE r.ino[f].start = TAIL
    <3>1. Hung(new) = Hung(r.ino)
      BY <1>3, <1>4, <2>1 DEF Hung
    <3>2. QED BY <1>2, <2>1, <3>1
  <2>2. CASE r.ino[f].start # TAIL
    <3>1. Hung(new) = Hung(r.ino) \cup {f}
      BY <1>3, <1>4, <2>2 DEF Hung
    <3>2. f \notin ToSet(r.segs)
      BY <1>2 DEF Hung
    <3>3. segs = Append(r.segs, f)
      BY <2>2
    <3>4. QED BY <1>2, <3>1, <3>2, <3>3, ListAppend
  <2>3. QED BY <2>1, <2>2
<1>8. \A g \in File : InodeOK(new[g])
  <2> HIDE DEF i, new
  <2>1. QED BY <1>2, <1>3, <1>4
<1>9. [ino |-> new, segs |-> segs, writer |-> r.writer, pre |-> r.pre] \in Rams
  <2> HIDE DEF i, new, segs
  <2>1. QED BY <1>2, <1>4, <1>7, <1>8, RamIntro
<1>10. QED
  <2> HIDE DEF new, segs
  <2>1. /\ Deleted(r, f) \in Rams /\ Deleted(r, f).ino = new /\ Deleted(r, f).segs = segs
        /\ Deleted(r, f).writer = r.writer /\ Deleted(r, f).pre = r.pre
    BY <1>6, <1>9
  <2>2. QED BY <2>1 DEF new, segs

\* What rfs_unlink does before the inode leaves its entry.
Unhook(r, f) ==
  <<Rec(RemoveRec(r.ino[f].slot)), Live(r.ino[f].slot, FALSE)>>
    \o If(r.ino[f].start # TAIL, MoveChain(r, r.ino[f].slot, f))

LEMMA LiveLeading ==
  ASSUME NEW ino, NEW new, NEW s \in Slot, NEW v \in BOOLEAN, v = TRUE \/ Free(new, s)
  PROVE  Live(s, v) \in Leading(ino, new)
<1> DEFINE x == Live(s, v)
<1>1. x \in LiveSteps /\ x.at = s /\ x.val = v
  BY StepTypes DEF Live
<1>2. \A f \in File : Owns(new, f, s) => v = TRUE
  BY DEF Free
<1>3. x \in Leading(ino, new)
  <2> HIDE DEF x
  <2>1. QED BY <1>1, <1>2 DEF Leading
<1>4. QED BY <1>3

LEMMA EntryRecLeading ==
  ASSUME NEW r \in Rams, NEW new, NEW s \in Slot
  PROVE  /\ Rec(RemoveRec(s)) \in Leading(r.ino, new)
         /\ Rec(BuildRec(s)) \in Leading(r.ino, new)
<1>1. RemoveRec(s) \in RecSet /\ BuildRec(s) \in RecSet
  BY DEF RemoveRec, BuildRec, EntryRecs, RecSet
<1>2. QED BY <1>1, StepTypes, LeadingSteps DEF DataSteps

LEMMA UnhookLeading ==
  ASSUME NEW r \in Rams, NEW f \in File, r.ino[f].st = "alloc",
         NEW new, Free(new, r.ino[f].slot)
  PROVE  /\ Unhook(r, f) \in Seq(Leading(r.ino, new))
         /\ DeleteEntry(r, f) = Unhook(r, f) \o <<Ram(Deleted(r, f))>>
<1> DEFINE s == r.ino[f].slot
           L == Leading(r.ino, new)
           p == Rec(RemoveRec(s))
           q == Live(s, FALSE)
           w == MoveChain(r, s, f)
           b == r.ino[f].start # TAIL
<1>1. s \in Slot
  BY RamFields DEF InodeOK
<1>2. p \in L /\ q \in L
  BY <1>1, EntryRecLeading, LiveLeading
<1>3. <<p, q>> \in Seq(L)
  <2> HIDE DEF p, q, L
  <2>1. QED BY <1>2, Three
<1>4. b => w \in Seq(L)
  <2>1. Listed(r)
    BY RamsListed
  <2>2. b => w \in Seq(DataSteps)
    BY <1>1, <2>1, MoveChainType
  <2> HIDE DEF w, b, L
  <2>3. QED BY <2>2, DataLeading DEF L
<1>5. Unhook(r, f) \in Seq(L)
  <2>1. If(b, w) \in Seq(L)
    <3> HIDE DEF b, w, L
    <3>1. QED BY <1>4, IfType
  <2>2. Unhook(r, f) = <<p, q>> \o If(b, w)
    BY DEF Unhook
  <2> HIDE DEF p, q, b, w, L
  <2>3. QED BY <1>3, <2>1, <2>2
<1>6. DeleteEntry(r, f) = Unhook(r, f) \o <<Ram(Deleted(r, f))>>
  BY DEF DeleteEntry, Unhook
<1>7. QED BY <1>5, <1>6

\* An inode out of use leaves its entry to nobody.
LEMMA LeavesFree ==
  ASSUME NEW ino \in [File -> Inodes], Distinct(ino), NEW f \in File, NEW i \in Inodes,
         ino[f].st = "alloc", ino[f].slot \in Slot, i.st # "alloc"
  PROVE  /\ Free([ino EXCEPT ![f] = i], ino[f].slot)
         /\ Distinct([ino EXCEPT ![f] = i])
         /\ \A g \in File : [ino EXCEPT ![f] = i][g].st = "alloc" =>
              g # f /\ [ino EXCEPT ![f] = i][g] = ino[g]
<1> DEFINE new == [ino EXCEPT ![f] = i]
<1>1. new[f] = i /\ \A g \in File : g # f => new[g] = ino[g]
  OBVIOUS
<1> HIDE DEF new
<1>2. \A g \in File : new[g].st = "alloc" => g # f /\ new[g] = ino[g]
  BY <1>1
<1>3. Free(new, ino[f].slot)
  BY <1>2 DEF Free, Distinct, Owns
<1>4. Distinct(new)
  BY <1>2 DEF Distinct, Owns
<1>5. QED BY <1>2, <1>3, <1>4 DEF new

\* rfs_unlink
LEMMA UnlinkPlan ==
  ASSUME NEW f \in File, AtRest(cache, ram), ram.ino[f].st = "alloc"
  PROVE  Planned(cache, ram, UnlinkSteps(f))
<1> DEFINE r == Released(ram)
           q == Deleted(r, f)
           new == q.ino
           i == [ram.ino[f] EXCEPT !.st = "free"]
           a == CommitDeferred(ram) \o Unhook(r, f)
           b == LogEnd(q, None)
           L == Leading(ram.ino, new)
           x == Ram(q)
<1>1. /\ ram \in Rams /\ cache \in Volume /\ Distinct(ram.ino)
      /\ r \in Rams /\ r.ino = ram.ino
      /\ ram.ino \in [File -> Inodes]
  BY ReleasedType, RamFields DEF AtRest
<1>2. q \in Rams /\ new = [ram.ino EXCEPT ![f] = i]
  <2> HIDE DEF r
  <2>1. QED BY <1>1, DeletedType
<1>3. i \in Inodes /\ i.st = "free" /\ ram.ino[f].slot \in Slot
  BY <1>1, RamFields DEF Inodes, InodeOK
<1>4. /\ Free(new, ram.ino[f].slot) /\ Distinct(new)
      /\ \A g \in File : new[g].st = "alloc" => new[g] = ram.ino[g]
  <2> HIDE DEF i, q
  <2>1. QED BY <1>1, <1>2, <1>3, LeavesFree
<1>5. CommitDeferred(ram) \in Seq(L)
  BY <1>1, CommitCalm, CalmLeading
<1>6. Unhook(r, f) \in Seq(L) /\ DeleteEntry(r, f) = Unhook(r, f) \o <<x>>
  <2> HIDE DEF r, new
  <2>1. QED BY <1>1, <1>4, UnhookLeading
<1>7. b \in Seq(Calm(new))
  <2> HIDE DEF q
  <2>1. QED BY <1>2, LogEndCalm
<1>8. x \in RamSteps(Rams) /\ new = x.ram.ino
  <2> HIDE DEF q
  <2>1. QED BY <1>2, StepTypes DEF Ram
<1>9. UnlinkSteps(f) = a \o <<x>> \o b
  <2> DEFINE c == CommitDeferred(ram)
             u == Unhook(r, f)
  <2>1. c \in Seq(StepSet) /\ u \in Seq(StepSet) /\ <<x>> \in Seq(StepSet)
    <3>1. L \subseteq StepSet
      BY <1>1, LeadingSteps
    <3>2. x \in StepSet
      BY <1>8 DEF StepSet
    <3> HIDE DEF x, L, c, u
    <3>3. QED BY <1>5, <1>6, <3>1, <3>2 DEF c, u
  <2>2. UnlinkSteps(f) = c \o (u \o <<x>>) \o b
    BY <1>6 DEF UnlinkSteps
  <2> HIDE DEF c, u, x, b
  <2>3. (c \o u) \o <<x>> = c \o (u \o <<x>>)
    BY <2>1, Associate
  <2>4. QED BY <2>2, <2>3 DEF c, u
<1>10. a \in Seq(L)
  <2> HIDE DEF L
  <2>1. QED BY <1>5, <1>6
<1>11. \A g \in File : new[g].st = "alloc" => Stays(ram.ino, new, b, g)
  <2> HIDE DEF q
  <2>1. QED BY <1>4 DEF Stays, Owns
<1>12. QED
  <2> DEFINE t == UnlinkSteps(f)
  <2>2. \A g \in File : new[g].st = "alloc" => Stays(ram.ino, new, b, g) \/ Moves(ram.ino, new, a, g)
    <3> HIDE DEF a, b, new
    <3>1. QED BY <1>11
  <2>3. t = a \o <<x>> \o b
    BY <1>9
  <2> HIDE DEF a, b, x, new, t
  <2>1. Planned(cache, ram, t)
    BY <1>4, <1>7, <1>8, <1>10, <2>2, <2>3, TurnsIntro
  <2>4. QED BY <2>1 DEF t

LEMMA QuietPlan ==
  ASSUME NEW v, NEW r, AtRest(v, r), NEW t \in Seq(Calm(r.ino))
  PROVE  Planned(v, r, t)
<1>1. r \in Rams
  BY DEF AtRest
<1>2. t \in Seq(StepSet)
  BY <1>1, CalmSteps, SeqMonotonic
<1>3. Quiet(v, r, t)
  BY DEF AtRest, Quiet, AllLive
<1>4. QED BY <1>2, <1>3 DEF Planned

\* The walk over the chain of a file stops on one of its clusters.
LEMMA ChainOfType ==
  ASSUME cache \in Volume, ram \in Rams, NEW f \in File
  PROVE  /\ ChainOf(f) \in Seq(Cluster)
         /\ ChainOf(f) = <<>> <=> ram.ino[f].start = TAIL
<1> DEFINE i == ram.ino[f]
           c == Chain(cache.fat, i.start)
           ends == {k \in 1..Len(c) : c[k] = i.last}
           n == CHOOSE k \in ends : \A j \in ends : k <= j
<1>1. i \in Inodes /\ cache.fat \in FatMap
  BY RamFields DEF Volume, FatMap, FatVal
<1>2. c \in Seq(Cluster) /\ (c = <<>> <=> i.start = TAIL)
  <2> HIDE DEF i
  <2>1. QED BY <1>1, ChainType DEF Inodes
<1>3. ChainOf(f) = IF ends = {} THEN c ELSE SubSeq(c, 1, n)
  BY DEF ChainOf
<1>4. CASE ends = {}
  BY <1>2, <1>3, <1>4
<1>5. CASE ends # {}
  <2> HIDE DEF c, i
  <2>1. ends \in SUBSET Nat
    BY <1>2
  <2>2. n \in ends
    <3> HIDE DEF ends
    <3>1. \E k \in ends : \A j \in ends : k <= j
      BY <1>5, <2>1, Smallest
    <3>2. QED BY <3>1
  <2> HIDE DEF n
  <2>3. n \in 1..Len(c) /\ c # <<>>
    BY <1>2, <2>2
  <2>4. SubSeq(c, 1, n) \in Seq(Cluster) /\ SubSeq(c, 1, n) # <<>>
    BY <1>2, <2>3
  <2>5. QED
    <3> HIDE DEF ends
    <3>1. ChainOf(f) = SubSeq(c, 1, n)
      BY <1>3, <1>5
    <3>2. QED BY <1>2, <2>3, <2>4, <3>1 DEF i
<1>6. QED BY <1>4, <1>5

\* Taking an element out of a list without repetition.
LEMMA ListRemove ==
  ASSUME NEW S, NEW q \in Seq(S), IsInjective(q), NEW k \in 1..Len(q)
  PROVE  /\ RemoveAt(q, k) \in Seq(S) /\ IsInjective(RemoveAt(q, k))
         /\ ToSet(RemoveAt(q, k)) = ToSet(q) \ {q[k]}
<1> DEFINE w == RemoveAt(q, k)
           L == Len(q)
<1>1. /\ w \in Seq(S) /\ Len(w) = L - 1
      /\ \A n \in 1..(L - 1) : w[n] = IF n < k THEN q[n] ELSE q[n + 1]
  <2> DEFINE p == SubSeq(q, 1, k - 1)
             z == SubSeq(q, k + 1, L)
  <2>1. p \in Seq(S) /\ Len(p) = k - 1 /\ \A n \in 1..(k - 1) : p[n] = q[n]
    OBVIOUS
  <2>2. z \in Seq(S) /\ Len(z) = L - k /\ \A n \in 1..(L - k) : z[n] = q[n + k]
    OBVIOUS
  <2>3. w = p \o z
    BY DEF RemoveAt
  <2> HIDE DEF p, z, w
  <2>4. w \in Seq(S) /\ Len(w) = L - 1
    BY <2>1, <2>2, <2>3
  <2>5. ASSUME NEW n \in 1..(L - 1) PROVE w[n] = IF n < k THEN q[n] ELSE q[n + 1]
    <3>1. CASE n < k
      <4>1. n \in 1..(k - 1)
        BY <3>1
      <4>2. QED BY <2>1, <2>2, <2>3, <3>1, <4>1
    <3>2. CASE ~(n < k)
      <4>1. n - (k - 1) \in 1..(L - k) /\ n - (k - 1) + k = n + 1
        BY <3>2
      <4>2. w[n] = z[n - (k - 1)]
        BY <2>1, <2>2, <2>3, <3>2
      <4>3. QED BY <2>2, <3>2, <4>1, <4>2
    <3>3. QED BY <3>1, <3>2
  <2>6. QED BY <2>4, <2>5
<1> HIDE DEF w
<1>2. DOMAIN q = 1..L /\ DOMAIN w = 1..(L - 1) /\ L \in Nat
  BY <1>1
<1>3. \A m, n \in 1..L : q[m] = q[n] => m = n
  BY <1>2 DEF IsInjective
<1>4. ASSUME NEW m \in 1..(L - 1), NEW n \in 1..(L - 1), w[m] = w[n] PROVE m = n
  <2>1. m \in 1..L /\ n \in 1..L /\ m + 1 \in 1..L /\ n + 1 \in 1..L
    BY <1>2
  <2>2. CASE m < k /\ n < k
    BY <1>1, <1>3, <1>4, <2>1, <2>2
  <2>3. CASE m < k /\ ~(n < k)
    BY <1>1, <1>3, <1>4, <2>1, <2>3
  <2>4. CASE ~(m < k) /\ n < k
    BY <1>1, <1>3, <1>4, <2>1, <2>4
  <2>5. CASE ~(m < k) /\ ~(n < k)
    <3>1. m + 1 = n + 1
      BY <1>1, <1>3, <1>4, <2>1, <2>5
    <3>2. QED BY <3>1
  <2>6. QED BY <2>2, <2>3, <2>4, <2>5
<1>5. IsInjective(w)
  BY <1>2, <1>4 DEF IsInjective
<1>6. ToSet(w) = ToSet(q) \ {q[k]}
  <2>1. ASSUME NEW x \in ToSet(w) PROVE x \in ToSet(q) /\ x # q[k]
    <3>1. PICK n \in 1..(L - 1) : w[n] = x
      BY <1>2, <2>1 DEF ToSet
    <3>2. n \in 1..L /\ n + 1 \in 1..L
      BY <1>2
    <3>3. CASE n < k
      <4>1. x = q[n]
        BY <1>1, <3>1, <3>3
      <4>2. QED BY <1>2, <1>3, <3>2, <3>3, <4>1 DEF ToSet
    <3>4. CASE ~(n < k)
      <4>1. x = q[n + 1] /\ n + 1 # k
        BY <1>1, <3>1, <3>4
      <4>2. QED BY <1>2, <1>3, <3>2, <4>1 DEF ToSet
    <3>5. QED BY <3>3, <3>4
  <2>2. ASSUME NEW x \in ToSet(q), x # q[k] PROVE x \in ToSet(w)
    <3>1. PICK n \in 1..L : q[n] = x
      BY <1>2, <2>2 DEF ToSet
    <3>2. CASE n < k
      <4>1. n \in 1..(L - 1) /\ w[n] = x
        BY <1>1, <1>2, <3>1, <3>2
      <4>2. QED BY <1>2, <4>1 DEF ToSet
    <3>3. CASE n > k
      <4>1. n - 1 \in 1..(L - 1) /\ ~(n - 1 < k) /\ n - 1 + 1 = n
        BY <1>2, <3>3
      <4>2. w[n - 1] = x
        BY <1>1, <3>1, <4>1
      <4>3. QED BY <1>2, <4>1, <4>2 DEF ToSet
    <3>4. n # k /\ n \in Nat /\ k \in Nat
      BY <2>2, <3>1
    <3>5. QED BY <3>2, <3>3, <3>4
  <2>3. QED BY <2>1, <2>2
<1>7. QED BY <1>1, <1>5, <1>6 DEF w

LEMMA SetInoSegs ==
  ASSUME NEW r \in RamShape, NEW x \in [File -> Inodes], NEW y
  PROVE  [[r EXCEPT !.ino = x] EXCEPT !.segs = y]
         = [ino |-> x, segs |-> y, writer |-> r.writer, pre |-> r.pre]
<1> DEFINE q == [r EXCEPT !.ino = x]
<1>1. q = [ino |-> x, segs |-> r.segs, writer |-> r.writer, pre |-> r.pre]
  BY SetFields
<1>2. q \in RamShape
  BY <1>1 DEF RamShape
<1>3. [q EXCEPT !.segs = y] = [ino |-> q.ino, segs |-> y, writer |-> q.writer, pre |-> q.pre]
  <2> HIDE DEF q
  <2>1. QED BY <1>2, SetFields
<1>4. q.ino = x /\ q.writer = r.writer /\ q.pre = r.pre
  <2> HIDE DEF q
  <2>1. QED BY <1>1
<1>5. QED BY <1>3, <1>4

\* The inode is released: its place in the candidate list, if it has one, too.
LEMMA GoneType ==
  ASSUME NEW r \in Rams, NEW f \in File, r.ino[f].st = "free",
         NEW segs, segs = IF r.ino[f].start = TAIL THEN r.segs
                          ELSE RemoveAt(r.segs, SegIndex(r, f)),
         NEW gone, gone = [ino |-> [r.ino EXCEPT ![f] = NoInode], segs |-> segs,
                           writer |-> r.writer, pre |-> r.pre]
  PROVE  gone \in Rams
<1> DEFINE new == [r.ino EXCEPT ![f] = NoInode]
           k == SegIndex(r, f)
<1>1. r.ino \in [File -> Inodes] /\ r.ino[f] \in Inodes /\ r.segs \in Seq(File) /\ IsInjective(r.segs)
      /\ ToSet(r.segs) = Hung(r.ino) /\ r.writer \in File \cup {None}
      /\ r.pre \in Seq(Cluster) /\ IsInjective(r.pre)
      /\ \A g \in File : InodeOK(r.ino[g])
  BY RamFields
<1>2. NoInode \in Inodes /\ InodeOK(NoInode) /\ NoInode.st = "none"
  BY DEF NoInode, Inodes, InodeOK
<1>3. new \in [File -> Inodes] /\ new[f] = NoInode /\ \A g \in File : g # f => new[g] = r.ino[g]
  BY <1>1, <1>2
<1> HIDE DEF new
<1>4. Hung(new) = Hung(r.ino) \ {f}
  BY <1>2, <1>3 DEF Hung
<1>5. segs \in Seq(File) /\ IsInjective(segs) /\ ToSet(segs) = Hung(new)
  <2>1. CASE r.ino[f].start = TAIL
    <3>1. f \notin Hung(r.ino)
      BY <2>1 DEF Hung
    <3>2. QED BY <1>1, <1>4, <2>1, <3>1
  <2>2. CASE r.ino[f].start # TAIL
    <3>1. k \in 1..Len(r.segs) /\ r.segs[k] = f
      BY <2>2, SegPlace
    <3> HIDE DEF k
    <3>2. segs = RemoveAt(r.segs, k)
      BY <2>2 DEF k
    <3>3. QED BY <1>1, <1>4, <3>1, <3>2, ListRemove
  <2>3. QED BY <2>1, <2>2
<1>6. \A g \in File : InodeOK(new[g])
  BY <1>1, <1>2, <1>3
<1>7. [ino |-> new, segs |-> segs, writer |-> r.writer, pre |-> r.pre] \in Rams
  BY <1>1, <1>3, <1>5, <1>6, RamIntro
<1>8. QED BY <1>7 DEF new

\* rfs_delete_inode
LEMMA DelInodePlan ==
  ASSUME NEW f \in File, AtRest(cache, ram), ram.ino[f].st = "free"
  PROVE  Planned(cache, ram, DelInodeSteps(f))
<1> DEFINE r == Released(ram)
           new == [ram.ino EXCEPT ![f] = NoInode]
           L == Leading(ram.ino, new)
           c == CommitDeferred(ram)
<1>1. /\ ram \in Rams /\ cache \in Volume /\ Distinct(ram.ino)
      /\ r \in Rams /\ r \in RamShape /\ r.ino = ram.ino
      /\ ram.ino \in [File -> Inodes]
  BY ReleasedType, RamFields DEF AtRest, Rams
<1>2. NoInode \in Inodes /\ NoInode.st = "none"
  BY DEF NoInode, Inodes
<1>3. new[f] = NoInode /\ new \in [File -> Inodes] /\ \A g \in File : g # f => new[g] = ram.ino[g]
  BY <1>1, <1>2
<1>4. \A g \in File : new[g].st = "alloc" => new[g] = ram.ino[g]
  <2> HIDE DEF new
  <2>1. QED BY <1>2, <1>3
<1>5. Distinct(new)
  <2> HIDE DEF new
  <2>1. QED BY <1>1, <1>4 DEF Distinct, Owns
<1>6. c \in Seq(L)
  BY <1>1, CommitCalm, CalmLeading
<1>7. ASSUME NEW b, NEW a
      PROVE  \A g \in File : new[g].st = "alloc" =>
               Stays(ram.ino, new, b, g) \/ Moves(ram.ino, new, a, g)
  <2> HIDE DEF new
  <2>1. QED BY <1>4 DEF Stays, Owns
<1>8. CASE r.ino[f].start = TAIL
  <2> DEFINE gone == [r EXCEPT !.ino[f] = NoInode]
             x == Ram(gone)
             t == DelInodeSteps(f)
  <2>1. gone = [ino |-> [r.ino EXCEPT ![f] = NoInode], segs |-> r.segs,
                writer |-> r.writer, pre |-> r.pre]
    <3> DEFINE n == [r.ino EXCEPT ![f] = NoInode]
    <3>1. gone = [r EXCEPT !.ino = n]
      OBVIOUS
    <3> HIDE DEF n, r, gone
    <3>2. gone = [ino |-> n, segs |-> r.segs, writer |-> r.writer, pre |-> r.pre]
      BY <1>1, <3>1, SetFields
    <3>3. QED BY <3>2 DEF n
  <2>2. gone \in Rams /\ gone.ino = new
    <3> HIDE DEF gone, r
    <3>1. gone.ino = new
      BY <1>1, <2>1
    <3>2. gone \in Rams
      BY <1>1, <1>8, <2>1, GoneType
    <3>3. QED BY <3>1, <3>2
  <2>3. x \in RamSteps(Rams) /\ new = x.ram.ino
    <3> HIDE DEF gone, new
    <3>1. QED BY <2>2, StepTypes DEF Ram
  <2>4. t = c \o <<x>>
    BY <1>8 DEF DelInodeSteps
  <2>5. t = c \o <<x>> \o <<>>
    <3>1. c \o <<x>> \in Seq(StepSet)
      <4>1. L \subseteq StepSet
        BY <1>1, LeadingSteps
      <4>2. x \in StepSet
        BY <2>3 DEF StepSet
      <4> HIDE DEF x, c, L
      <4>3. QED BY <1>6, <4>1, <4>2
    <3> HIDE DEF t, c, x
    <3>2. (c \o <<x>>) \o <<>> = c \o <<x>>
      BY <3>1, ConcatEmptySeq
    <3>3. QED BY <2>4, <3>2
  <2>6. <<>> \in Seq(Calm(new))
    OBVIOUS
  <2>7. \A g \in File : new[g].st = "alloc" => Stays(ram.ino, new, <<>>, g) \/ Moves(ram.ino, new, c, g)
    BY <1>7
  <2> HIDE DEF c, x, new, t
  <2>8. Planned(cache, ram, t)
    BY <1>5, <1>6, <2>3, <2>5, <2>6, <2>7, TurnsIntro
  <2>9. QED BY <2>8 DEF t
<1>9. CASE r.ino[f].start # TAIL
  <2> DEFINE k == SegIndex(r, f)
             d == [trunc |-> FALSE, slot |-> None, newlast |-> TAIL,
                   prev |-> SegLast(r, k - 1), succ |-> SegNext(r, k)]
             q == [r EXCEPT !.ino = new]
             gone == [r EXCEPT !.ino[f] = NoInode, !.segs = RemoveAt(@, k)]
             chain == FreeChain(d, ChainOf(f))
             w == <<Fat(d.prev, d.succ)>>
             z == <<Flush>>
             x == Mark(Released(gone))
             a == c \o chain \o w \o z
             t == DelInodeSteps(f)
  <2>1. k \in 1..Len(r.segs) /\ r.segs[k] = f
    BY <1>1, <1>9, SegPlace
  <2>2. d \in Places /\ d.prev \in FatIndex /\ d.succ \in Cluster \cup {TAIL}
    <3>1. Listed(r)
      BY <1>1, RamsListed
    <3>2. Len(r.segs) \in Nat
      BY <3>1, SegTypes
    <3>3. k - 1 \in 0..Len(r.segs) /\ k \in 0..Len(r.segs)
      <4> HIDE DEF k, r
      <4>1. QED BY <2>1, <3>2
    <3>4. SegLast(r, k - 1) \in FatIndex /\ SegNext(r, k) \in Cluster \cup {TAIL}
      BY <3>1, <3>3, SegTypes
    <3> HIDE DEF k, r
    <3>5. QED BY <3>4 DEF Places
  <2>3. gone = [ino |-> [r.ino EXCEPT ![f] = NoInode], segs |-> RemoveAt(r.segs, k),
                writer |-> r.writer, pre |-> r.pre]
    <3> DEFINE y == RemoveAt(r.segs, k)
    <3>1. gone = [q EXCEPT !.segs = y]
      BY <1>1
    <3>2. [q EXCEPT !.segs = y] = [ino |-> new, segs |-> y, writer |-> r.writer, pre |-> r.pre]
      <4> HIDE DEF new, y, r
      <4>1. QED BY <1>1, <1>3, SetInoSegs
    <3> HIDE DEF gone, q, y, r
    <3>3. gone = [ino |-> new, segs |-> y, writer |-> r.writer, pre |-> r.pre]
      BY <3>1, <3>2
    <3>4. QED BY <1>1, <3>3 DEF y
  <2>4. gone \in Rams /\ gone.ino = new
    <3> HIDE DEF gone, r
    <3>1. gone.ino = new
      BY <1>1, <2>3
    <3>2. gone \in Rams
      BY <1>1, <1>9, <2>3, GoneType DEF k
    <3>3. QED BY <3>1, <3>2
  <2>5. x \in RamSteps(Rams) /\ new = x.ram.ino
    <3> HIDE DEF gone, new
    <3>1. Released(gone) \in Rams /\ Released(gone).ino = new
      BY <2>4, ReleasedType
    <3>2. QED BY <3>1, StepTypes DEF Mark
  <2>6. chain \in Seq(L) /\ w \in Seq(L) /\ z \in Seq(L)
    <3>1. chain \in Seq(DataSteps)
      <4>1. ChainOf(f) \in Seq(Cluster)
        BY <1>1, ChainOfType
      <4> HIDE DEF d
      <4>2. QED BY <2>2, <4>1, FreeChainType
    <3>2. w \in Seq(DataSteps)
      <4> HIDE DEF d
      <4>1. Fat(d.prev, d.succ) \in DataSteps
        BY <2>2, StepTypes DEF DataSteps, FatVal
      <4>2. QED BY <4>1, OneType
    <3>3. z \in Seq(DataSteps)
      BY StepTypes, OneType DEF DataSteps
    <3> HIDE DEF chain, w, z
    <3>4. QED BY <1>1, <3>1, <3>2, <3>3, DataLeading
  <2>7. a \in Seq(L)
    <3> HIDE DEF c, chain, w, z, L
    <3>1. QED BY <1>6, <2>6
  <2>8. t = a \o <<x>> \o <<>>
    <3>1. LogEnd(gone, None) = z \o <<x>>
      <4>1. MetaCommit(gone, None) = <<>> \o <<Flush>>
        BY DEF MetaCommit, If
      <4>2. MetaCommit(gone, None) = <<Flush>>
        BY <4>1
      <4>3. QED BY <4>2 DEF LogEnd
    <3>2. t = c \o chain \o w \o (z \o <<x>>)
      BY <1>9, <3>1 DEF DelInodeSteps
    <3> DEFINE p == c \o chain \o w
    <3>3. p \in Seq(StepSet) /\ z \in Seq(StepSet) /\ <<x>> \in Seq(StepSet)
      <4>1. p \in Seq(L)
        <5> HIDE DEF c, chain, w, L
        <5>1. QED BY <1>6, <2>6
      <4>2. L \subseteq StepSet
        BY <1>1, LeadingSteps
      <4>3. x \in StepSet
        BY <2>5 DEF StepSet
      <4> HIDE DEF p, z, x, L
      <4>4. QED BY <2>6, <4>1, <4>2, <4>3
    <3>4. a = p \o z
      OBVIOUS
    <3> HIDE DEF p, z, x, t, a
    <3>5. (p \o z) \o <<x>> = p \o (z \o <<x>>)
      BY <3>3, Associate
    <3>6. ((p \o z) \o <<x>>) \o <<>> = (p \o z) \o <<x>>
      BY <3>3, ConcatEmptySeq
    <3>7. t = p \o (z \o <<x>>)
      BY <3>2 DEF p
    <3>8. QED BY <3>4, <3>5, <3>6, <3>7
  <2>9. <<>> \in Seq(Calm(new))
    OBVIOUS
  <2>10. \A g \in File : new[g].st = "alloc" => Stays(ram.ino, new, <<>>, g) \/ Moves(ram.ino, new, a, g)
    BY <1>7
  <2> HIDE DEF a, x, new, t
  <2>11. Planned(cache, ram, t)
    BY <1>5, <2>5, <2>7, <2>8, <2>9, <2>10, TurnsIntro
  <2>12. QED BY <2>11 DEF t
<1>10. QED BY <1>8, <1>9

-----------------------------------------------------------------------------
(***************************************************************************)
(* What a step does to the entries.                                        *)
(***************************************************************************)
LEMMA ApplyEntries ==
  ASSUME NEW v \in Volume, NEW s
  PROVE  /\ s \in DataSteps \cup RamSteps(Rams) =>
              Apply(v, s).start = v.start /\ Apply(v, s).live = v.live
         /\ s \in StartSteps =>
              /\ Apply(v, s).start = [v.start EXCEPT ![s.at] = s.val]
              /\ Apply(v, s).live = v.live
         /\ s \in LiveSteps =>
              /\ Apply(v, s).live = [v.live EXCEPT ![s.at] = s.val]
              /\ Apply(v, s).start = v.start
<1>1. ASSUME s \in FatSteps
      PROVE  Apply(v, s).start = v.start /\ Apply(v, s).live = v.live
  <2>1. s.op = "fat"
    BY <1>1 DEF FatSteps
  <2>2. Apply(v, s) = [v EXCEPT !.fat[s.at] = s.val]
    BY <2>1 DEF Apply
  <2>3. QED BY <2>2 DEF Volume
<1>2. ASSUME s \in LogSteps \cup FlushSteps \cup RamSteps(Rams)
      PROVE  Apply(v, s).start = v.start /\ Apply(v, s).live = v.live
  <2>1. s.op \in {"log", "flush", "ram", "mark"}
    BY <1>2 DEF LogSteps, FlushSteps, RamSteps
  <2>2. Apply(v, s) = v
    BY <2>1 DEF Apply
  <2>3. QED BY <2>2
<1>3. ASSUME s \in StartSteps
      PROVE  /\ Apply(v, s).start = [v.start EXCEPT ![s.at] = s.val]
             /\ Apply(v, s).live = v.live
  <2>1. s.op = "start"
    BY <1>3 DEF StartSteps
  <2>2. Apply(v, s) = [v EXCEPT !.start[s.at] = s.val]
    BY <2>1 DEF Apply
  <2>3. QED BY <2>2 DEF Volume
<1>4. ASSUME s \in LiveSteps
      PROVE  /\ Apply(v, s).live = [v.live EXCEPT ![s.at] = s.val]
             /\ Apply(v, s).start = v.start
  <2>1. s.op = "live"
    BY <1>4 DEF LiveSteps
  <2>2. Apply(v, s) = [v EXCEPT !.live[s.at] = s.val]
    BY <2>1 DEF Apply
  <2>3. QED BY <2>2 DEF Volume
<1>5. QED BY <1>1, <1>2, <1>3, <1>4 DEF DataSteps

\* A calm step leaves no other cluster than its own in the entry of an inode.
LEMMA CalmKeeps ==
  ASSUME NEW v \in Volume, NEW r \in Rams, Distinct(r.ino), NEW s \in Calm(r.ino)
  PROVE  /\ Apply(v, s).live = v.live
         /\ \A f \in File, u \in Slot : Owns(r.ino, f, u) =>
              Apply(v, s).start[u] \in {v.start[u], r.ino[f].start}
         /\ s \notin StartSteps => Apply(v, s).start = v.start
         /\ s \in StartSteps => \E f \in File : Owns(r.ino, f, s.at) /\ s.val = r.ino[f].start
<1>1. CASE s \in DataSteps \cup RamSteps(Rams)
  <2>1. Apply(v, s).start = v.start /\ Apply(v, s).live = v.live
    BY <1>1, ApplyEntries
  <2>2. s \notin StartSteps
    BY <1>1 DEF StartSteps, DataSteps, FatSteps, LogSteps, FlushSteps, RamSteps
  <2>3. QED BY <2>1, <2>2
<1>2. CASE s \in StartSteps /\ \E f \in File : Owns(r.ino, f, s.at) /\ s.val = r.ino[f].start
  <2>1. Apply(v, s).start = [v.start EXCEPT ![s.at] = s.val] /\ Apply(v, s).live = v.live
    BY <1>2, ApplyEntries
  <2>2. PICK h \in File : Owns(r.ino, h, s.at) /\ s.val = r.ino[h].start
    BY <1>2
  <2>3. s.at \in Slot /\ v.start \in [Slot -> Cluster \cup {TAIL}]
    BY <1>2 DEF StartSteps, Volume
  <2>4. ASSUME NEW f \in File, NEW u \in Slot, Owns(r.ino, f, u)
        PROVE  Apply(v, s).start[u] \in {v.start[u], r.ino[f].start}
    <3>1. CASE u = s.at
      <4>1. f = h
        BY <2>2, <2>4, <3>1 DEF Distinct
      <4>2. QED BY <2>1, <2>2, <2>3, <3>1, <4>1
    <3>2. CASE u # s.at
      BY <2>1, <2>3, <3>2
    <3>3. QED BY <3>1, <3>2
  <2>5. QED BY <1>2, <2>1, <2>2, <2>4
<1>3. RamSteps({q \in Rams : q.ino = r.ino}) \subseteq RamSteps(Rams)
  BY DEF RamSteps
<1>4. QED BY <1>1, <1>2, <1>3 DEF Calm

LEMMA CalmRun ==
  ASSUME NEW v \in Volume, NEW r \in Rams, Distinct(r.ino), NEW t \in Seq(Calm(r.ino)),
         NEW f \in File, NEW u \in Slot, Owns(r.ino, f, u), v.start[u] \in {TAIL, r.ino[f].start}
  PROVE  ApplyAll(v, t).start[u] \in {TAIL, r.ino[f].start}
<1>1. t \in Seq(StepSet) /\ Len(t) \in Nat
  BY CalmSteps, SeqMonotonic
<1>2. PICK w \in Volumes(t) : Passes(w, v, t) /\ ApplyAll(v, t) = w[Len(t)]
  BY <1>1, ApplySteps
<1> DEFINE S == {n \in 0..Len(t) : w[n].start[u] \in {TAIL, r.ino[f].start}}
<1>3. w \in [0..Len(t) -> Volume] /\ w[0] = v /\ \A n \in 1..Len(t) : w[n] = Apply(w[n - 1], t[n])
  BY <1>2 DEF Volumes, Passes
<1>4. 0 \in S
  BY <1>1, <1>3
<1>5. ASSUME NEW n \in 1..Len(t), n - 1 \in S PROVE n \in S
  <2>1. n - 1 \in 0..Len(t) /\ n \in 0..Len(t)
    BY <1>1
  <2>2. w[n - 1] \in Volume /\ w[n - 1].start[u] \in {TAIL, r.ino[f].start} /\ t[n] \in Calm(r.ino)
    BY <1>3, <1>5, <2>1
  <2>3. w[n].start[u] \in {w[n - 1].start[u], r.ino[f].start}
    <3> DEFINE p == w[n - 1]
               s == t[n]
    <3> HIDE DEF p, s
    <3>1. p \in Volume /\ s \in Calm(r.ino)
      BY <2>2 DEF p, s
    <3>2. Apply(p, s).start[u] \in {p.start[u], r.ino[f].start}
      BY <3>1, CalmKeeps
    <3>3. w[n] = Apply(p, s)
      BY <1>3 DEF p, s
    <3>4. QED BY <3>2, <3>3 DEF p
  <2>4. QED BY <2>1, <2>2, <2>3
<1>6. \A n \in 0..Len(t) : n \in S
  <2> HIDE DEF S
  <2>1. QED BY <1>1, <1>4, <1>5, Reaches
<1>7. Len(t) \in 0..Len(t)
  BY <1>1
<1>8. QED BY <1>2, <1>6, <1>7

LEMMA Five ==
  ASSUME NEW S, NEW p \in S, NEW q \in S, NEW x \in S, NEW y \in S, NEW z \in S
  PROVE  /\ <<p, q, x, y, z>> \in Seq(S) /\ Len(<<p, q, x, y, z>>) = 5
         /\ <<p, q, x, y, z>>[2] = q /\ <<p, q, x, y, z>>[3] = x
OBVIOUS

\* The inode of f, and the in-core state, once it has moved to entry s.
MovedInode(r, f, s) == [r.ino[f] EXCEPT !.slot = s]
MovedRam(r, f, s) == [r EXCEPT !.ino[f].slot = s]

LEMMA MovedType ==
  ASSUME NEW r \in Rams, NEW f \in File, r.ino[f].st = "alloc", NEW s \in Slot
  PROVE  /\ MovedRam(r, f, s) \in Rams
         /\ MovedRam(r, f, s).ino = [r.ino EXCEPT ![f] = MovedInode(r, f, s)]
         /\ MovedInode(r, f, s) \in Inodes /\ MovedInode(r, f, s).st = "alloc"
         /\ MovedInode(r, f, s).slot = s /\ MovedInode(r, f, s).start = r.ino[f].start
<1> DEFINE i == MovedInode(r, f, s)
           moved == MovedRam(r, f, s)
           new == [r.ino EXCEPT ![f] = i]
<1>1. r.ino \in [File -> Inodes] /\ r.ino[f] \in Inodes /\ r.segs \in Seq(File) /\ IsInjective(r.segs)
      /\ ToSet(r.segs) = Hung(r.ino) /\ r.writer \in File \cup {None}
      /\ r.pre \in Seq(Cluster) /\ IsInjective(r.pre) /\ r \in RamShape
      /\ \A g \in File : InodeOK(r.ino[g])
  BY RamFields DEF Rams
<1>2. i \in Inodes /\ i.st = "alloc" /\ i.slot = s /\ i.start = r.ino[f].start /\ InodeOK(i)
  BY <1>1 DEF Inodes, InodeOK, MovedInode
<1> HIDE DEF i
<1>3. new \in [File -> Inodes] /\ new[f] = i /\ \A g \in File : g # f => new[g] = r.ino[g]
  BY <1>1, <1>2
<1>4. moved = [r EXCEPT !.ino = new]
  BY DEF MovedRam, MovedInode, i
<1> HIDE DEF new, moved
<1>5. moved = [ino |-> new, segs |-> r.segs, writer |-> r.writer, pre |-> r.pre]
  BY <1>1, <1>4, SetFields
<1>6. Hung(new) = Hung(r.ino)
  BY <1>2, <1>3 DEF Hung
<1>7. \A g \in File : InodeOK(new[g])
  BY <1>1, <1>2, <1>3
<1>8. [ino |-> new, segs |-> r.segs, writer |-> r.writer, pre |-> r.pre] \in Rams
  BY <1>1, <1>3, <1>6, <1>7, RamIntro
<1>9. moved.ino = new
  BY <1>5
<1>10. moved \in Rams /\ moved.ino = [r.ino EXCEPT ![f] = i]
  BY <1>5, <1>8, <1>9 DEF new
<1>11. QED BY <1>2, <1>10 DEF i, moved

\* rfs_rename: the inode of f moves to entry s, after the inode of g has left
\* its own.
LEMMA RenamePlan ==
  ASSUME NEW f \in File, NEW s \in Slot, NEW g \in File \cup {None},
         AtRest(cache, ram), ram.ino[f].st = "alloc", ~cache.live[s],
         g # None => g # f /\ ram.ino[g].st = "alloc"
  PROVE  Planned(cache, ram, RenameSteps(f, s, g))
<1> DEFINE r == Released(ram)
           u == r.ino[f].slot
           over == IF g = None THEN r ELSE Deleted(r, g)
           moved == [over EXCEPT !.ino[f].slot = s]
           new == moved.ino
           c == CommitDeferred(ram)
           entry == ApplyAll(cache, c).start[u]
           five == <<Rec(BuildRec(s)), Start(s, entry), Live(s, TRUE),
                     Rec(RemoveRec(u)), Live(u, FALSE)>>
           b == LogEnd(moved, None)
           x == Ram(moved)
           t == RenameSteps(f, s, g)
           L == Leading(ram.ino, new)
           i == [over.ino[f] EXCEPT !.slot = s]
<1>1. /\ ram \in Rams /\ cache \in Volume /\ Distinct(ram.ino)
      /\ r \in Rams /\ r.ino = ram.ino
      /\ ram.ino \in [File -> Inodes]
  BY ReleasedType, RamFields DEF AtRest
<1>2. u \in Slot /\ Owns(ram.ino, f, u) /\ r.ino[f].st = "alloc"
  <2> HIDE DEF r
  <2>1. QED BY <1>1, RamFields DEF InodeOK, Owns
<1>3. Free(ram.ino, s)
  BY DEF AtRest, Free
<1>4. g # None => /\ g \in File /\ r.ino[g].st = "alloc" /\ r.ino[g].slot \in Slot
                  /\ Owns(ram.ino, g, r.ino[g].slot)
                  /\ Deleted(r, g) \in Rams
                  /\ Deleted(r, g).ino = [r.ino EXCEPT ![g] = [r.ino[g] EXCEPT !.st = "free"]]
  <2> HIDE DEF r
  <2>1. QED BY <1>1, RamFields, DeletedType DEF InodeOK, Owns
<1>5. /\ over \in Rams /\ over.ino[f] = ram.ino[f]
      /\ \A h \in File : h # g => over.ino[h] = ram.ino[h]
      /\ g # None => over.ino[g].st = "free"
  <2> HIDE DEF r
  <2>1. CASE g = None
    <3>1. over = r
      BY <2>1
    <3> HIDE DEF over
    <3>2. QED BY <1>1, <2>1, <3>1, ConstantFacts
  <2>2. CASE g # None
    <3>1. over = Deleted(r, g)
      BY <2>2
    <3> HIDE DEF over
    <3>2. over.ino = [ram.ino EXCEPT ![g] = [ram.ino[g] EXCEPT !.st = "free"]]
      BY <1>1, <1>4, <2>2, <3>1
    <3>3. over.ino[g].st = "free" /\ \A h \in File : h # g => over.ino[h] = ram.ino[h]
      BY <1>1, <1>4, <2>2, <3>2 DEF Inodes
    <3>4. QED BY <1>4, <2>2, <3>1, <3>3
  <2> HIDE DEF over
  <2>3. QED BY <2>1, <2>2
<1>6. /\ moved \in Rams /\ new = [over.ino EXCEPT ![f] = i]
      /\ i.st = "alloc" /\ i.slot = s /\ i.start = ram.ino[f].start /\ over.ino \in [File -> Inodes]
  <2>1. over.ino[f].st = "alloc"
    <3> HIDE DEF over
    <3>1. QED BY <1>5
  <2> HIDE DEF over
  <2>2. moved \in Rams /\ new = [over.ino EXCEPT ![f] = i]
        /\ i.st = "alloc" /\ i.slot = s /\ i.start = over.ino[f].start
    <3>1. i = MovedInode(over, f, s) /\ moved = MovedRam(over, f, s)
      BY DEF MovedInode, MovedRam
    <3> HIDE DEF i, moved
    <3>2. QED BY <1>5, <2>1, <3>1, MovedType
  <2>3. QED BY <1>5, <2>2, RamFields
<1>7. /\ new[f] = i
      /\ \A h \in File : h # f /\ h # g => new[h] = ram.ino[h]
      /\ g # None => new[g].st = "free"
  <2> HIDE DEF over, i, new
  <2>1. QED BY <1>4, <1>5, <1>6
<1> DEFINE del == Deleted(r, g)
<1> HIDE DEF i, over, moved, new
<1>8. \A h \in File : new[h].st = "alloc" => h = f \/ (h # f /\ h # g /\ new[h] = ram.ino[h])
  BY <1>4, <1>7, ConstantFacts
<1>9. \A h \in File : Owns(new, h, s) => h = f
  BY <1>3, <1>8 DEF Owns, Free
<1>10. u # s /\ (g # None => r.ino[g].slot # s)
  BY <1>2, <1>3, <1>4 DEF Free
<1>11. Free(new, u) /\ (g # None => Free(new, r.ino[g].slot))
  <2>1. ASSUME NEW h \in File, NEW w \in Slot, NEW e \in File, Owns(ram.ino, e, w), w # s,
               e = f \/ e = g, Owns(new, h, w)
        PROVE  FALSE
    <3>1. h # f
      BY <1>6, <1>7, <2>1 DEF Owns
    <3>2. h # g /\ Owns(ram.ino, h, w)
      BY <1>8, <2>1, <3>1 DEF Owns
    <3>3. h = e
      BY <1>1, <2>1, <3>2 DEF Distinct
    <3>4. QED BY <2>1, <3>1, <3>2, <3>3
  <2>2. Free(new, u)
    BY <1>2, <1>10, <2>1 DEF Free
  <2>3. ASSUME g # None PROVE Free(new, r.ino[g].slot)
    BY <1>4, <1>10, <2>1, <2>3 DEF Free
  <2>4. QED BY <2>2, <2>3
<1>12. entry \in {TAIL, ram.ino[f].start}
  <2>1. cache.start[u] \in {TAIL, ram.ino[f].start}
    BY <1>2 DEF AtRest
  <2> HIDE DEF u
  <2>2. QED BY <1>1, <1>2, <2>1, CommitCalm, CalmRun
<1> HIDE DEF entry
<1>13. c \in Seq(L)
  BY <1>1, CommitCalm, CalmLeading
<1>14. Start(s, entry) \in L /\ Live(s, TRUE) \in L /\ Live(u, FALSE) \in L
       /\ Rec(BuildRec(s)) \in L /\ Rec(RemoveRec(u)) \in L
  <2>1. Start(s, entry) \in L
    <3> DEFINE y == Start(s, entry)
    <3>1. entry \in Cluster \cup {TAIL}
      <4>1. ram.ino[f].start \in Cluster \cup {TAIL}
        BY <1>1 DEF Inodes
      <4>2. QED BY <1>12, <4>1
    <3>2. y \in StartSteps /\ y.at = s /\ y.val = entry
      BY <3>1, StepTypes DEF Start
    <3> HIDE DEF y
    <3>3. \A h \in File : Owns(new, h, y.at) => y.val \in {TAIL, new[h].start}
      BY <1>6, <1>7, <1>9, <1>12, <3>2
    <3>4. y \in L
      BY <1>3, <3>2, <3>3 DEF Leading
    <3>5. QED BY <3>4 DEF y
  <2>2. Live(s, TRUE) \in L
    BY LiveLeading
  <2>3. Live(u, FALSE) \in L
    BY <1>2, <1>11, LiveLeading
  <2>4. Rec(BuildRec(s)) \in L /\ Rec(RemoveRec(u)) \in L
    BY <1>1, <1>2, EntryRecLeading
  <2>5. QED BY <2>1, <2>2, <2>3, <2>4
<1>15. /\ five \in Seq(L) /\ Len(five) = 5
       /\ five[2] = Start(s, entry) /\ five[3] = Live(s, TRUE)
  <2> DEFINE y1 == Rec(BuildRec(s))
             y2 == Start(s, entry)
             y3 == Live(s, TRUE)
             y4 == Rec(RemoveRec(u))
             y5 == Live(u, FALSE)
  <2> HIDE DEF y1, y2, y3, y4, y5, L
  <2>1. five = <<y1, y2, y3, y4, y5>>
    BY DEF y1, y2, y3, y4, y5
  <2>2. y1 \in L /\ y2 \in L /\ y3 \in L /\ y4 \in L /\ y5 \in L
    BY <1>14 DEF y1, y2, y3, y4, y5
  <2>3. /\ <<y1, y2, y3, y4, y5>> \in Seq(L) /\ Len(<<y1, y2, y3, y4, y5>>) = 5
        /\ <<y1, y2, y3, y4, y5>>[2] = y2 /\ <<y1, y2, y3, y4, y5>>[3] = y3
    BY <2>2, Five
  <2> HIDE DEF five
  <2>4. five \in Seq(L) /\ Len(five) = 5 /\ five[2] = y2 /\ five[3] = y3
    BY <2>1, <2>3
  <2>5. QED BY <2>4 DEF y2, y3
<1>16. Mentions(five, "start", s) /\ Mentions(five, "live", s)
  <2>1. Start(s, entry).op = "start" /\ Start(s, entry).at = s
        /\ Live(s, TRUE).op = "live" /\ Live(s, TRUE).at = s
    BY DEF Start, Live
  <2>2. 2 \in 1..Len(five) /\ 3 \in 1..Len(five)
    BY <1>15
  <2> HIDE DEF five
  <2>3. QED BY <1>15, <2>1, <2>2 DEF Mentions
<1>17. x \in RamSteps(Rams) /\ new = x.ram.ino
  <2>1. x \in RamSteps(Rams) /\ x.ram = moved
    BY <1>6, StepTypes DEF Ram
  <2>2. QED BY <2>1 DEF new
<1>18. b \in Seq(Calm(new))
  BY <1>6, LogEndCalm DEF new
<1>19. Distinct(new)
  <2>1. ASSUME NEW h \in File, NEW e \in File, NEW w \in Slot, Owns(new, h, w), Owns(new, e, w)
        PROVE  h = e
    <3>1. CASE w = s
      BY <1>9, <2>1, <3>1
    <3>2. CASE w # s
      <4>1. h # f /\ e # f
        BY <1>6, <1>7, <2>1, <3>2 DEF Owns
      <4>2. Owns(ram.ino, h, w) /\ Owns(ram.ino, e, w)
        BY <1>8, <2>1, <4>1 DEF Owns
      <4>3. QED BY <1>1, <4>2 DEF Distinct
    <3>3. QED BY <3>1, <3>2
  <2>2. QED BY <2>1 DEF Distinct
<1>20. ASSUME NEW a \in Seq(L), Mentions(a, "start", s), Mentions(a, "live", s)
       PROVE  \A h \in File : new[h].st = "alloc" =>
                Stays(ram.ino, new, b, h) \/ Moves(ram.ino, new, a, h)
  <2>1. ASSUME NEW h \in File, new[h].st = "alloc"
        PROVE  Stays(ram.ino, new, b, h) \/ Moves(ram.ino, new, a, h)
    <3>1. CASE h = f
      <4>1. new[h].slot = s
        BY <1>6, <1>7, <3>1
      <4>2. QED BY <1>3, <1>20, <4>1 DEF Moves
    <3>2. CASE h # f
      <4>1. new[h] = ram.ino[h]
        BY <1>8, <2>1, <3>2
      <4> HIDE DEF b
      <4>2. QED BY <2>1, <4>1 DEF Stays, Owns
    <3>3. QED BY <3>1, <3>2
  <2>2. QED BY <2>1
<1>21. x \in StepSet /\ L \subseteq StepSet
  BY <1>1, <1>17, LeadingSteps DEF StepSet
<1>22. CASE g = None
  <2> DEFINE a == c \o five
  <2>1. a \in Seq(L)
    <3> HIDE DEF c, five, L
    <3>1. QED BY <1>13, <1>15
  <2>2. Mentions(a, "start", s) /\ Mentions(a, "live", s)
    <3> HIDE DEF c, five, L
    <3>1. QED BY <1>13, <1>15, <1>16, MentionsConcat
  <2>3. t = a \o <<x>> \o b
    <3>1. t = c \o five \o <<>> \o <<x>> \o b
      BY <1>22 DEF RenameSteps, If, new, moved, over, entry
    <3>2. a \o <<>> = a
      <4> HIDE DEF a
      <4>1. QED BY <2>1
    <3> HIDE DEF c, five, t, x, b
    <3>3. QED BY <3>1, <3>2
  <2>4. \A h \in File : new[h].st = "alloc" => Stays(ram.ino, new, b, h) \/ Moves(ram.ino, new, a, h)
    <3> HIDE DEF a, b, L
    <3>1. QED BY <1>20, <2>1, <2>2
  <2> HIDE DEF a, b, x, t
  <2>5. Planned(cache, ram, t)
    BY <1>17, <1>18, <1>19, <2>1, <2>3, <2>4, TurnsIntro
  <2>6. QED BY <2>5 DEF t
<1>23. CASE g # None
  <2> DEFINE k == Unhook(r, g)
             y == Ram(del)
             m == <<y>>
             a == c \o five \o k
  <2>1. k \in Seq(L) /\ DeleteEntry(r, g) = k \o m
    <3> HIDE DEF r
    <3>1. QED BY <1>1, <1>4, <1>11, <1>23, UnhookLeading
  <2>2. a \in Seq(L)
    <3> HIDE DEF c, five, L, k
    <3>1. QED BY <1>13, <1>15, <2>1
  <2>3. Mentions(a, "start", s) /\ Mentions(a, "live", s)
    <3> HIDE DEF c, five, L, k
    <3>1. Mentions(c \o five, "start", s) /\ Mentions(c \o five, "live", s) /\ c \o five \in Seq(L)
      BY <1>13, <1>15, <1>16, MentionsConcat
    <3>2. QED BY <2>1, <3>1, MentionsConcat
  <2>4. y \in RamSteps(Rams) /\ y.ram = del
    <3>1. del \in Rams
      BY <1>4, <1>23
    <3> HIDE DEF del
    <3>2. QED BY <3>1, StepTypes DEF Ram
  <2>5. m \in Seq(RamSteps(Rams)) /\ m # <<>> /\ Len(m) = 1 /\ m[1] = y
    <3> HIDE DEF y
    <3>1. QED BY <2>4
  <2>6. Sheds(ram.ino, del.ino, new)
    <3>1. del.ino = [ram.ino EXCEPT ![g] = [ram.ino[g] EXCEPT !.st = "free"]]
      BY <1>1, <1>4, <1>23
    <3>2. del.ino[g].st = "free" /\ \A h \in File : h # g => del.ino[h] = ram.ino[h]
      <4> HIDE DEF del, r
      <4>1. QED BY <1>1, <1>4, <1>23, <3>1 DEF Inodes
    <3> HIDE DEF del
    <3>3. QED BY <1>1, <1>11, <1>23, <3>2 DEF Sheds
  <2>7. t = a \o m \o <<x>> \o b
    <3>1. t = c \o five \o (k \o m) \o <<x>> \o b
      BY <1>23, <2>1 DEF RenameSteps, If, new, moved, over, entry
    <3> DEFINE p == c \o five
    <3>2. p \in Seq(StepSet) /\ k \in Seq(StepSet) /\ m \in Seq(StepSet)
      <4>1. p \in Seq(L)
        <5> HIDE DEF c, five, L
        <5>1. QED BY <1>13, <1>15
      <4>2. RamSteps(Rams) \subseteq StepSet
        BY DEF StepSet
      <4> HIDE DEF p, k, m, L
      <4>3. QED BY <1>21, <2>1, <2>5, <4>1, <4>2, SeqMonotonic
    <3>3. (p \o k) \o m = p \o (k \o m)
      <4> HIDE DEF p, k, m
      <4>1. QED BY <3>2, Associate
    <3>4. a = p \o k /\ t = p \o (k \o m) \o <<x>> \o b
      <4>1. a = p \o k
        OBVIOUS
      <4> HIDE DEF k, m, x, b, t, c, five
      <4>2. QED BY <3>1, <4>1 DEF p
    <3> HIDE DEF a, p, k, m, x, b, t
    <3>5. QED BY <3>3, <3>4
  <2>8. \A h \in File : new[h].st = "alloc" => Stays(ram.ino, new, b, h) \/ Moves(ram.ino, new, a, h)
    <3> HIDE DEF a, b, L
    <3>1. QED BY <1>20, <2>2, <2>3
  <2>9. m # <<>> => Len(m) = 1 /\ Sheds(ram.ino, m[1].ram.ino, new)
    <3> HIDE DEF y, m, del
    <3>1. QED BY <2>4, <2>5, <2>6
  <2> HIDE DEF a, b, x, t, m
  <2>10. Planned(cache, ram, t)
    BY <1>17, <1>18, <1>19, <2>2, <2>5, <2>7, <2>8, <2>9, TurnsWith
  <2>11. QED BY <2>10 DEF t
<1>24. QED BY <1>22, <1>23

-----------------------------------------------------------------------------
(***************************************************************************)
(* A cluster is appended to a chain.                                       *)
(***************************************************************************)
GrownInode(r, f, c) ==
  [[r.ino[f] EXCEPT !.last = c] EXCEPT !.start = IF r.ino[f].start = TAIL THEN c ELSE r.ino[f].start]
GrownSegs(r, f) ==
  IF r.ino[f].st = "free" /\ r.ino[f].start = TAIL THEN Append(r.segs, f) ELSE r.segs
Grown(r, f, p) ==
  [ino |-> [r.ino EXCEPT ![f] = GrownInode(r, f, Head(p))], segs |-> GrownSegs(r, f),
   writer |-> r.writer, pre |-> Tail(p)]

\* Giving the fields of a record other values.
LEMMA RamExcept ==
  ASSUME NEW a, NEW b, NEW c, NEW d, NEW v
  PROVE  /\ [[ino |-> a, segs |-> b, writer |-> c, pre |-> d] EXCEPT !.ino = v]
            = [ino |-> v, segs |-> b, writer |-> c, pre |-> d]
         /\ [[ino |-> a, segs |-> b, writer |-> c, pre |-> d] EXCEPT !.segs = v]
            = [ino |-> a, segs |-> v, writer |-> c, pre |-> d]
OBVIOUS

LEMMA InodeExcept ==
  ASSUME NEW a, NEW b, NEW c, NEW d, NEW v
  PROVE  /\ [[st |-> a, slot |-> b, start |-> c, last |-> d] EXCEPT !.last = v]
            = [st |-> a, slot |-> b, start |-> c, last |-> v]
         /\ [[st |-> a, slot |-> b, start |-> c, last |-> d] EXCEPT !.start = v]
            = [st |-> a, slot |-> b, start |-> v, last |-> d]
OBVIOUS

\* A list loses its head and stays without repetition.
LEMMA ListTail ==
  ASSUME NEW S, NEW p \in Seq(S), p # <<>>, IsInjective(p)
  PROVE  Head(p) \in S /\ Tail(p) \in Seq(S) /\ IsInjective(Tail(p))
<1> DEFINE w == Tail(p)
<1>1. /\ Head(p) \in S /\ w \in Seq(S) /\ Len(w) = Len(p) - 1 /\ Len(p) \in Nat
      /\ \A n \in 1..(Len(p) - 1) : w[n] = p[n + 1]
      /\ DOMAIN p = 1..Len(p)
  OBVIOUS
<1> HIDE DEF w
<1>2. DOMAIN w = 1..(Len(p) - 1)
  BY <1>1
<1>3. ASSUME NEW m \in 1..(Len(p) - 1), NEW n \in 1..(Len(p) - 1), w[m] = w[n] PROVE m = n
  <2>1. m + 1 \in 1..Len(p) /\ n + 1 \in 1..Len(p)
    BY <1>1
  <2>2. m + 1 = n + 1
    BY <1>1, <1>3, <2>1 DEF IsInjective
  <2>3. QED BY <2>2
<1>4. IsInjective(w)
  BY <1>2, <1>3 DEF IsInjective
<1>5. QED BY <1>1, <1>4 DEF w

LEMMA GrownShape ==
  ASSUME NEW r \in Rams, NEW f \in File, NEW c \in Cluster
  PROVE  /\ GrownInode(r, f, c) \in Inodes /\ InodeOK(GrownInode(r, f, c))
         /\ GrownInode(r, f, c).st = r.ino[f].st /\ GrownInode(r, f, c).slot = r.ino[f].slot
         /\ GrownInode(r, f, c).start = IF r.ino[f].start = TAIL THEN c ELSE r.ino[f].start
         /\ GrownInode(r, f, c).start # TAIL
<1>1. r.ino[f] \in Inodes /\ InodeOK(r.ino[f])
  BY RamFields
<1>2. c # TAIL
  BY ConstantFacts
<1>3. GrownInode(r, f, c)
      = [st |-> r.ino[f].st, slot |-> r.ino[f].slot,
         start |-> IF r.ino[f].start = TAIL THEN c ELSE r.ino[f].start, last |-> c]
  <2> DEFINE i == r.ino[f]
             v == IF i.start = TAIL THEN c ELSE i.start
             q == [i EXCEPT !.last = c]
  <2>1. i = [st |-> i.st, slot |-> i.slot, start |-> i.start, last |-> i.last]
    BY <1>1 DEF Inodes
  <2>2. GrownInode(r, f, c) = [q EXCEPT !.start = v]
    BY DEF GrownInode
  <2> HIDE DEF i, v
  <2>3. q = [st |-> i.st, slot |-> i.slot, start |-> i.start, last |-> c]
    BY <2>1, InodeExcept
  <2> HIDE DEF q
  <2>4. [q EXCEPT !.start = v] = [st |-> i.st, slot |-> i.slot, start |-> v, last |-> c]
    BY <2>3, InodeExcept
  <2>5. QED BY <2>2, <2>4 DEF i, v
<1>4. QED
  <2> DEFINE g == GrownInode(r, f, c)
             i == r.ino[f]
  <2> HIDE DEF g, i
  <2>1. g.st = i.st /\ g.slot = i.slot /\ g.last = c
        /\ g.start = IF i.start = TAIL THEN c ELSE i.start
    BY <1>3 DEF g, i
  <2>2. i \in Inodes /\ InodeOK(i)
    BY <1>1 DEF i
  <2>3. g = [st |-> i.st, slot |-> i.slot, start |-> IF i.start = TAIL THEN c ELSE i.start, last |-> c]
    BY <1>3 DEF g, i
  <2>4. g \in Inodes
    BY <2>2, <2>3 DEF Inodes
  <2>5. g.start # TAIL /\ g.last # TAIL
    BY <1>2, <2>1
  <2>6. InodeOK(g)
    BY <2>1, <2>2, <2>5 DEF InodeOK
  <2>7. QED BY <2>1, <2>4, <2>5, <2>6 DEF g, i

LEMMA GrownType ==
  ASSUME NEW r \in Rams, NEW f \in File,
         NEW p \in Seq(Cluster), p # <<>>, IsInjective(p)
  PROVE  Grown(r, f, p) \in Rams
<1> DEFINE c == Head(p)
           i == GrownInode(r, f, c)
           new == [r.ino EXCEPT ![f] = i]
           segs == GrownSegs(r, f)
<1>1. c \in Cluster /\ Tail(p) \in Seq(Cluster) /\ IsInjective(Tail(p))
  BY ListTail
<1>2. r.ino \in [File -> Inodes] /\ r.segs \in Seq(File) /\ IsInjective(r.segs)
      /\ ToSet(r.segs) = Hung(r.ino) /\ r.writer \in File \cup {None}
      /\ \A g \in File : InodeOK(r.ino[g])
  BY RamFields
<1>3. /\ i \in Inodes /\ InodeOK(i) /\ i.st = r.ino[f].st
      /\ i.start # TAIL
  <2> HIDE DEF c
  <2>1. QED BY <1>1, GrownShape
<1> HIDE DEF c, i
<1>4. new \in [File -> Inodes] /\ new[f] = i /\ \A g \in File : g # f => new[g] = r.ino[g]
  BY <1>2, <1>3
<1> HIDE DEF new
<1>5. segs \in Seq(File) /\ IsInjective(segs) /\ ToSet(segs) = Hung(new)
  <2>1. CASE r.ino[f].st = "free" /\ r.ino[f].start = TAIL
    <3>1. segs = Append(r.segs, f)
      BY <2>1 DEF GrownSegs
    <3>2. Hung(new) = Hung(r.ino) \cup {f} /\ f \notin Hung(r.ino)
      BY <1>3, <1>4, <2>1 DEF Hung
    <3>3. QED BY <1>2, <3>1, <3>2, ListAppend
  <2>2. CASE ~(r.ino[f].st = "free" /\ r.ino[f].start = TAIL)
    <3>1. segs = r.segs
      BY <2>2 DEF GrownSegs
    <3>2. Hung(new) = Hung(r.ino)
      BY <1>3, <1>4, <2>2 DEF Hung
    <3>3. QED BY <1>2, <3>1, <3>2
  <2>3. QED BY <2>1, <2>2
<1>6. \A g \in File : InodeOK(new[g])
  BY <1>2, <1>3, <1>4
<1>7. [ino |-> new, segs |-> segs, writer |-> r.writer, pre |-> Tail(p)] \in Rams
  <2> HIDE DEF segs
  <2>1. QED BY <1>1, <1>2, <1>4, <1>5, <1>6, RamIntro
<1>8. QED BY <1>7 DEF Grown, new, i, c

LEMMA GrownRam ==
  ASSUME NEW r \in Rams, NEW f \in File, NEW p
  PROVE  AppendCluster(r, f, p).ram = Grown(r, f, p)
<1> DEFINE c == Head(p)
           new == [r.ino EXCEPT ![f] = GrownInode(r, f, c)]
           w == Tail(p)
           segs == GrownSegs(r, f)
           q == [r EXCEPT !.pre = w]
           o == [q EXCEPT !.ino = new]
<1>1. r \in RamShape /\ r.ino \in [File -> Inodes] /\ r.ino[f] \in Inodes
  BY RamFields DEF Rams
<1>2. q = [ino |-> r.ino, segs |-> r.segs, writer |-> r.writer, pre |-> w]
  <2> HIDE DEF w
  <2>1. QED BY <1>1, SetFields
<1>3. o = [ino |-> new, segs |-> r.segs, writer |-> r.writer, pre |-> w]
  <2> HIDE DEF new, w, q
  <2>1. QED BY <1>2, RamExcept
<1>4. AppendCluster(r, f, p).ram = [o EXCEPT !.segs = segs]
  BY DEF AppendCluster, GrownInode, GrownSegs
<1>5. QED
  <2> HIDE DEF o, q
  <2>1. [o EXCEPT !.segs = segs]
        = [ino |-> new, segs |-> segs, writer |-> r.writer, pre |-> w]
    <3> HIDE DEF new, w, segs
    <3>1. QED BY <1>3, RamExcept
  <2>2. QED BY <1>4, <2>1 DEF Grown

\* The steps of rfs_append_new_cluster before the inode gets the cluster.
LEMMA AppendSteps ==
  ASSUME NEW r \in Rams, NEW f \in File,
         NEW p \in Seq(Cluster), p # <<>>, IsInjective(p)
  PROVE  \E data \in Seq(DataSteps) :
           AppendCluster(r, f, p).steps = data \o <<Ram(Grown(r, f, p))>>
<1> DEFINE i == r.ino[f]
           new == Head(p)
           free == i.st = "free"
           first == i.start = TAIL
           k == SegIndex(r, f)
           after == [r EXCEPT !.pre = Tail(p), !.ino[f].last = new,
                              !.ino[f].start = IF first THEN new ELSE @,
                              !.segs = IF free /\ first THEN Append(@, f) ELSE @]
           unhung == [after EXCEPT !.segs = r.segs]
           d1 == <<Fat(new, TAIL)>>
           d2 == If(~first, <<Fat(i.last, new)>>)
           move == MoveChain(unhung, None, f)
           link == If(k < Len(r.segs), <<Fat(new, SegNext(r, k))>>)
           d3 == IF ~free THEN <<>> ELSE IF first THEN move ELSE link
           data == d1 \o d2 \o d3
<1>1. i \in Inodes /\ InodeOK(i) /\ r.segs \in Seq(File) /\ Listed(r)
  BY RamFields, RamsListed
<1>2. new \in Cluster
  BY ListTail
<1>3. after = Grown(r, f, p) /\ after \in Rams
  <2>1. after = AppendCluster(r, f, p).ram
    BY DEF AppendCluster
  <2> HIDE DEF after
  <2>2. QED BY <2>1, GrownRam, GrownType
<1>4. AppendCluster(r, f, p).steps = data \o <<Ram(after)>>
  BY DEF AppendCluster
<1>5. d1 \in Seq(DataSteps)
  <2>1. Fat(new, TAIL) \in DataSteps
    BY <1>2, StepTypes DEF DataSteps, FatVal, FatIndex
  <2>2. QED BY <2>1, OneType
<1>6. d2 \in Seq(DataSteps)
  <2>1. ASSUME ~first PROVE <<Fat(i.last, new)>> \in Seq(DataSteps)
    <3>1. i.last \in Cluster
      BY <1>1, <2>1 DEF Inodes, InodeOK
    <3> HIDE DEF i, new
    <3>2. Fat(i.last, new) \in DataSteps
      BY <1>2, <3>1, StepTypes DEF DataSteps, FatVal, FatIndex
    <3>3. QED BY <3>2, OneType
  <2> HIDE DEF i, new
  <2>2. QED BY <2>1, IfType
<1>7. ASSUME free, first PROVE move \in Seq(DataSteps)
  <2> DEFINE ino == [r.ino EXCEPT ![f] = GrownInode(r, f, new)]
  <2>1. after = [ino |-> ino, segs |-> GrownSegs(r, f), writer |-> r.writer, pre |-> Tail(p)]
    BY <1>3 DEF Grown
  <2> DEFINE w == Tail(p)
             segs == GrownSegs(r, f)
  <2>2. unhung = [ino |-> ino, segs |-> r.segs, writer |-> r.writer, pre |-> w]
    <3>1. after = [ino |-> ino, segs |-> segs, writer |-> r.writer, pre |-> w]
      BY <2>1
    <3> HIDE DEF after, ino, segs, w
    <3>2. QED BY <3>1, RamExcept
  <2>3. r.ino \in [File -> Inodes] /\ w \in Seq(Cluster) /\ r.writer \in File \cup {None}
        /\ ToSet(r.segs) = Hung(r.ino) /\ \A g \in File : InodeOK(r.ino[g])
    BY RamFields, ListTail
  <2>4. /\ GrownInode(r, f, new) \in Inodes /\ InodeOK(GrownInode(r, f, new))
        /\ GrownInode(r, f, new).start # TAIL
    <3> HIDE DEF new
    <3>1. QED BY <1>2, GrownShape
  <2> DEFINE gi == GrownInode(r, f, new)
  <2> HIDE DEF gi
  <2>5. ino \in [File -> Inodes] /\ ino[f] = gi /\ \A g \in File : g # f => ino[g] = r.ino[g]
    BY <2>3, <2>4 DEF gi
  <2> HIDE DEF ino, unhung, w
  <2>6. unhung.ino = ino /\ unhung.segs = r.segs /\ unhung \in RamShape
    BY <1>1, <2>2, <2>3, <2>5 DEF RamShape
  <2>7. \A g \in File : InodeOK(ino[g])
    BY <2>3, <2>4, <2>5 DEF gi
  <2>8. Hung(r.ino) \subseteq Hung(ino)
    BY <1>7, <2>5 DEF Hung
  <2>9. Listed(unhung)
    BY <2>3, <2>6, <2>7, <2>8 DEF Listed
  <2>10. unhung.ino[f].start # TAIL
    BY <2>4, <2>5, <2>6 DEF gi
  <2>11. QED BY <2>9, <2>10, MoveChainType
<1>8. ASSUME free, ~first PROVE link \in Seq(DataSteps)
  <2>1. k \in 1..Len(r.segs) /\ Len(r.segs) \in Nat
    BY <1>1, <1>8, SegPlace
  <2> HIDE DEF k, i, new
  <2>2. SegNext(r, k) \in Cluster \cup {TAIL}
    <3>1. k \in 0..Len(r.segs)
      BY <2>1
    <3>2. QED BY <1>1, <3>1, SegTypes
  <2>3. Fat(new, SegNext(r, k)) \in DataSteps
    BY <1>2, <2>2, StepTypes DEF DataSteps, FatVal, FatIndex
  <2>4. QED BY <2>3, OneType, IfType
<1>9. d3 \in Seq(DataSteps)
  <2> HIDE DEF move, link, free, first
  <2>1. QED BY <1>7, <1>8
<1>10. data \in Seq(DataSteps)
  <2> HIDE DEF d1, d2, d3
  <2>1. QED BY <1>5, <1>6, <1>9
<1>11. QED
  <2> HIDE DEF data, after
  <2>1. AppendCluster(r, f, p).steps = data \o <<Ram(Grown(r, f, p))>>
    BY <1>3, <1>4
  <2>2. QED BY <1>10, <2>1

\* The record of a pre-allocation.
LEMMA PreAllocType ==
  ASSUME cache \in Volume, NEW r \in Rams, NEW f \in File, NEW p \in Seq(Cluster)
  PROVE  PreAllocRec(r, f, p) \in DataSteps
<1> DEFINE i == r.ino[f]
           free == i.st = "free"
           slot == IF free THEN None ELSE i.slot
           next == IF free /\ i.last # TAIL THEN cache.fat[i.last] ELSE TAIL
           rec == AllocRec(slot, i.last, next, p)
<1>1. i \in Inodes
  BY RamFields
<1>2. slot \in Slot \cup {None} /\ i.last \in Cluster \cup {TAIL}
  BY <1>1 DEF Inodes
<1>3. next \in FatVal
  BY <1>2 DEF Volume, FatVal, FatIndex
<1>4. rec \in AllocRecs
  <2> HIDE DEF slot, next, i
  <2>1. QED BY <1>2, <1>3 DEF AllocRec, AllocRecs
<1>5. PreAllocRec(r, f, p) = Rec(rec)
  BY DEF PreAllocRec
<1>6. QED
  <2> HIDE DEF rec
  <2>1. QED BY <1>4, <1>5, StepTypes DEF RecSet, DataSteps

\* What rfs_find_free_clusters returns: distinct clusters, one at least.
LEMMA PreAllocationType ==
  ASSUME cache \in Volume, FreeClusters # {}, NEW p \in PreAllocations
  PROVE  p \in Seq(Cluster) /\ p # <<>> /\ IsInjective(p)
<1> DEFINE k == Cardinality(FreeClusters)
           n == IF k < PreAlloc THEN k ELSE PreAlloc
<1>1. FreeClusters \subseteq Cluster /\ IsFiniteSet(FreeClusters)
  <2>1. FreeClusters \subseteq Cluster
    BY DEF FreeClusters
  <2>2. QED BY <2>1, RfsAssumption, FS_Subset
<1>2. k \in Nat /\ k # 0
  <2>1. k \in Nat
    BY <1>1, FS_CardinalityType
  <2>2. k # 0
    BY <1>1, FS_EmptySet
  <2>3. QED BY <2>1, <2>2
<1>3. n \in Nat \ {0}
  <2> HIDE DEF k
  <2>1. QED BY <1>2, RfsAssumption
<1>4. p \in [1..n -> FreeClusters] /\ \A i, j \in 1..n : p[i] = p[j] => i = j
  BY DEF PreAllocations
<1>5. p \in [1..n -> Cluster]
  <2> HIDE DEF n
  <2>1. QED BY <1>1, <1>4
<1> HIDE DEF n
<1>6. p \in Seq(Cluster) /\ Len(p) = n /\ DOMAIN p = 1..n
  BY <1>3, <1>5
<1>7. p # <<>>
  BY <1>3, <1>6
<1>8. IsInjective(p)
  BY <1>4, <1>6 DEF IsInjective
<1>9. QED BY <1>6, <1>7, <1>8

\* An operation that appends a cluster: only the inode of the file changes, and
\* it keeps its entry.
LEMMA GrowPlan ==
  ASSUME AtRest(cache, ram), NEW q \in Rams, q.ino = ram.ino, NEW f \in File,
         NEW p \in Seq(Cluster), p # <<>>, IsInjective(p),
         NEW e \in Seq(Calm(ram.ino)), NEW b \in Seq(Calm(Grown(q, f, p).ino)),
         NEW t, t = e \o AppendCluster(q, f, p).steps \o b
  PROVE  Planned(cache, ram, t)
<1> DEFINE up == Grown(q, f, p)
           new == up.ino
           x == Ram(up)
           L == Leading(ram.ino, new)
           c == Head(p)
           i == GrownInode(q, f, c)
<1>1. ram \in Rams /\ cache \in Volume /\ Distinct(ram.ino) /\ ram.ino \in [File -> Inodes]
  BY RamFields DEF AtRest
<1>2. PICK data \in Seq(DataSteps) : AppendCluster(q, f, p).steps = data \o <<x>>
  BY AppendSteps
<1>3. up \in Rams /\ new = [ram.ino EXCEPT ![f] = i]
  BY GrownType DEF Grown
<1>4. c \in Cluster
  BY ListTail
<1>5. i.st = ram.ino[f].st /\ i.slot = ram.ino[f].slot /\ ram.ino[f].start \in {TAIL, i.start}
  <2> HIDE DEF c
  <2>1. QED BY <1>4, GrownShape
<1> HIDE DEF i
<1>6. new[f] = i /\ \A g \in File : g # f => new[g] = ram.ino[g]
  <2> HIDE DEF new
  <2>1. QED BY <1>1, <1>3
<1>7. \A g \in File : /\ new[g].st = ram.ino[g].st /\ new[g].slot = ram.ino[g].slot
                      /\ ram.ino[g].start \in {TAIL, new[g].start}
  <2> HIDE DEF new
  <2>1. QED BY <1>5, <1>6
<1>8. Distinct(new)
  <2> HIDE DEF new
  <2>1. QED BY <1>1, <1>7 DEF Distinct, Owns
<1>9. \A g \in File : new[g].st = "alloc" => Stays(ram.ino, new, b, g) \/ Moves(ram.ino, new, e \o data, g)
  <2> HIDE DEF new
  <2>1. QED BY <1>7 DEF Stays, Owns
<1>10. x \in RamSteps(Rams) /\ new = x.ram.ino
  <2> HIDE DEF up
  <2>1. QED BY <1>3, StepTypes DEF Ram
<1>11. e \in Seq(L) /\ data \in Seq(L)
  BY <1>1, CalmLeading, DataLeading
<1>12. e \o data \in Seq(L)
  <2> HIDE DEF L
  <2>1. QED BY <1>11
<1>13. t = (e \o data) \o <<x>> \o b
  <2>1. e \in Seq(StepSet) /\ data \in Seq(StepSet) /\ <<x>> \in Seq(StepSet)
    <3>1. L \subseteq StepSet /\ x \in StepSet
      BY <1>1, <1>10, LeadingSteps DEF StepSet
    <3> HIDE DEF L, x
    <3>2. QED BY <1>11, <3>1
  <2> HIDE DEF x
  <2>2. (e \o data) \o <<x>> = e \o (data \o <<x>>)
    BY <2>1, Associate
  <2>3. QED BY <1>2, <2>2
<1>14. QED
  <2> DEFINE a == e \o data
  <2>1. \A g \in File : new[g].st = "alloc" => Stays(ram.ino, new, b, g) \/ Moves(ram.ino, new, a, g)
    BY <1>9
  <2>2. t = a \o <<x>> \o b
    BY <1>13
  <2>3. b \in Seq(Calm(new))
    OBVIOUS
  <2> HIDE DEF new, x, a
  <2>4. a \in Seq(Leading(ram.ino, new))
    BY <1>12 DEF a
  <2>5. QED BY <1>8, <1>10, <2>1, <2>2, <2>3, <2>4, TurnsIntro

\* rfs_truncate forward
LEMMA ExtendPlan ==
  ASSUME NEW f \in File, AtRest(cache, ram), ram.ino[f].st = "alloc",
         NEW p \in Seq(Cluster), p # <<>>, IsInjective(p)
  PROVE  Planned(cache, ram, ExtendSteps(f, p))
<1> DEFINE r == Released(ram)
           c == CommitDeferred(ram)
           y == PreAllocRec(r, f, p)
           e == c \o <<y>>
           up == Grown(r, f, p)
           b == LogEnd(up, f)
<1>1. ram \in Rams /\ cache \in Volume /\ r \in Rams /\ r.ino = ram.ino
  BY ReleasedType DEF AtRest
<1>2. e \in Seq(Calm(ram.ino))
  <2>1. c \in Seq(Calm(ram.ino))
    BY <1>1, CommitCalm
  <2>2. y \in Calm(ram.ino)
    <3> HIDE DEF r
    <3>1. QED BY <1>1, PreAllocType, CalmSteps
  <2> HIDE DEF c, y
  <2>3. QED BY <2>1, <2>2
<1>3. up \in Rams
  <2> HIDE DEF r
  <2>1. QED BY <1>1, GrownType
<1>4. b \in Seq(Calm(up.ino))
  <2> HIDE DEF up
  <2>1. QED BY <1>3, LogEndCalm
<1>5. AppendCluster(r, f, p).ram = up
  <2> HIDE DEF r
  <2>1. QED BY <1>1, GrownRam
<1>6. ExtendSteps(f, p) = e \o AppendCluster(r, f, p).steps \o b
  BY <1>5 DEF ExtendSteps
<1>7. QED
  <2> HIDE DEF r, e, b
  <2>1. b \in Seq(Calm(Grown(r, f, p).ino))
    BY <1>4
  <2>2. QED BY <1>1, <1>2, <1>6, <2>1, GrowPlan

\* rfs_write_begin .. rfs_write_end
LEMMA WritePlan ==
  ASSUME NEW f \in File, AtRest(cache, ram), NEW p \in Seq(Cluster), IsInjective(p),
         p = <<>> => ram.pre # <<>>
  PROVE  Planned(cache, ram, WriteSteps(f, p))
<1> DEFINE mine == ram.writer = f
           r == IF mine THEN ram ELSE Released(ram)
           open == [r EXCEPT !.writer = f]
           o == IF p = <<>> THEN ram.pre ELSE p
           c == CommitDeferred(ram)
           m == MetaCommit(ram, f) \o <<Mark(ram)>>
           y == PreAllocRec(r, f, p)
           d == If(mine, m) \o <<y>>
           e1 == If(~mine, c)
           e2 == If(p # <<>>, d)
           e == e1 \o e2
           K == Calm(ram.ino)
<1>1. ram \in Rams /\ cache \in Volume /\ r \in Rams /\ r.ino = ram.ino
  <2>1. ram \in Rams /\ cache \in Volume
    BY DEF AtRest
  <2>2. QED BY <2>1, ReleasedType
<1>2. open \in Rams /\ open.ino = ram.ino
  <2> HIDE DEF r
  <2>1. open = [ino |-> r.ino, segs |-> r.segs, writer |-> f, pre |-> r.pre]
    BY <1>1, SetFields DEF Rams
  <2>2. /\ r.ino \in [File -> Inodes] /\ r.segs \in Seq(File) /\ r.pre \in Seq(Cluster)
        /\ \A g \in File : InodeOK(r.ino[g])
        /\ IsInjective(r.segs) /\ ToSet(r.segs) = Hung(r.ino) /\ IsInjective(r.pre)
    BY <1>1, RamFields
  <2>3. f \in File \cup {None}
    OBVIOUS
  <2>4. [ino |-> r.ino, segs |-> r.segs, writer |-> f, pre |-> r.pre] \in Rams
    BY <2>2, <2>3, RamIntro
  <2> HIDE DEF open
  <2>5. QED BY <1>1, <2>1, <2>4
<1>3. o \in Seq(Cluster) /\ o # <<>> /\ IsInjective(o)
  BY <1>1, RamFields
<1>4. e1 \in Seq(K)
  <2>1. c \in Seq(K)
    BY <1>1, CommitCalm
  <2> HIDE DEF c, K
  <2>2. QED BY <2>1, IfType
<1>5. d \in Seq(K)
  <2>1. m \in Seq(K)
    <3>1. MetaCommit(ram, f) \in Seq(K)
      BY <1>1, MetaCommitCalm
    <3>2. Mark(ram) \in K
      BY <1>1, CalmSteps
    <3> HIDE DEF K
    <3>3. QED BY <3>1, <3>2
  <2>2. y \in K
    <3> HIDE DEF r
    <3>1. QED BY <1>1, PreAllocType, CalmSteps
  <2>3. If(mine, m) \in Seq(K)
    <3> HIDE DEF mine, m, K
    <3>1. QED BY <2>1, IfType
  <2> HIDE DEF mine, m, K, y
  <2>4. QED BY <2>2, <2>3
<1>6. e2 \in Seq(K)
  <2> HIDE DEF d, K
  <2>1. QED BY <1>5, IfType
<1>7. e \in Seq(K)
  <2> HIDE DEF e1, e2, K
  <2>1. QED BY <1>4, <1>6
<1>8. WriteSteps(f, p) = e \o AppendCluster(open, f, o).steps
  BY DEF WriteSteps
<1> DEFINE t == WriteSteps(f, p)
<1>9. t = e \o AppendCluster(open, f, o).steps \o <<>>
  <2> HIDE DEF open, o, e
  <2>1. PICK data \in Seq(DataSteps) :
          AppendCluster(open, f, o).steps = data \o <<Ram(Grown(open, f, o))>>
    BY <1>2, <1>3, AppendSteps
  <2> DEFINE x == Ram(Grown(open, f, o))
             w == AppendCluster(open, f, o).steps
  <2>2. x \in StepSet
    <3>1. Grown(open, f, o) \in Rams
      BY <1>2, <1>3, GrownType
    <3>2. x \in RamSteps(Rams)
      BY <3>1, StepTypes
    <3>3. QED BY <3>2 DEF StepSet
  <2>3. w = data \o <<x>>
    BY <2>1
  <2>4. DataSteps \subseteq StepSet /\ K \subseteq StepSet
    BY <1>1, CalmSteps DEF StepSet
  <2> HIDE DEF w, x, K
  <2>5. data \in Seq(StepSet) /\ e \in Seq(StepSet)
    BY <1>7, <2>4
  <2>6. w \in Seq(StepSet)
    BY <2>2, <2>3, <2>5
  <2>7. e \o w \o <<>> = e \o w
    BY <2>5, <2>6
  <2> HIDE DEF t
  <2>8. QED BY <1>8, <2>7 DEF w, t
<1>10. QED
  <2>1. <<>> \in Seq(Calm(Grown(open, f, o).ino))
    OBVIOUS
  <2> HIDE DEF open, o, e, t
  <2>2. Planned(cache, ram, t)
    BY <1>2, <1>3, <1>7, <1>9, <2>1, GrowPlan
  <2>3. QED BY <2>2 DEF t

\* The in-core state once the chain of f ends at its cluster c, or has none.
CutInode(r, f, c) ==
  [[r.ino[f] EXCEPT !.last = c] EXCEPT !.start = IF c = TAIL THEN TAIL ELSE r.ino[f].start]
Cut(r, f, c) ==
  [ino |-> [r.ino EXCEPT ![f] = CutInode(r, f, c)], segs |-> r.segs,
   writer |-> r.writer, pre |-> r.pre]

LEMMA CutShape ==
  ASSUME NEW r \in Rams, NEW f \in File, r.ino[f].start # TAIL, NEW c \in Cluster \cup {TAIL}
  PROVE  /\ CutInode(r, f, c) \in Inodes /\ InodeOK(CutInode(r, f, c))
         /\ CutInode(r, f, c).st = r.ino[f].st /\ CutInode(r, f, c).slot = r.ino[f].slot
         /\ CutInode(r, f, c).start = IF c = TAIL THEN TAIL ELSE r.ino[f].start
<1> DEFINE i == r.ino[f]
           v == IF c = TAIL THEN TAIL ELSE i.start
           q == [i EXCEPT !.last = c]
           g == CutInode(r, f, c)
<1>1. i \in Inodes /\ InodeOK(i) /\ i.start # TAIL
  BY RamFields
<1>2. i = [st |-> i.st, slot |-> i.slot, start |-> i.start, last |-> i.last]
  BY <1>1 DEF Inodes
<1>3. g = [q EXCEPT !.start = v]
  BY DEF CutInode
<1>4. v \in Cluster \cup {TAIL} /\ (v = TAIL <=> c = TAIL)
  BY <1>1 DEF Inodes
<1> HIDE DEF i, v, g
<1>5. q = [st |-> i.st, slot |-> i.slot, start |-> i.start, last |-> c]
  BY <1>2, InodeExcept
<1> HIDE DEF q
<1>6. g = [st |-> i.st, slot |-> i.slot, start |-> v, last |-> c]
  BY <1>3, <1>5, InodeExcept
<1>7. g.st = i.st /\ g.slot = i.slot /\ g.start = v /\ g.last = c
  BY <1>6
<1>8. g \in Inodes
  BY <1>1, <1>4, <1>6 DEF Inodes
<1>9. InodeOK(g)
  BY <1>1, <1>4, <1>7 DEF InodeOK
<1>10. QED BY <1>7, <1>8, <1>9 DEF g, i, v

LEMMA CutType ==
  ASSUME NEW r \in Rams, NEW f \in File, r.ino[f].st = "alloc", r.ino[f].start # TAIL,
         NEW c \in Cluster \cup {TAIL}
  PROVE  Cut(r, f, c) \in Rams
<1> DEFINE i == CutInode(r, f, c)
           new == [r.ino EXCEPT ![f] = i]
<1>1. r.ino \in [File -> Inodes] /\ r.segs \in Seq(File) /\ IsInjective(r.segs)
      /\ ToSet(r.segs) = Hung(r.ino) /\ r.writer \in File \cup {None}
      /\ r.pre \in Seq(Cluster) /\ IsInjective(r.pre)
      /\ \A g \in File : InodeOK(r.ino[g])
  BY RamFields
<1>2. i \in Inodes /\ InodeOK(i) /\ i.st = "alloc"
  BY CutShape
<1> HIDE DEF i
<1>3. new \in [File -> Inodes] /\ new[f] = i /\ \A g \in File : g # f => new[g] = r.ino[g]
  BY <1>1, <1>2
<1> HIDE DEF new
<1>4. Hung(new) = Hung(r.ino)
  BY <1>2, <1>3 DEF Hung
<1>5. \A g \in File : InodeOK(new[g])
  BY <1>1, <1>2, <1>3
<1>6. [ino |-> new, segs |-> r.segs, writer |-> r.writer, pre |-> r.pre] \in Rams
  BY <1>1, <1>3, <1>4, <1>5, RamIntro
<1>7. QED BY <1>6 DEF Cut, new, i

\* rfs_truncate backward.  A file cut to nothing keeps its old start cluster in
\* its entry until the first step of rfs_log_end.
LEMMA TruncatePlan ==
  ASSUME NEW f \in File, NEW n \in Nat, AtRest(cache, ram), ram.ino[f].st = "alloc",
         n < Len(ChainOf(f))
  PROVE  Planned(cache, ram, TruncateSteps(f, n))
<1> DEFINE r == Released(ram)
           cs == ChainOf(f)
           z == IF n = 0 THEN TAIL ELSE cs[n]
           d == [trunc |-> TRUE, slot |-> r.ino[f].slot, newlast |-> z,
                 prev |-> SegEnd(r), succ |-> TAIL]
           cut == [r EXCEPT !.ino[f].last = z,
                            !.ino[f].start = IF n = 0 THEN TAIL ELSE @]
           new == [ram.ino EXCEPT ![f] = CutInode(r, f, z)]
           i == CutInode(r, f, z)
           c == CommitDeferred(ram)
           chain == FreeChain(d, SubSeq(cs, n + 1, Len(cs)))
           w == <<Fat(d.prev, TAIL)>>
           l == If(n > 0, <<Fat(z, TAIL)>>)
           a == c \o chain \o w \o l
           x == Ram(cut)
           b == LogEnd(cut, f)
           t == TruncateSteps(f, n)
           L == Leading(ram.ino, new)
<1>1. /\ ram \in Rams /\ cache \in Volume /\ Distinct(ram.ino)
      /\ r \in Rams /\ r.ino = ram.ino /\ r \in RamShape
      /\ ram.ino \in [File -> Inodes]
  BY ReleasedType, RamFields DEF AtRest, Rams
<1>2. cs \in Seq(Cluster) /\ Len(cs) \in Nat /\ n < Len(cs) /\ ram.ino[f].start # TAIL
  <2>1. cs \in Seq(Cluster) /\ (cs = <<>> <=> ram.ino[f].start = TAIL)
    BY <1>1, ChainOfType
  <2> HIDE DEF cs
  <2>2. QED BY <2>1 DEF cs
<1> HIDE DEF cs
<1>3. z \in Cluster \cup {TAIL} /\ (z = TAIL <=> n = 0)
  <2>1. CASE n = 0
    BY <2>1
  <2>2. CASE n # 0
    <3>1. n \in 1..Len(cs)
      BY <1>2, <2>2
    <3>2. cs[n] \in Cluster
      BY <1>2, <3>1
    <3>3. QED BY <2>2, <3>2, ConstantFacts
  <2>3. QED BY <2>1, <2>2
<1>4. cut = Cut(r, f, z)
  <2> DEFINE o == [r.ino EXCEPT ![f] = CutInode(r, f, z)]
  <2>1. (n = 0) = (z = TAIL)
    <3> HIDE DEF z
    <3>1. QED BY <1>3
  <2> HIDE DEF z
  <2>2. cut = [r EXCEPT !.ino = o]
    BY <2>1 DEF CutInode
  <2> HIDE DEF o, r, cut
  <2>3. cut = [ino |-> o, segs |-> r.segs, writer |-> r.writer, pre |-> r.pre]
    BY <1>1, <2>2, SetFields
  <2>4. QED BY <2>3 DEF Cut, o
<1> HIDE DEF z, cut
<1>5. r.ino[f].st = "alloc" /\ r.ino[f].start # TAIL /\ r.ino[f].slot \in Slot
  <2> HIDE DEF r
  <2>1. QED BY <1>1, <1>2, RamFields DEF InodeOK
<1>6. cut \in Rams /\ cut.ino = new
  <2> HIDE DEF r
  <2>1. QED BY <1>1, <1>3, <1>4, <1>5, CutType DEF Cut
<1>7. /\ i \in Inodes /\ i.st = "alloc" /\ i.slot = ram.ino[f].slot
      /\ i.start = IF z = TAIL THEN TAIL ELSE ram.ino[f].start
  <2> HIDE DEF r
  <2>1. QED BY <1>1, <1>3, <1>5, CutShape
<1> HIDE DEF i
<1>8. new[f] = i /\ \A g \in File : g # f => new[g] = ram.ino[g]
  BY <1>1 DEF i
<1> HIDE DEF new
<1>9. Distinct(new)
  BY <1>1, <1>7, <1>8 DEF Distinct, Owns
<1>10. /\ b \in Seq(Calm(new)) /\ b # <<>>
       /\ Head(b) = Start(new[f].slot, new[f].start)
  <2>1. b \in Seq(Calm(cut.ino)) /\ (cut.ino[f].st = "alloc" =>
          b # <<>> /\ Head(b) = Start(cut.ino[f].slot, cut.ino[f].start))
    BY <1>6, ConstantFacts, LogEndCalm
  <2> HIDE DEF b
  <2>2. QED BY <1>6, <1>7, <1>8, <2>1
<1> HIDE DEF b
<1>11. \A g \in File : new[g].st = "alloc" => Stays(ram.ino, new, b, g) \/ Moves(ram.ino, new, a, g)
  <2>1. ASSUME NEW g \in File, new[g].st = "alloc" PROVE Stays(ram.ino, new, b, g)
    <3>1. CASE g = f
      <4>1. Owns(ram.ino, f, new[f].slot)
        BY <1>7, <1>8 DEF Owns
      <4>2. CASE z = TAIL
        <5>1. new[f].start = TAIL
          BY <1>7, <1>8, <4>2
        <5>2. Head(b) = Start(new[f].slot, TAIL)
          BY <1>10, <5>1
        <5>3. QED BY <1>10, <3>1, <4>1, <5>1, <5>2 DEF Stays
      <4>3. CASE z # TAIL
        BY <1>7, <1>8, <3>1, <4>1, <4>3 DEF Stays
      <4>4. QED BY <4>2, <4>3
    <3>2. CASE g # f
      BY <1>8, <2>1, <3>2 DEF Stays, Owns
    <3>3. QED BY <3>1, <3>2
  <2>2. QED BY <2>1
<1>12. d \in Places /\ d.prev \in FatIndex
  <2>1. Listed(r)
    BY <1>1, RamsListed
  <2>2. SegEnd(r) \in FatIndex
    BY <2>1, SegTypes
  <2>3. z \in FatIndex \cup {TAIL}
    BY <1>3 DEF FatIndex
  <2> HIDE DEF r
  <2>4. QED BY <1>5, <2>2, <2>3 DEF Places
<1>13. c \in Seq(L)
  BY <1>1, CommitCalm, CalmLeading
<1>14. chain \in Seq(L) /\ w \in Seq(L) /\ l \in Seq(L)
  <2>1. chain \in Seq(DataSteps)
    <3> DEFINE rest == SubSeq(cs, n + 1, Len(cs))
    <3>1. rest \in Seq(Cluster)
      BY <1>2
    <3> HIDE DEF d, rest
    <3>2. FreeChain(d, rest) \in Seq(DataSteps)
      BY <1>12, <3>1, FreeChainType
    <3>3. QED BY <3>2 DEF rest
  <2>2. w \in Seq(DataSteps)
    <3> HIDE DEF d
    <3>1. Fat(d.prev, TAIL) \in DataSteps
      BY <1>12, StepTypes DEF DataSteps, FatVal
    <3>2. QED BY <3>1, OneType
  <2>3. l \in Seq(DataSteps)
    <3>1. ASSUME n > 0 PROVE <<Fat(z, TAIL)>> \in Seq(DataSteps)
      <4>1. z \in FatIndex
        BY <1>3, <3>1 DEF FatIndex
      <4>2. Fat(z, TAIL) \in DataSteps
        BY <4>1, StepTypes DEF DataSteps, FatVal
      <4>3. QED BY <4>2, OneType
    <3>2. QED BY <3>1, IfType
  <2> HIDE DEF chain, w, l
  <2>4. QED BY <1>1, <2>1, <2>2, <2>3, DataLeading
<1>15. a \in Seq(L)
  <2> HIDE DEF c, chain, w, l, L
  <2>1. QED BY <1>13, <1>14
<1>16. x \in RamSteps(Rams) /\ new = x.ram.ino
  BY <1>6, StepTypes DEF Ram
<1>17. t = a \o <<x>> \o b
  BY DEF TruncateSteps, cs, z, cut, b
<1>18. QED
  <2> HIDE DEF a, x, t
  <2>1. Planned(cache, ram, t)
    BY <1>9, <1>10, <1>11, <1>15, <1>16, <1>17, TurnsIntro
  <2>2. QED BY <2>1 DEF t

-----------------------------------------------------------------------------
(***************************************************************************)
(* Every operation starts from a state at rest and lays down such a plan.  *)
(***************************************************************************)
LEMMA NoTurns ==
  ASSUME NEW v, NEW r \in Rams
  PROVE  ~Turns(v, r, <<>>)
<1>1. SUFFICES ASSUME NEW a, NEW m, NEW x, NEW b, TurnsBy(v, r, <<>>, a, m, x, b) PROVE FALSE
  BY DEF Turns
<1>2. /\ <<>> = a \o m \o <<x>> \o b
      /\ x \in RamSteps(Rams) /\ a \in Seq(Leading(r.ino, x.ram.ino))
      /\ b \in Seq(Calm(x.ram.ino)) /\ m \in Seq(RamSteps(Rams))
  BY <1>1 DEF TurnsBy
<1>3. x.ram \in Rams
  BY <1>2 DEF RamSteps
<1> DEFINE L == Leading(r.ino, x.ram.ino)
           K == Calm(x.ram.ino)
<1>4. L \subseteq StepSet /\ K \subseteq StepSet /\ RamSteps(Rams) \subseteq StepSet
  BY <1>3, LeadingSteps, CalmSteps DEF StepSet
<1> HIDE DEF L, K
<1>5. a \in Seq(StepSet) /\ b \in Seq(StepSet) /\ m \in Seq(StepSet) /\ x \in StepSet
  BY <1>2, <1>4 DEF L, K
<1>6. Len(a \o m \o <<x>> \o b) = Len(a) + Len(m) + 1 + Len(b)
  BY <1>5
<1>7. Len(a) \in Nat /\ Len(m) \in Nat /\ Len(b) \in Nat /\ Len(<<>>) = 0
  BY <1>5
<1>8. QED BY <1>2, <1>6, <1>7

LEMMA RestsThere ==
  ASSUME Types, Entries, todo = <<>>
  PROVE  AtRest(cache, ram)
<1>1. ram \in Rams /\ cache \in Volume
  BY DEF Types
<1>2. Quiet(cache, ram, todo)
  BY <1>1, NoTurns DEF Entries
<1>3. QED BY <1>1, <1>2 DEF Entries, AtRest, Quiet, AllLive, Agrees

LEMMA OperationPlan ==
  ASSUME Types, mode = "up" => Entries, Operation
  PROVE  /\ Planned(cache, ram, todo') /\ mode = "up" /\ todo = <<>>
         /\ UNCHANGED <<disk, cache, log, ram, sync, mode>>
<1>1. mode = "up" /\ todo = <<>>
  <2> USE DEF Takes, Idle, LogFree
  <2>1. ASSUME NEW f \in File, NEW s \in Slot, NEW c \in FreeClusters \cup {None}, Create(f, s, c)
        PROVE  mode = "up" /\ todo = <<>>
    BY <2>1 DEF Create
  <2>2. ASSUME NEW f \in File, NEW s \in Slot, NEW g \in File \cup {None}, Rename(f, s, g)
        PROVE  mode = "up" /\ todo = <<>>
    BY <2>2 DEF Rename
  <2>3. ASSUME NEW f \in File, Unlink(f) \/ Write(f) \/ WriteNoSpace(f) \/ Extend(f) \/ DelInode(f)
        PROVE  mode = "up" /\ todo = <<>>
    BY <2>3 DEF Unlink, Write, WriteNoSpace, Extend, DelInode
  <2>4. ASSUME NEW f \in File, NEW n \in 0..Cardinality(Cluster), Truncate(f, n)
        PROVE  mode = "up" /\ todo = <<>>
    BY <2>4 DEF Truncate
  <2>5. ASSUME ForceCommit PROVE mode = "up" /\ todo = <<>>
    BY <2>5 DEF ForceCommit
  <2>6. QED BY <2>1, <2>2, <2>3, <2>4, <2>5 DEF Operation
<1>2. AtRest(cache, ram)
  BY <1>1, RestsThere
<1>3. cache \in Volume /\ ram \in Rams
  BY DEF Types
<1>4. ASSUME NEW f \in File, NEW s \in Slot, NEW c \in FreeClusters \cup {None}, Create(f, s, c)
      PROVE  Planned(cache, ram, todo') /\ UNCHANGED <<disk, cache, log, ram, sync, mode>>
  <2>1. c \in Cluster \cup {None}
    BY DEF FreeClusters
  <2>2. Planned(cache, ram, CreateSteps(f, s, c))
    BY <1>2, <1>4, <2>1, CreatePlan DEF Create
  <2>3. QED BY <1>4, <2>2 DEF Create, Run
<1>5. ASSUME NEW f \in File, NEW s \in Slot, NEW g \in File \cup {None}, Rename(f, s, g)
      PROVE  Planned(cache, ram, todo') /\ UNCHANGED <<disk, cache, log, ram, sync, mode>>
  <2>1. Planned(cache, ram, RenameSteps(f, s, g))
    BY <1>2, <1>5, RenamePlan DEF Rename
  <2>2. QED BY <1>5, <2>1 DEF Rename, Run
<1>6. ASSUME NEW f \in File, Unlink(f)
      PROVE  Planned(cache, ram, todo') /\ UNCHANGED <<disk, cache, log, ram, sync, mode>>
  <2>1. Planned(cache, ram, UnlinkSteps(f))
    BY <1>2, <1>6, UnlinkPlan DEF Unlink
  <2>2. QED BY <1>6, <2>1 DEF Unlink, Run
<1>7. ASSUME NEW f \in File, Write(f)
      PROVE  Planned(cache, ram, todo') /\ UNCHANGED <<disk, cache, log, ram, sync, mode>>
  <2>1. CASE ram.writer = f /\ ram.pre # <<>>
    <3>1. Run(WriteSteps(f, <<>>))
      BY <1>7, <2>1 DEF Write
    <3>2. IsInjective(<<>>) /\ <<>> \in Seq(Cluster)
      BY DEF IsInjective
    <3>3. Planned(cache, ram, WriteSteps(f, <<>>))
      BY <1>2, <2>1, <3>2, WritePlan
    <3>4. QED BY <3>1, <3>3 DEF Run
  <2>2. CASE ~(ram.writer = f /\ ram.pre # <<>>)
    <3>1. FreeClusters # {} /\ \E p \in PreAllocations : Run(WriteSteps(f, p))
      BY <1>7, <2>2 DEF Write
    <3>2. PICK p \in PreAllocations : Run(WriteSteps(f, p))
      BY <3>1
    <3>3. p \in Seq(Cluster) /\ p # <<>> /\ IsInjective(p)
      BY <1>3, <3>1, PreAllocationType
    <3>4. Planned(cache, ram, WriteSteps(f, p))
      BY <1>2, <3>3, WritePlan
    <3>5. QED BY <3>2, <3>4 DEF Run
  <2>3. QED BY <2>1, <2>2
<1>8. ASSUME NEW f \in File, WriteNoSpace(f)
      PROVE  Planned(cache, ram, todo') /\ UNCHANGED <<disk, cache, log, ram, sync, mode>>
  <2>1. LogEnd(ram, f) \in Seq(Calm(ram.ino))
    BY <1>3, LogEndCalm
  <2>2. Planned(cache, ram, LogEnd(ram, f))
    BY <1>2, <2>1, QuietPlan
  <2>3. QED BY <1>8, <2>2 DEF WriteNoSpace, Run
<1>9. ASSUME NEW f \in File, Extend(f)
      PROVE  Planned(cache, ram, todo') /\ UNCHANGED <<disk, cache, log, ram, sync, mode>>
  <2>1. PICK p \in PreAllocations : Run(ExtendSteps(f, p))
    BY <1>9 DEF Extend
  <2>2. p \in Seq(Cluster) /\ p # <<>> /\ IsInjective(p)
    BY <1>3, <1>9, PreAllocationType DEF Extend
  <2>3. Planned(cache, ram, ExtendSteps(f, p))
    BY <1>2, <1>9, <2>2, ExtendPlan DEF Extend
  <2>4. QED BY <2>1, <2>3 DEF Run
<1>10. ASSUME NEW f \in File, DelInode(f)
       PROVE  Planned(cache, ram, todo') /\ UNCHANGED <<disk, cache, log, ram, sync, mode>>
  <2>1. Planned(cache, ram, DelInodeSteps(f))
    BY <1>2, <1>10, DelInodePlan DEF DelInode
  <2>2. QED BY <1>10, <2>1 DEF DelInode, Run
<1>11. ASSUME NEW f \in File, NEW n \in 0..Cardinality(Cluster), Truncate(f, n)
       PROVE  Planned(cache, ram, todo') /\ UNCHANGED <<disk, cache, log, ram, sync, mode>>
  <2>1. n \in Nat
    BY RfsAssumption, FS_CardinalityType
  <2>2. Planned(cache, ram, TruncateSteps(f, n))
    BY <1>2, <1>11, <2>1, TruncatePlan DEF Truncate
  <2>3. QED BY <1>11, <2>2 DEF Truncate, Run
<1>12. ASSUME ForceCommit
       PROVE  Planned(cache, ram, todo') /\ UNCHANGED <<disk, cache, log, ram, sync, mode>>
  <2>1. CommitDeferred(ram) \in Seq(Calm(ram.ino))
    BY <1>3, CommitCalm
  <2>2. Planned(cache, ram, CommitDeferred(ram))
    BY <1>2, <2>1, QuietPlan
  <2>3. QED BY <1>12, <2>2 DEF ForceCommit, Run
<1>13. Planned(cache, ram, todo') /\ UNCHANGED <<disk, cache, log, ram, sync, mode>>
  BY <1>4, <1>5, <1>6, <1>7, <1>8, <1>9, <1>10, <1>11, <1>12 DEF Operation
<1>14. QED BY <1>1, <1>13

LEMMA OperationInv ==
  ASSUME JInv, Operation
  PROVE  JInv'
<1>1. Types /\ (mode = "up" => Entries)
  BY DEF JInv
<1>2. /\ Planned(cache, ram, todo') /\ mode = "up" /\ todo = <<>>
      /\ UNCHANGED <<disk, cache, log, ram, sync, mode>>
  BY <1>1, OperationPlan
<1>3. AtRest(cache, ram)
  BY <1>1, <1>2, RestsThere
<1>4. Types'
  BY <1>1, <1>2 DEF Types, Planned
<1>5. Agrees(cache, ram, todo') /\ Distinct(ram.ino)
  BY <1>3 DEF AtRest, Agrees
<1>6. Entries'
  BY <1>2, <1>5 DEF Entries, Planned
<1>7. QED BY <1>4, <1>6 DEF JInv

-----------------------------------------------------------------------------
(***************************************************************************)
(* The steps of a plan run one by one.                                     *)
(***************************************************************************)
LEMMA HeadConcat ==
  ASSUME NEW S, NEW a \in Seq(S), NEW b \in Seq(S), a # <<>>
  PROVE  /\ Head(a \o b) = Head(a) /\ Tail(a \o b) = Tail(a) \o b
         /\ Head(a) \in S /\ Tail(a) \in Seq(S) /\ a \o b # <<>>
<1> DEFINE p == Tail(a \o b)
           q == Tail(a) \o b
<1>1. Len(a) \in Nat \ {0} /\ Len(b) \in Nat /\ a \o b \in Seq(S) /\ Len(a \o b) = Len(a) + Len(b)
      /\ Tail(a) \in Seq(S) /\ Len(Tail(a)) = Len(a) - 1
  OBVIOUS
<1>2. p \in Seq(S) /\ q \in Seq(S) /\ Len(p) = Len(q)
  BY <1>1
<1>3. ASSUME NEW i \in 1..Len(p) PROVE p[i] = q[i]
  BY <1>1
<1>4. p = q
  <2> HIDE DEF p, q
  <2>1. QED BY <1>2, <1>3
<1>5. Head(a \o b) = Head(a) /\ Head(a) \in S /\ a \o b # <<>>
  BY <1>1
<1>6. QED BY <1>1, <1>4, <1>5

\* A step as it is named by its kind.
LEMMA Kinds ==
  ASSUME NEW s \in StepSet
  PROVE  /\ s \in StartSteps <=> s.op = "start"
         /\ s \in LiveSteps <=> s.op = "live"
         /\ s \in RamSteps(Rams) <=> s.op \in {"ram", "mark"}
         /\ s \in LogSteps <=> s.op = "log"
         /\ s \in DataSteps <=> s.op \in {"fat", "log", "flush"}
         /\ s \in StartSteps => s.at \in Slot /\ s.val \in Cluster \cup {TAIL}
         /\ s \in LiveSteps => s.at \in Slot /\ s.val \in BOOLEAN
         /\ s \in RamSteps(Rams) => s.ram \in Rams
         /\ s \in LogSteps => s.rec \in RecSet
<1>1. s \in FatSteps => s.op = "fat"
  BY DEF FatSteps
<1>2. s \in LogSteps => s.op = "log" /\ s.rec \in RecSet
  BY DEF LogSteps
<1>3. s \in FlushSteps => s.op = "flush"
  BY DEF FlushSteps
<1>4. s \in StartSteps => s.op = "start" /\ s.at \in Slot /\ s.val \in Cluster \cup {TAIL}
  BY DEF StartSteps
<1>5. s \in LiveSteps => s.op = "live" /\ s.at \in Slot /\ s.val \in BOOLEAN
  BY DEF LiveSteps
<1>6. s \in RamSteps(Rams) => s.op \in {"ram", "mark"} /\ s.ram \in Rams
  BY DEF RamSteps
<1>7. s \in FatSteps \/ s \in LogSteps \/ s \in FlushSteps \/ s \in StartSteps
      \/ s \in LiveSteps \/ s \in RamSteps(Rams)
  BY DEF StepSet, DataSteps
<1>8. QED BY <1>1, <1>2, <1>3, <1>4, <1>5, <1>6, <1>7 DEF DataSteps

\* The in-core state after the step s.
NextRam(r, s) == IF s.op \in {"ram", "mark"} THEN s.ram ELSE r

LEMMA NextRamCalm ==
  ASSUME NEW r \in Rams, NEW s \in Calm(r.ino)
  PROVE  NextRam(r, s) \in Rams /\ NextRam(r, s).ino = r.ino
<1>1. s \in StepSet
  BY CalmSteps
<1>2. CASE s.op \in {"ram", "mark"}
  <2>1. s \in RamSteps(Rams) /\ s \notin DataSteps /\ s \notin StartSteps
    BY <1>1, <1>2, Kinds
  <2>2. s \in RamSteps({q \in Rams : q.ino = r.ino})
    BY <2>1 DEF Calm
  <2>3. s.ram \in {q \in Rams : q.ino = r.ino}
    BY <2>2 DEF RamSteps
  <2>4. QED BY <1>2, <2>3 DEF NextRam
<1>3. CASE s.op \notin {"ram", "mark"}
  BY <1>3 DEF NextRam
<1>4. QED BY <1>2, <1>3

LEMMA QuietStep ==
  ASSUME NEW v \in Volume, NEW r \in Rams, NEW t \in Seq(StepSet), t # <<>>,
         Distinct(r.ino), Agrees(v, r, t), Quiet(v, r, t)
  PROVE  LET s == Head(t)
         IN /\ NextRam(r, s) \in Rams /\ Distinct(NextRam(r, s).ino)
            /\ Agrees(Apply(v, s), NextRam(r, s), Tail(t))
            /\ Quiet(Apply(v, s), NextRam(r, s), Tail(t))
<1> DEFINE s == Head(t)
           K == Calm(r.ino)
           w == Apply(v, s)
           q == NextRam(r, s)
<1>1. s \in K /\ Tail(t) \in Seq(K)
  <2>1. t \in Seq(K)
    BY DEF Quiet
  <2> HIDE DEF K
  <2>2. QED BY <2>1
<1>2. q \in Rams /\ q.ino = r.ino
  <2> HIDE DEF s
  <2>1. QED BY <1>1, NextRamCalm
<1>3. /\ w.live = v.live
      /\ \A f \in File, u \in Slot : Owns(r.ino, f, u) => w.start[u] \in {v.start[u], r.ino[f].start}
  <2> HIDE DEF s
  <2>1. QED BY <1>1, CalmKeeps
<1>4. ASSUME NEW f \in File, NEW u \in Slot, Owns(r.ino, f, u)
      PROVE  w.start[u] \in {TAIL, r.ino[f].start}
  <2>1. CASE v.start[u] \in {TAIL, r.ino[f].start}
    <3> HIDE DEF w
    <3>1. QED BY <1>3, <1>4, <2>1
  <2>2. CASE r.ino[f].start = TAIL /\ s = Start(u, TAIL)
    <3>1. s.op = "start" /\ s.at = u /\ s.val = TAIL
      BY <2>2 DEF Start
    <3>2. s \in StartSteps
      <4>1. s \in StepSet
        OBVIOUS
      <4> HIDE DEF s
      <4>2. QED BY <3>1, <4>1, Kinds
    <3>3. w.start = [v.start EXCEPT ![s.at] = s.val]
      <4> HIDE DEF s
      <4>1. QED BY <3>2, ApplyEntries
    <3>4. v.start \in [Slot -> Cluster \cup {TAIL}]
      BY DEF Volume
    <3> HIDE DEF s, w
    <3>5. QED BY <3>1, <3>3, <3>4
  <2>3. QED BY <1>4, <2>1, <2>2 DEF Agrees
<1>5. Agrees(w, q, Tail(t))
  <2> HIDE DEF w, q
  <2>1. QED BY <1>2, <1>4 DEF Agrees
<1>6. Quiet(w, q, Tail(t))
  <2> HIDE DEF w, q
  <2>1. Tail(t) \in Seq(Calm(q.ino))
    BY <1>1, <1>2
  <2>2. QED BY <1>2, <1>3, <2>1 DEF Quiet, AllLive
<1>7. QED
  <2> HIDE DEF w, q
  <2>1. Distinct(q.ino)
    BY <1>2
  <2>2. QED BY <1>2, <1>5, <1>6, <2>1 DEF w, q

\* A step that runs before the inodes turn.
\* From v to w the entries of the inodes ino keep what they hold, unless a step s
\* brings one up to date.
Keeps(v, w, ino, s) ==
  \A f \in File, u \in Slot : Owns(ino, f, u) =>
    /\ w.start[u] \in {v.start[u], ino[f].start}
    /\ s = Start(u, TAIL) => w.start[u] = TAIL

\* From v to w the step s changes an entry of the inodes new only towards them.
Prepares(v, w, ino, new, s) ==
  \A f \in File, u \in Slot : Owns(new, f, u) =>
    /\ Free(ino, u) => /\ s.op = "start" /\ s.at = u => w.start[u] \in {TAIL, new[f].start}
                       /\ ~(s.op = "start" /\ s.at = u) => w.start[u] = v.start[u]
    /\ s.op = "live" /\ s.at = u => w.live[u]
    /\ ~(s.op = "live" /\ s.at = u) => w.live[u] = v.live[u]

LEMMA LeadingStep ==
  ASSUME NEW v \in Volume, NEW r \in Rams, Distinct(r.ino), NEW new, NEW s \in Leading(r.ino, new)
  PROVE  /\ NextRam(r, s) \in Rams /\ NextRam(r, s).ino = r.ino
         /\ Keeps(v, Apply(v, s), r.ino, s) /\ Prepares(v, Apply(v, s), r.ino, new, s)
<1> USE DEF Keeps, Prepares
<1> DEFINE w == Apply(v, s)
<1>1. s \in StepSet
  BY LeadingSteps
<1>2. v.start \in [Slot -> Cluster \cup {TAIL}] /\ v.live \in [Slot -> BOOLEAN]
  BY DEF Volume
<1>3. CASE s \in StartSteps
  <2>1. s.op = "start" /\ s.at \in Slot /\ s.val \in Cluster \cup {TAIL} /\ s \notin LiveSteps
    BY <1>1, <1>3, Kinds
  <2>2. w.start = [v.start EXCEPT ![s.at] = s.val] /\ w.live = v.live
    BY <1>3, ApplyEntries
  <2>3. NextRam(r, s) = r
    BY <2>1 DEF NextRam
  <2> HIDE DEF w
  <2>4. w.start[s.at] = s.val /\ \A u \in Slot : u # s.at => w.start[u] = v.start[u]
    BY <1>2, <2>1, <2>2
  <2>5. \/ \E f \in File : Owns(r.ino, f, s.at) /\ s.val = r.ino[f].start
        \/ (Free(r.ino, s.at) /\ \A f \in File : Owns(new, f, s.at) => s.val \in {TAIL, new[f].start})
    <3>1. s \notin DataSteps /\ s \notin RamSteps({q \in Rams : q.ino = r.ino})
      BY <2>1 DEF DataSteps, FatSteps, LogSteps, FlushSteps, RamSteps
    <3>2. QED BY <2>1, <3>1 DEF Leading, Calm, LiveSteps
  <2>6. ASSUME NEW f \in File, NEW u \in Slot, Owns(r.ino, f, u)
        PROVE  w.start[u] \in {v.start[u], r.ino[f].start} /\ (s = Start(u, TAIL) => w.start[u] = TAIL)
    <3>1. CASE u = s.at
      <4>1. ~Free(r.ino, s.at)
        BY <2>6, <3>1 DEF Free
      <4>2. PICK h \in File : Owns(r.ino, h, s.at) /\ s.val = r.ino[h].start
        BY <2>5, <4>1
      <4>3. h = f
        BY <2>6, <3>1, <4>2 DEF Distinct
      <4>4. s = Start(u, TAIL) => s.val = TAIL
        BY DEF Start
      <4>5. QED BY <2>4, <3>1, <4>2, <4>3, <4>4
    <3>2. CASE u # s.at
      <4>1. s # Start(u, TAIL)
        BY <3>2 DEF Start
      <4>2. QED BY <2>4, <3>2, <4>1
    <3>3. QED BY <3>1, <3>2
  <2>7. ASSUME NEW f \in File, NEW u \in Slot, Owns(new, f, u), Free(r.ino, u), s.at = u
        PROVE  w.start[u] \in {TAIL, new[f].start}
    <3>1. ~ \E h \in File : Owns(r.ino, h, s.at) /\ s.val = r.ino[h].start
      BY <2>7 DEF Free
    <3>2. s.val \in {TAIL, new[f].start}
      BY <2>5, <2>7, <3>1
    <3>3. QED BY <2>4, <2>7, <3>2
  <2>8. QED BY <2>1, <2>2, <2>3, <2>4, <2>6, <2>7 DEF w
<1>4. CASE s \in LiveSteps
  <2>1. s.op = "live" /\ s.at \in Slot /\ s.val \in BOOLEAN
    BY <1>1, <1>4, Kinds
  <2>2. w.live = [v.live EXCEPT ![s.at] = s.val] /\ w.start = v.start
    BY <1>4, ApplyEntries
  <2>3. NextRam(r, s) = r
    BY <2>1 DEF NextRam
  <2> HIDE DEF w
  <2>4. w.live[s.at] = s.val /\ \A u \in Slot : u # s.at => w.live[u] = v.live[u]
    BY <1>2, <2>1, <2>2
  <2>5. \A f \in File : Owns(new, f, s.at) => s.val = TRUE
    <3>1. s \notin DataSteps /\ s \notin RamSteps({q \in Rams : q.ino = r.ino}) /\ s \notin StartSteps
      BY <2>1 DEF DataSteps, FatSteps, LogSteps, FlushSteps, RamSteps, StartSteps
    <3>2. QED BY <3>1 DEF Leading, Calm
  <2>6. \A u \in Slot : s # Start(u, TAIL)
    BY <2>1 DEF Start
  <2>7. QED BY <2>1, <2>2, <2>3, <2>4, <2>5, <2>6 DEF w
<1>5. CASE s \notin StartSteps /\ s \notin LiveSteps
  <2>1. s.op # "start" /\ s.op # "live"
    BY <1>1, <1>5, Kinds
  <2>2. s \in DataSteps \cup RamSteps(Rams)
    BY <1>1, <1>5 DEF StepSet
  <2>3. w.start = v.start /\ w.live = v.live
    BY <2>2, ApplyEntries
  <2>4. s \in Calm(r.ino)
    BY <1>5 DEF Leading
  <2>5. NextRam(r, s) \in Rams /\ NextRam(r, s).ino = r.ino
    BY <2>4, NextRamCalm
  <2>6. \A u \in Slot : s # Start(u, TAIL)
    BY <2>1 DEF Start
  <2> HIDE DEF w
  <2>7. QED BY <2>1, <2>3, <2>5, <2>6 DEF w
<1>6. QED BY <1>3, <1>4, <1>5

\* What Settles asks of an entry, once the first step before the turn has run.
LEMMA SettlesStep ==
  ASSUME NEW v \in Volume, NEW r \in Rams, Distinct(r.ino), NEW new,
         NEW a \in Seq(Leading(r.ino, new)), a # <<>>, NEW b,
         NEW f \in File, NEW u \in Slot, Owns(new, f, u),
         Settles(v, r.ino, a, b, u, new[f].start)
  PROVE  Settles(Apply(v, Head(a)), r.ino, Tail(a), b, u, new[f].start)
<1> DEFINE s == Head(a)
           w == Apply(v, s)
           z == Tail(a)
<1>1. s \in Leading(r.ino, new) /\ s = a[1] /\ Len(a) \in Nat /\ Len(z) = Len(a) - 1
      /\ \A i \in 1..(Len(a) - 1) : z[i] = a[i + 1]
  <2> DEFINE L == Leading(r.ino, new)
  <2>1. a \in Seq(L)
    OBVIOUS
  <2> HIDE DEF L
  <2>2. QED BY <2>1 DEF L
<1> HIDE DEF s, z
<1>2. ASSUME NEW k, Mentions(a, k, u) PROVE Mentions(z, k, u) \/ (s.op = k /\ s.at = u)
  <2>1. PICK i \in 1..Len(a) : a[i].op = k /\ a[i].at = u
    BY <1>2 DEF Mentions
  <2>2. CASE i = 1
    BY <1>1, <2>1, <2>2
  <2>3. CASE i # 1
    <3>1. i - 1 \in 1..(Len(a) - 1) /\ i - 1 + 1 = i
      BY <1>1, <2>1, <2>3
    <3>2. z[i - 1] = a[i] /\ i - 1 \in 1..Len(z)
      BY <1>1, <3>1
    <3>3. QED BY <2>1, <3>2 DEF Mentions
  <2>4. QED BY <2>2, <2>3
<1>3. /\ Free(r.ino, u) => /\ s.op = "start" /\ s.at = u => w.start[u] \in {TAIL, new[f].start}
                           /\ ~(s.op = "start" /\ s.at = u) => w.start[u] = v.start[u]
      /\ s.op = "live" /\ s.at = u => w.live[u]
      /\ ~(s.op = "live" /\ s.at = u) => w.live[u] = v.live[u]
  <2>1. Prepares(v, w, r.ino, new, s)
    BY <1>1, LeadingStep
  <2> HIDE DEF w
  <2>2. QED BY <2>1 DEF Prepares
<1> HIDE DEF w
<1>4. Free(r.ino, u) => w.start[u] \in {TAIL, new[f].start} \/ Mentions(z, "start", u)
  BY <1>2, <1>3 DEF Settles
<1>5. w.live[u] \/ Mentions(z, "live", u)
  BY <1>2, <1>3 DEF Settles
<1>6. Settles(w, r.ino, z, b, u, new[f].start)
  BY <1>4, <1>5 DEF Settles
<1>7. QED BY <1>6 DEF w, z, s

LEMMA OneElement ==
  ASSUME NEW S, NEW m \in Seq(S), Len(m) = 1
  PROVE  m[1] \in S /\ Head(m) = m[1] /\ Tail(m) = <<>>
<1>1. m # <<>>
  OBVIOUS
<1>2. Tail(m) \in Seq(S) /\ Len(Tail(m)) = 0 /\ Head(m) \in S
  BY <1>1, HeadTailProperties
<1>3. Head(m) = m[1]
  BY DEF Head
<1>4. Tail(m) = <<>>
  BY <1>2, EmptySeq
<1>5. QED BY <1>2, <1>3, <1>4

\* One step of a plan that still has the inodes turn.
LEMMA TurnsStep ==
  ASSUME NEW v \in Volume, NEW r \in Rams, NEW t \in Seq(StepSet), t # <<>>,
         Distinct(r.ino), Agrees(v, r, t), Turns(v, r, t)
  PROVE  LET s == Head(t)
             w == Apply(v, s)
             q == NextRam(r, s)
         IN /\ q \in Rams /\ Distinct(q.ino) /\ Agrees(w, q, Tail(t))
            /\ Quiet(w, q, Tail(t)) \/ Turns(w, q, Tail(t))
<1> DEFINE s == Head(t)
           w == Apply(v, s)
           q == NextRam(r, s)
<1>1. PICK a, m, x, b : TurnsBy(v, r, t, a, m, x, b)
  BY DEF Turns
<1> DEFINE new == x.ram.ino
           R == RamSteps(Rams)
           L == Leading(r.ino, new)
           K == Calm(new)
<1>2. /\ t = a \o m \o <<x>> \o b
      /\ x \in R /\ Distinct(new) /\ a \in Seq(L) /\ b \in Seq(K) /\ m \in Seq(R)
      /\ m # <<>> => Len(m) = 1 /\ Sheds(r.ino, m[1].ram.ino, new)
  BY <1>1 DEF TurnsBy
<1>3. \A f \in File, u \in Slot : Owns(new, f, u) => Settles(v, r.ino, a, b, u, new[f].start)
  BY <1>1 DEF TurnsBy
<1>4. x.ram \in Rams
  BY <1>2 DEF RamSteps
<1>5. L \subseteq StepSet /\ K \subseteq StepSet /\ R \subseteq StepSet
  BY <1>4, LeadingSteps, CalmSteps DEF StepSet
<1> HIDE DEF s, w, q, new, R, L, K
<1>6. a \in Seq(StepSet) /\ m \in Seq(StepSet) /\ <<x>> \in Seq(StepSet) /\ b \in Seq(StepSet)
  BY <1>2, <1>5
<1>7. CASE a # <<>>
  <2> DEFINE z == Tail(a)
             p == a \o m
  <2>1. Head(p) = Head(a) /\ Tail(p) = z \o m /\ p # <<>> /\ p \in Seq(StepSet)
    BY <1>6, <1>7, HeadConcat
  <2> DEFINE xs == <<x>>
             o == p \o xs
  <2>2. Head(o) = Head(p) /\ Tail(o) = Tail(p) \o xs /\ o # <<>> /\ o \in Seq(StepSet)
    <3>1. xs \in Seq(StepSet)
      BY <1>6
    <3> HIDE DEF p, xs
    <3>2. Head(p \o xs) = Head(p) /\ Tail(p \o xs) = Tail(p) \o xs /\ p \o xs # <<>>
      BY <2>1, <3>1, HeadConcat
    <3>3. QED BY <2>1, <3>1, <3>2
  <2>3. Head(o \o b) = Head(o) /\ Tail(o \o b) = Tail(o) \o b
    <3> HIDE DEF o
    <3>1. b \in Seq(StepSet) /\ o \in Seq(StepSet) /\ o # <<>>
      BY <1>6, <2>2
    <3>2. QED BY <3>1, HeadConcat
  <2>4. t = o \o b
    BY <1>2
  <2> HIDE DEF p, o
  <2>5. s = Head(a) /\ Tail(t) = z \o m \o <<x>> \o b
    BY <2>1, <2>2, <2>3, <2>4 DEF s
  <2>6. s \in L /\ z \in Seq(L)
    BY <1>2, <1>7, <2>5
  <2>7. /\ q \in Rams /\ q.ino = r.ino
        /\ Keeps(v, w, r.ino, s)
    BY <2>6, LeadingStep DEF q, w, L
  <2>8. Agrees(w, q, Tail(t))
    <3>1. ASSUME NEW f \in File, NEW u \in Slot, Owns(r.ino, f, u)
          PROVE  w.start[u] \in {TAIL, r.ino[f].start}
      <4>1. w.start[u] \in {v.start[u], r.ino[f].start} /\ (s = Start(u, TAIL) => w.start[u] = TAIL)
        BY <2>7, <3>1 DEF Keeps
      <4>2. \/ v.start[u] \in {TAIL, r.ino[f].start}
            \/ s = Start(u, TAIL)
        BY <3>1 DEF Agrees, s
      <4>3. QED BY <4>1, <4>2
    <3>2. QED BY <2>7, <3>1 DEF Agrees
  <2>9. ASSUME NEW f \in File, NEW u \in Slot, Owns(new, f, u)
        PROVE  Settles(w, q.ino, z, b, u, new[f].start)
    <3>1. Settles(v, r.ino, a, b, u, new[f].start)
      BY <1>3, <2>9
    <3>2. Settles(Apply(v, Head(a)), r.ino, z, b, u, new[f].start)
      <4> HIDE DEF z
      <4>1. Settles(Apply(v, Head(a)), r.ino, Tail(a), b, u, new[f].start)
        BY <1>2, <1>7, <2>9, <3>1, SettlesStep DEF L
      <4>2. QED BY <4>1 DEF z
    <3>3. QED BY <2>5, <2>7, <3>2 DEF w
  <2> HIDE DEF z
  <2>10. TurnsBy(w, q, Tail(t), z, m, x, b)
    BY <1>2, <2>5, <2>6, <2>7, <2>9 DEF TurnsBy, new, R, L, K
  <2>11. Turns(w, q, Tail(t))
    BY <2>10 DEF Turns
  <2>12. Distinct(q.ino)
    BY <2>7
  <2>13. QED BY <2>7, <2>8, <2>11, <2>12 DEF s, w, q
<1>8. CASE a = <<>> /\ m # <<>>
  <2> DEFINE mid == m[1].ram.ino
             o == m \o <<x>>
  <2>1. Len(m) = 1 /\ Sheds(r.ino, mid, new) /\ Head(m) = m[1] /\ Tail(m) = <<>> /\ m[1] \in R
    <3>1. Len(m) = 1 /\ Sheds(r.ino, mid, new) /\ m \in Seq(R)
      BY <1>2, <1>8
    <3>2. m[1] \in R /\ Head(m) = m[1] /\ Tail(m) = <<>>
      BY <3>1, OneElement
    <3>3. QED BY <3>1, <3>2
  <2> DEFINE xs == <<x>>
  <2>2. Head(o) = m[1] /\ Tail(o) = <<>> \o <<x>> /\ o # <<>> /\ o \in Seq(StepSet)
    <3>1. xs \in Seq(StepSet)
      BY <1>6
    <3> HIDE DEF xs
    <3>2. Head(m \o xs) = Head(m) /\ Tail(m \o xs) = Tail(m) \o xs /\ m \o xs # <<>>
      BY <1>6, <1>8, <3>1, HeadConcat
    <3>3. m \o xs \in Seq(StepSet)
      BY <1>6, <3>1
    <3>4. QED BY <2>1, <3>2, <3>3 DEF xs
  <2>3. Head(o \o b) = Head(o) /\ Tail(o \o b) = Tail(o) \o b
    <3> HIDE DEF o
    <3>1. b \in Seq(StepSet) /\ o \in Seq(StepSet) /\ o # <<>>
      BY <1>6, <2>2
    <3>2. QED BY <3>1, HeadConcat
  <2>4. t = o \o b
    <3>1. a \o m = m
      BY <1>6, <1>8
    <3>2. QED BY <1>2, <3>1
  <2> HIDE DEF o
  <2>5. s = m[1] /\ Tail(t) = <<>> \o <<>> \o <<x>> \o b
    <3>1. <<>> \o <<>> = <<>>
      BY ConcatEmptySeq
    <3>2. QED BY <2>2, <2>3, <2>4, <3>1 DEF s
  <2>6. s \in StepSet /\ s.op \in {"ram", "mark"} /\ s.ram \in Rams
    BY <1>5, <2>1, <2>5, Kinds DEF R
  <2>7. q = s.ram /\ q \in Rams /\ q.ino = mid
    BY <2>5, <2>6 DEF q, NextRam
  <2>8. w = v
    BY <2>6 DEF w, Apply
  <2>9. \A h \in File : /\ mid[h].st = "alloc" => mid[h] = r.ino[h]
                        /\ r.ino[h].st = "alloc" /\ mid[h].st # "alloc" => Free(new, r.ino[h].slot)
    BY <2>1 DEF Sheds
  <2> HIDE DEF mid
  <2>10. \A h \in File, u \in Slot : Owns(mid, h, u) => Owns(r.ino, h, u) /\ mid[h] = r.ino[h]
    BY <2>9 DEF Owns
  <2>11. Distinct(mid)
    BY <2>10 DEF Distinct
  <2>12. \A u \in Slot : s # Start(u, TAIL)
    BY <2>6 DEF Start
  <2>13. Agrees(w, q, Tail(t))
    BY <2>7, <2>8, <2>10, <2>12 DEF Agrees, s
  <2>14. ASSUME NEW f \in File, NEW u \in Slot, Owns(new, f, u)
         PROVE  Settles(w, mid, <<>>, b, u, new[f].start)
    <3>1. Settles(v, r.ino, a, b, u, new[f].start)
      BY <1>3, <2>14
    <3>2. ~Mentions(<<>>, "start", u) /\ ~Mentions(<<>>, "live", u)
      BY DEF Mentions
    <3>3. \A h \in File : Owns(mid, h, u) =>
            mid[h].start \in {TAIL, new[f].start} \/ (new[f].start = TAIL /\ b # <<>> /\ Head(b) = Start(u, TAIL))
      BY <2>10, <3>1 DEF Settles
    <3>4. v.live[u]
      BY <1>8, <3>1, <3>2 DEF Settles
    <3>5. ASSUME Free(mid, u) PROVE v.start[u] \in {TAIL, new[f].start}
      <4>1. CASE Free(r.ino, u)
        BY <1>8, <3>1, <3>2, <4>1 DEF Settles
      <4>2. CASE ~Free(r.ino, u)
        <5>1. PICK h \in File : Owns(r.ino, h, u)
          BY <4>2 DEF Free
        <5>2. mid[h].st # "alloc"
          BY <2>9, <3>5, <5>1 DEF Free, Owns
        <5>3. Free(new, u)
          BY <2>9, <5>1, <5>2 DEF Owns
        <5>4. QED BY <2>14, <5>3 DEF Free
      <4>3. QED BY <4>1, <4>2
    <3>6. QED BY <2>8, <3>3, <3>4, <3>5 DEF Settles
  <2>15. <<>> \in Seq(Leading(mid, new)) /\ <<>> \in Seq(R)
    OBVIOUS
  <2>16. TurnsBy(w, q, Tail(t), <<>>, <<>>, x, b)
    BY <1>2, <2>5, <2>7, <2>14, <2>15 DEF TurnsBy, new, R, K
  <2>17. Turns(w, q, Tail(t))
    BY <2>16 DEF Turns
  <2>18. QED BY <2>7, <2>11, <2>13, <2>17 DEF s, w, q
<1>9. CASE a = <<>> /\ m = <<>>
  <2>1. t = <<x>> \o b
    <3>1. a \o m \o <<x>> = <<x>>
      <4>1. a \o m = <<>>
        BY <1>9, ConcatEmptySeq
      <4>2. QED BY <1>6, <4>1, ConcatEmptySeq
    <3>2. QED BY <1>2, <3>1
  <2>2. s = x /\ Tail(t) = b
    <3>1. <<x>> # <<>> /\ Head(<<x>>) = x /\ Tail(<<x>>) = <<>>
      OBVIOUS
    <3>2. Head(<<x>> \o b) = x /\ Tail(<<x>> \o b) = <<>> \o b
      BY <1>6, <3>1, HeadConcat
    <3>3. <<>> \o b = b
      BY <1>6, ConcatEmptySeq
    <3>4. QED BY <2>1, <3>2, <3>3 DEF s
  <2>3. s \in StepSet /\ s.op \in {"ram", "mark"} /\ s.ram \in Rams
    BY <1>2, <1>5, <2>2, Kinds DEF R
  <2>4. q = x.ram /\ q \in Rams /\ q.ino = new
    BY <2>2, <2>3 DEF q, NextRam, new
  <2>5. w = v
    BY <2>3 DEF w, Apply
  <2>6. \A u \in Slot : s # Start(u, TAIL)
    BY <2>3 DEF Start
  <2>7. ASSUME NEW f \in File, NEW u \in Slot, Owns(new, f, u)
        PROVE  /\ v.live[u]
               /\ \/ v.start[u] \in {TAIL, new[f].start}
                  \/ (new[f].start = TAIL /\ b # <<>> /\ Head(b) = Start(u, TAIL))
    <3>1. Settles(v, r.ino, a, b, u, new[f].start)
      BY <1>3, <2>7
    <3>2. ~Mentions(<<>>, "start", u) /\ ~Mentions(<<>>, "live", u)
      BY DEF Mentions
    <3>3. v.live[u]
      BY <1>9, <3>1, <3>2 DEF Settles
    <3>4. CASE Free(r.ino, u)
      BY <1>9, <3>1, <3>2, <3>3, <3>4 DEF Settles
    <3>5. CASE ~Free(r.ino, u)
      <4>1. PICK h \in File : Owns(r.ino, h, u)
        BY <3>5 DEF Free
      <4>2. v.start[u] \in {TAIL, r.ino[h].start}
        BY <2>6, <4>1 DEF Agrees, s
      <4>3. r.ino[h].start \in {TAIL, new[f].start}
            \/ (new[f].start = TAIL /\ b # <<>> /\ Head(b) = Start(u, TAIL))
        BY <3>1, <4>1 DEF Settles
      <4>4. QED BY <3>3, <4>2, <4>3
    <3>6. QED BY <3>4, <3>5
  <2>8. Agrees(w, q, Tail(t))
    BY <2>2, <2>4, <2>5, <2>7 DEF Agrees
  <2>9. Quiet(w, q, Tail(t))
    BY <1>2, <2>2, <2>4, <2>5, <2>7 DEF Quiet, AllLive, K
  <2>10. Distinct(q.ino)
    BY <1>2, <2>4
  <2>11. QED BY <2>4, <2>8, <2>9, <2>10 DEF s, w, q
<1>10. QED BY <1>7, <1>8, <1>9

LEMMA ReplayStep ==
  ASSUME NEW t \in Seq(ReplaySet), t # <<>>
  PROVE  Tail(t) \in Seq(ReplaySet) /\ NextRam(NoRam, Head(t)) = NoRam
<1>1. Tail(t) \in Seq(ReplaySet) /\ Head(t) \in ReplaySet
  BY HeadTailProperties
<1> DEFINE s == Head(t)
<1> HIDE DEF s
<1>2. ASSUME s \in RamSteps({NoRam}) PROVE NextRam(NoRam, s) = NoRam
  BY <1>2 DEF RamSteps, NextRam
<1>3. ASSUME s \in DataSteps \cup StartSteps \cup LiveSteps PROVE NextRam(NoRam, s) = NoRam
  <2>1. s.op \notin {"ram", "mark"}
    BY <1>3 DEF DataSteps, FatSteps, LogSteps, FlushSteps, StartSteps, LiveSteps
  <2>2. QED BY <2>1 DEF NextRam
<1>4. s \in ReplaySet
  BY <1>1 DEF s
<1>5. NextRam(NoRam, s) = NoRam
  BY <1>2, <1>3, <1>4 DEF ReplaySet
<1>6. QED BY <1>1, <1>5 DEF s

LEMMA StepInv ==
  ASSUME JInv, Step
  PROVE  JInv'
<1> DEFINE s == Head(todo)
<1>1. /\ disk \in Volume /\ cache \in Volume
      /\ ram \in Rams /\ log \in Seq(RecSet) /\ todo \in Seq(StepSet)
      /\ sync \in {None} \cup [file : File, slot : Slot]
      /\ mode \in {"down", "replay", "orphans", "up"}
      /\ mode # "up" => ram = NoRam /\ todo \in Seq(ReplaySet)
      /\ mode = "up" => Entries
  BY DEF JInv, Types
<1>2. /\ todo # <<>> /\ cache' = Apply(cache, s) /\ todo' = Tail(todo)
      /\ log' = CASE s.op = "log" -> Append(log, s.rec)
                  [] s.op = "mark" -> <<>>
                  [] OTHER -> log
      /\ ram' = NextRam(ram, s)
      /\ disk' = disk /\ sync' = sync /\ mode' = mode
  BY DEF Step, NextRam
<1>3. s \in StepSet /\ Tail(todo) \in Seq(StepSet)
  BY <1>1, <1>2, HeadTailProperties
<1> HIDE DEF s
<1>4. cache' \in Volume
  BY <1>1, <1>2, <1>3, ApplyType
<1>5. log' \in Seq(RecSet)
  <2>1. CASE s.op = "log"
    <3>1. s.rec \in RecSet
      BY <1>3, <2>1, Kinds
    <3>2. log' = Append(log, s.rec)
      BY <1>2, <2>1
    <3>3. QED BY <1>1, <3>1, <3>2
  <2>2. CASE s.op = "mark"
    <3>1. log' = <<>>
      BY <1>2, <2>2
    <3>2. QED BY <3>1
  <2>3. CASE s.op # "log" /\ s.op # "mark"
    <3>1. log' = log
      BY <1>2, <2>3
    <3>2. QED BY <1>1, <3>1
  <2>4. QED BY <2>1, <2>2, <2>3
<1>6. ram' \in Rams
  <2>1. s.op \in {"ram", "mark"} => s.ram \in Rams
    BY <1>3, Kinds
  <2>2. QED BY <1>1, <1>2, <2>1 DEF NextRam
<1>7. mode # "up" => ram' = NoRam /\ todo' \in Seq(ReplaySet)
  BY <1>1, <1>2, ReplayStep DEF s
<1>8. Types'
  BY <1>1, <1>2, <1>3, <1>4, <1>5, <1>6, <1>7 DEF Types
<1>9. ASSUME mode = "up" PROVE Entries'
  <2>1. Distinct(ram.ino) /\ Agrees(cache, ram, todo)
        /\ (Quiet(cache, ram, todo) \/ Turns(cache, ram, todo))
    BY <1>1, <1>9 DEF Entries
  <2>2. CASE Quiet(cache, ram, todo)
    <3>1. /\ Distinct(ram'.ino) /\ Agrees(cache', ram', todo') /\ Quiet(cache', ram', todo')
      BY <1>1, <1>2, <2>1, <2>2, QuietStep DEF s
    <3>2. QED BY <3>1 DEF Entries
  <2>3. CASE Turns(cache, ram, todo)
    <3>1. /\ Distinct(ram'.ino) /\ Agrees(cache', ram', todo')
          /\ (Quiet(cache', ram', todo') \/ Turns(cache', ram', todo'))
      BY <1>1, <1>2, <2>1, <2>3, TurnsStep DEF s
    <3>2. QED BY <3>1 DEF Entries
  <2>4. QED BY <2>1, <2>2, <2>3
<1>10. QED BY <1>2, <1>8, <1>9 DEF JInv

-----------------------------------------------------------------------------
(***************************************************************************)
(* The kernel's part, the power loss and the mount.                        *)
(***************************************************************************)
\* Writing its start cluster to the entry of an inode disturbs nothing.
LEMMA SyncKeeps ==
  ASSUME NEW v \in Volume, NEW r \in Rams, Distinct(r.ino), NEW f \in File, NEW u \in Slot,
         Owns(r.ino, f, u), NEW t,
         Agrees(v, r, t), Quiet(v, r, t) \/ Turns(v, r, t),
         NEW w, w = Apply(v, Start(u, r.ino[f].start))
  PROVE  /\ w \in Volume /\ Agrees(w, r, t)
         /\ Quiet(w, r, t) \/ Turns(w, r, t)
<1> DEFINE c == r.ino[f].start
           s == Start(u, c)
<1>1. c \in Cluster \cup {TAIL}
  BY RamFields DEF Inodes
<1>2. s \in StartSteps /\ s.at = u /\ s.val = c
  <2> HIDE DEF c
  <2>1. QED BY <1>1, StepTypes DEF Start
<1> HIDE DEF s
<1>3. w = Apply(v, s)
  BY DEF s
<1>4. w \in Volume
  <2>1. s \in StepSet
    BY <1>2 DEF StepSet
  <2>2. QED BY <1>3, <2>1, ApplyType
<1>5. w.live = v.live /\ w.start[u] = c /\ \A x \in Slot : x # u => w.start[x] = v.start[x]
  <2> DEFINE y == Apply(v, s)
  <2>0. y.live = v.live /\ y.start = [v.start EXCEPT ![s.at] = s.val]
    BY <1>2, ApplyEntries
  <2>1. w.live = v.live /\ w.start = [v.start EXCEPT ![s.at] = s.val]
    <3> HIDE DEF y
    <3>1. w = y
      BY <1>3 DEF y
    <3>2. QED BY <2>0, <3>1
  <2>2. v.start \in [Slot -> Cluster \cup {TAIL}]
    BY DEF Volume
  <2> HIDE DEF c
  <2>3. QED BY <1>2, <2>1, <2>2
<1>6. Agrees(w, r, t)
  <2>1. ASSUME NEW h \in File, NEW x \in Slot, Owns(r.ino, h, x)
        PROVE  \/ w.start[x] \in {TAIL, r.ino[h].start}
               \/ r.ino[h].start = TAIL /\ t # <<>> /\ Head(t) = Start(x, TAIL)
    <3>1. CASE x = u
      BY <1>5, <2>1, <3>1 DEF Distinct
    <3>2. CASE x # u
      BY <1>5, <2>1, <3>2 DEF Agrees
    <3>3. QED BY <3>1, <3>2
  <2>2. QED BY <2>1 DEF Agrees
<1>7. CASE Quiet(v, r, t)
  BY <1>4, <1>5, <1>6, <1>7 DEF Quiet, AllLive
<1>8. CASE Turns(v, r, t)
  <2>1. PICK a, m, x, b : TurnsBy(v, r, t, a, m, x, b)
    BY <1>8 DEF Turns
  <2> DEFINE new == x.ram.ino
  <2>2. ASSUME NEW h \in File, NEW y \in Slot, Owns(new, h, y)
        PROVE  Settles(w, r.ino, a, b, y, new[h].start)
    <3>1. Settles(v, r.ino, a, b, y, new[h].start)
      BY <2>1, <2>2 DEF TurnsBy
    <3>2. Free(r.ino, y) => y # u
      BY DEF Free
    <3>3. QED BY <1>5, <3>1, <3>2 DEF Settles
  <2>3. TurnsBy(w, r, t, a, m, x, b)
    BY <2>1, <2>2 DEF TurnsBy
  <2>4. QED BY <1>4, <1>6, <2>3 DEF Turns
<1>9. QED BY <1>7, <1>8

LEMMA KernelInv ==
  ASSUME JInv, Kernel
  PROVE  JInv'
<1>1. /\ disk \in Volume /\ cache \in Volume
      /\ ram \in Rams /\ log \in Seq(RecSet) /\ todo \in Seq(StepSet)
      /\ sync \in {None} \cup [file : File, slot : Slot]
      /\ mode \in {"down", "replay", "orphans", "up"}
      /\ mode # "up" => ram = NoRam /\ todo \in Seq(ReplaySet)
      /\ mode = "up" => Entries
  BY DEF JInv, Types
<1>2. ASSUME NEW c \in FatIndex, WriteFat(c) PROVE JInv'
  <2>1. disk' = [disk EXCEPT !.fat[c] = cache.fat[c]]
        /\ UNCHANGED <<cache, log, ram, todo, sync, mode>>
    BY <1>2 DEF WriteFat
  <2>2. disk' \in Volume
    BY <1>1, <2>1 DEF Volume
  <2>3. Types'
    BY <1>1, <2>1, <2>2 DEF Types
  <2>4. Entries => Entries'
    BY <2>1 DEF Entries
  <2>5. QED BY <1>1, <2>1, <2>3, <2>4 DEF JInv
<1>3. ASSUME NEW s \in Slot, WriteEntry(s) PROVE JInv'
  <2> DEFINE q == [disk EXCEPT !.live[s] = cache.live[s]]
  <2>1. disk' = [q EXCEPT !.start[s] = cache.start[s]]
        /\ UNCHANGED <<cache, log, ram, todo, sync, mode>>
    BY <1>3 DEF WriteEntry
  <2>2. q \in Volume
    BY <1>1 DEF Volume
  <2>3. disk' \in Volume
    <3> HIDE DEF q
    <3>1. QED BY <1>1, <2>1, <2>2 DEF Volume
  <2>4. Types'
    BY <1>1, <2>1, <2>3 DEF Types
  <2>5. Entries => Entries'
    BY <2>1 DEF Entries
  <2>6. QED BY <1>1, <2>1, <2>4, <2>5 DEF JInv
<1>4. ASSUME NEW f \in File, NEW u \in Slot, mode = "up", Owns(ram.ino, f, u),
             cache' = Apply(cache, Start(u, ram.ino[f].start)),
             UNCHANGED <<disk, log, ram, todo, mode>>,
             sync' \in {None} \cup [file : File, slot : Slot]
      PROVE  JInv'
  <2>1. Distinct(ram.ino) /\ Agrees(cache, ram, todo)
        /\ (Quiet(cache, ram, todo) \/ Turns(cache, ram, todo))
    BY <1>1, <1>4 DEF Entries
  <2>2. /\ cache' \in Volume /\ Agrees(cache', ram, todo)
        /\ Quiet(cache', ram, todo) \/ Turns(cache', ram, todo)
    BY <1>1, <1>4, <2>1, SyncKeeps
  <2>3. Types'
    BY <1>1, <1>4, <2>2 DEF Types
  <2>4. Entries'
    BY <1>4, <2>1, <2>2 DEF Entries
  <2>5. QED BY <2>3, <2>4 DEF JInv
<1>5. ASSUME NEW f \in File, SyncInode(f) PROVE JInv'
  <2>1. /\ mode = "up" /\ ram.ino[f].st = "alloc"
        /\ cache' = Apply(cache, Start(ram.ino[f].slot, ram.ino[f].start))
        /\ UNCHANGED <<disk, log, ram, todo, sync, mode>>
    BY <1>5 DEF SyncInode
  <2>2. ram.ino[f].slot \in Slot /\ Owns(ram.ino, f, ram.ino[f].slot)
    BY <1>1, <2>1, RamFields DEF InodeOK, Owns
  <2>3. sync' \in {None} \cup [file : File, slot : Slot]
    BY <1>1, <2>1
  <2>4. QED BY <1>4, <2>1, <2>2, <2>3
<1>6. ASSUME NEW f \in File, SyncFind(f) PROVE JInv'
  <2>1. /\ mode = "up" /\ ram.ino[f].st = "alloc"
        /\ sync' = [file |-> f, slot |-> ram.ino[f].slot]
        /\ UNCHANGED <<disk, cache, log, ram, todo, mode>>
    BY <1>6 DEF SyncFind
  <2>2. ram.ino[f].slot \in Slot
    BY <1>1, <2>1, RamFields DEF InodeOK
  <2>3. Types'
    BY <1>1, <2>1, <2>2 DEF Types
  <2>4. Entries => Entries'
    BY <2>1 DEF Entries
  <2>5. QED BY <1>1, <2>1, <2>3, <2>4 DEF JInv
<1>7. ASSUME SyncWrite PROVE JInv'
  <2>1. /\ mode = "up" /\ sync # None /\ sync' = None
        /\ cache' = IF SyncAllowed(ram.ino[sync.file], sync.slot)
                    THEN Apply(cache, Start(sync.slot, ram.ino[sync.file].start)) ELSE cache
        /\ UNCHANGED <<disk, log, ram, todo, mode>>
    BY <1>7 DEF SyncWrite
  <2>2. sync.file \in File /\ sync.slot \in Slot
    BY <1>1, <2>1
  <2>3. CASE SyncAllowed(ram.ino[sync.file], sync.slot)
    <3>1. Owns(ram.ino, sync.file, sync.slot)
      BY <2>3 DEF SyncAllowed, Owns
    <3>2. QED BY <1>4, <2>1, <2>2, <2>3, <3>1
  <2>4. CASE ~SyncAllowed(ram.ino[sync.file], sync.slot)
    <3>1. cache' = cache
      BY <2>1, <2>4
    <3>2. Types'
      BY <1>1, <2>1, <3>1 DEF Types
    <3>3. Entries => Entries'
      BY <2>1, <3>1 DEF Entries
    <3>4. QED BY <1>1, <2>1, <3>2, <3>3 DEF JInv
  <2>5. QED BY <2>3, <2>4
<1>8. QED BY <1>2, <1>3, <1>5, <1>6, <1>7 DEF Kernel

\* The steps of a replay are steps.
LEMMA ReplayIsSteps == ReplaySet \subseteq StepSet
BY NoRamType DEF ReplaySet, StepSet, RamSteps

LEMMA MountSteps ==
  ASSUME NEW l \in Seq(RecSet)
  PROVE  If(l # <<>>, ReplaySteps(l) \o <<Flush, Mark(NoRam)>>) \in Seq(ReplaySet)
<1> DEFINE fin == <<Flush, Mark(NoRam)>>
<1>1. fin \in Seq(ReplaySet)
  <2>1. Flush \in ReplaySet /\ Mark(NoRam) \in ReplaySet
    BY StepTypes DEF ReplaySet, DataSteps
  <2>2. QED BY <2>1
<1>2. ReplaySteps(l) \in Seq(ReplaySet)
  BY ReplayStepsType
<1>3. ReplaySteps(l) \o fin \in Seq(ReplaySet)
  <2> HIDE DEF fin
  <2>1. QED BY <1>1, <1>2
<1>4. QED BY <1>3, IfType

\* The inode a lookup reads from an entry.
LEMMA LookupType ==
  ASSUME cache \in Volume, NEW s \in Slot
  PROVE  Inode(s) \in Inodes /\ InodeOK(Inode(s)) /\ Inode(s).st = "alloc"
         /\ Inode(s).slot = s /\ Inode(s).start = cache.start[s]
<1> DEFINE c == Chain(cache.fat, cache.start[s])
           l == IF c = <<>> THEN TAIL ELSE Last(c)
<1>1. cache.fat \in FatMap /\ cache.start[s] \in Cluster \cup {TAIL}
  BY DEF Volume, FatMap, FatVal
<1>2. c \in Seq(Cluster) /\ (c = <<>> <=> cache.start[s] = TAIL)
  BY <1>1, ChainType
<1>3. /\ Inode(s).st = "alloc" /\ Inode(s).slot = s /\ Inode(s).start = cache.start[s]
      /\ Inode(s).last = l
      /\ Inode(s) = [st |-> "alloc", slot |-> s, start |-> cache.start[s], last |-> l]
  BY DEF Inode
<1>4. IF cache.start[s] = TAIL THEN l = TAIL ELSE l \in Cluster
  <2> HIDE DEF c
  <2>1. c # <<>> => Last(c) \in Cluster
    BY <1>2 DEF Last
  <2>2. QED BY <1>2, <2>1
<1> HIDE DEF l
<1>5. TAIL \notin Cluster
  BY ConstantFacts
<1>6. Inode(s) \in Inodes
  BY <1>1, <1>3, <1>4 DEF Inodes
<1>7. InodeOK(Inode(s))
  BY <1>1, <1>3, <1>4, <1>5 DEF InodeOK
<1>8. QED BY <1>3, <1>6, <1>7

LEMMA MountedInv ==
  ASSUME JInv, Mounted
  PROVE  JInv'
<1>1. /\ disk \in Volume /\ cache \in Volume /\ log \in Seq(RecSet)
      /\ todo \in Seq(StepSet) /\ sync \in {None} \cup [file : File, slot : Slot]
      /\ mode # "up" => ram = NoRam
  BY DEF JInv, Types
<1>2. PICK g \in [LiveSlots -> File] :
        /\ \A s, t \in LiveSlots : g[s] = g[t] => s = t
        /\ ram' = [ram EXCEPT !.ino = [f \in File |->
                     IF \E s \in LiveSlots : g[s] = f
                     THEN Inode(CHOOSE s \in LiveSlots : g[s] = f) ELSE NoInode]]
  BY DEF Mounted
<1>3. mode = "orphans" /\ todo = <<>> /\ mode' = "up" /\ UNCHANGED <<disk, cache, log, todo, sync>>
  BY DEF Mounted
<1> DEFINE Of(f) == CHOOSE s \in LiveSlots : g[s] = f
           ino == [f \in File |-> IF \E s \in LiveSlots : g[s] = f THEN Inode(Of(f)) ELSE NoInode]
<1>4. LiveSlots \subseteq Slot /\ \A s \in LiveSlots : cache.live[s]
  BY DEF LiveSlots
<1>5. ASSUME NEW f \in File
      PROVE  /\ (\E s \in LiveSlots : g[s] = f) => Of(f) \in LiveSlots /\ g[Of(f)] = f
             /\ ino[f] = IF \E s \in LiveSlots : g[s] = f THEN Inode(Of(f)) ELSE NoInode
  OBVIOUS
<1>6. ram' = [ino |-> ino, segs |-> <<>>, writer |-> None, pre |-> <<>>]
  <2>1. ram = NoRam
    BY <1>1, <1>3
  <2>2. ram' = [NoRam EXCEPT !.ino = ino]
    BY <1>2, <2>1
  <2> HIDE DEF ino
  <2>3. QED BY <2>2 DEF NoRam
<1> HIDE DEF Of
<1>7. NoInode \in Inodes /\ InodeOK(NoInode) /\ NoInode.st = "none"
  BY DEF NoInode, Inodes, InodeOK
<1>8. ASSUME NEW f \in File
      PROVE  /\ ino[f] \in Inodes /\ InodeOK(ino[f]) /\ ino[f].st # "free"
             /\ ino[f].st = "alloc" =>
                  /\ ino[f].slot \in LiveSlots /\ g[ino[f].slot] = f
                  /\ ino[f].start = cache.start[ino[f].slot]
  <2>1. CASE \E s \in LiveSlots : g[s] = f
    <3>1. Of(f) \in LiveSlots /\ g[Of(f)] = f /\ ino[f] = Inode(Of(f))
      BY <1>5, <2>1
    <3> HIDE DEF ino
    <3>2. /\ Inode(Of(f)) \in Inodes /\ InodeOK(Inode(Of(f))) /\ Inode(Of(f)).st = "alloc"
          /\ Inode(Of(f)).slot = Of(f) /\ Inode(Of(f)).start = cache.start[Of(f)]
      BY <1>1, <1>4, <3>1, LookupType
    <3>3. QED BY <3>1, <3>2
  <2>2. CASE ~\E s \in LiveSlots : g[s] = f
    <3>1. ino[f] = NoInode
      BY <1>5, <2>2
    <3> HIDE DEF ino
    <3>2. QED BY <1>7, <3>1
  <2>3. QED BY <2>1, <2>2
<1>9. ino \in [File -> Inodes]
  <2>1. ino = [f \in File |-> ino[f]]
    OBVIOUS
  <2> HIDE DEF ino
  <2>2. QED BY <1>8, <2>1
<1> HIDE DEF ino
<1>10. ram' \in Rams
  <2>1. Hung(ino) = {}
    BY <1>8 DEF Hung
  <2>2. ToSet(<<>>) = {} /\ IsInjective(<<>>) /\ <<>> \in Seq(File) /\ <<>> \in Seq(Cluster)
    BY DEF ToSet, IsInjective
  <2>3. QED BY <1>6, <1>8, <1>9, <2>1, <2>2, RamIntro
<1>11. Types'
  BY <1>1, <1>3, <1>10 DEF Types
<1>12. ram'.ino = ino
  BY <1>6
<1>13. ASSUME NEW f \in File, NEW s \in Slot, Owns(ino, f, s)
       PROVE  s \in LiveSlots /\ g[s] = f /\ ino[f].start = cache.start[s]
  BY <1>8, <1>13 DEF Owns
<1>14. Distinct(ino)
  BY <1>2, <1>13 DEF Distinct
<1>15. Agrees(cache', ram', todo')
  BY <1>3, <1>12, <1>13 DEF Agrees
<1>16. Quiet(cache', ram', todo')
  <2>1. AllLive(cache', ram')
    BY <1>3, <1>4, <1>12, <1>13 DEF AllLive
  <2>2. todo' \in Seq(Calm(ram'.ino))
    BY <1>3
  <2>3. QED BY <2>1, <2>2 DEF Quiet
<1>17. Entries'
  BY <1>12, <1>14, <1>15, <1>16 DEF Entries
<1>18. QED BY <1>11, <1>17 DEF JInv

LEMMA RestartInv ==
  ASSUME JInv, PowerOff \/ Mount \/ FreeOrphans
  PROVE  JInv'
<1>1. /\ disk \in Volume /\ cache \in Volume
      /\ ram \in Rams /\ log \in Seq(RecSet) /\ todo \in Seq(StepSet)
      /\ sync \in {None} \cup [file : File, slot : Slot]
      /\ mode # "up" => ram = NoRam /\ todo \in Seq(ReplaySet)
  BY DEF JInv, Types
<1>2. /\ cache' \in Volume /\ todo' \in Seq(ReplaySet)
      /\ ram' = NoRam /\ log' = log /\ disk' = disk
      /\ sync' \in {None} \cup [file : File, slot : Slot]
      /\ mode' \in {"down", "replay", "orphans"}
  <2>1. CASE PowerOff
    BY <1>1, <2>1 DEF PowerOff
  <2>2. CASE Mount
    <3>1. /\ mode = "down" /\ mode' = "replay"
          /\ todo' = If(log # <<>>, ReplaySteps(log) \o <<Flush, Mark(NoRam)>>)
          /\ UNCHANGED <<disk, cache, log, ram, sync>>
      BY <2>2 DEF Mount
    <3>2. todo' \in Seq(ReplaySet)
      BY <1>1, <3>1, MountSteps
    <3>3. QED BY <1>1, <3>1, <3>2
  <2>3. CASE FreeOrphans
    <3>1. /\ mode = "replay" /\ mode' = "orphans" /\ todo' = OrphanSteps(cache)
          /\ UNCHANGED <<disk, cache, log, ram, sync>>
      BY <2>3 DEF FreeOrphans
    <3>2. todo' \in Seq(ReplaySet)
      BY <1>1, <3>1, OrphanStepsType
    <3>3. QED BY <1>1, <3>1, <3>2
  <2>4. QED BY <2>1, <2>2, <2>3
<1>3. todo' \in Seq(StepSet)
  BY <1>2, ReplayIsSteps
<1>4. Types'
  BY <1>1, <1>2, <1>3, NoRamType DEF Types
<1>5. QED BY <1>2, <1>4 DEF JInv

LEMMA InitInv ==
  ASSUME Init
  PROVE  JInv
<1>1. disk \in Volume
  <2>1. [c \in FatIndex |-> IF c = Log THEN TAIL ELSE FREE] \in [FatIndex -> Cluster \cup {FREE, TAIL}]
    OBVIOUS
  <2>2. QED BY <2>1 DEF Init, Volume
<1>2. /\ cache = disk /\ log = <<>> /\ ram = NoRam /\ todo = <<>> /\ sync = None /\ mode = "up"
  BY DEF Init
<1>3. Types
  BY <1>1, <1>2, NoRamType DEF Types
<1>4. \A f \in File, s \in Slot : ~Owns(ram.ino, f, s)
  BY <1>2, NoRamType DEF Owns
<1>5. Distinct(ram.ino) /\ Agrees(cache, ram, todo) /\ AllLive(cache, ram)
  BY <1>4 DEF Distinct, Agrees, AllLive
<1>6. Quiet(cache, ram, todo)
  BY <1>2, <1>5 DEF Quiet
<1>7. QED BY <1>3, <1>5, <1>6 DEF JInv, Entries

\* JInv depends on the variables alone.
LEMMA StutterInv ==
  ASSUME JInv, UNCHANGED vars
  PROVE  JInv'
<1>1. /\ disk' = disk /\ cache' = cache /\ log' = log /\ ram' = ram
      /\ todo' = todo /\ sync' = sync /\ mode' = mode
  BY DEF vars
<1>2. Types' /\ (Entries => Entries')
  BY <1>1 DEF JInv, Types, Entries
<1>3. QED BY <1>1, <1>2 DEF JInv

-----------------------------------------------------------------------------
\* What an operation of the file system plans, a step of it, a block or an entry
\* the kernel writes back, a power loss and a mount leave the in-core inodes
\* and the entries on the volume in agreement, as JInv states it.
THEOREM JournalInv == Spec => []JInv
<1>1. Init => JInv
  BY InitInv
<1>2. JInv /\ [Next]_vars => JInv'
  BY OperationInv, StepInv, KernelInv, RestartInv, MountedInv, StutterInv DEF Next
<1>3. QED BY <1>1, <1>2, PTL DEF Spec

\* In every reachable state the FAT, the entries and the in-core state have
\* their types; the candidate list of log.c holds the unlinked inodes that have
\* clusters, each once, and the pre-allocated clusters are distinct.
THEOREM TypeCorrect == Spec => []TypeOK
<1>1. JInv => TypeOK
  <2>1. ASSUME JInv PROVE TypeOK
    <3>1. /\ disk \in Volume /\ cache \in Volume /\ ram \in Rams
          /\ mode \in {"down", "replay", "orphans", "up"}
      BY <2>1 DEF JInv, Types
    <3>2. /\ ram.ino \in [File -> Inodes] /\ ram.segs \in Seq(File)
          /\ ram.writer \in File \cup {None} /\ ram.pre \in Seq(Cluster)
          /\ IsInjective(ram.segs) /\ ToSet(ram.segs) = Hung(ram.ino) /\ IsInjective(ram.pre)
      BY <3>1, RamFields
    <3>3. QED BY <3>1, <3>2 DEF TypeOK, Inodes, Hung
  <2>2. QED BY <2>1
<1>2. QED BY <1>1, JournalInv, PTL

\* A rfs_sync_inode that has found the entry of its inode, and takes the lock
\* after an unlink, a rename or the reuse of the entry, writes only where the
\* entry holds no start cluster or the one of its inode (inode.c:1209).
THEOREM StartsMatch == Spec => []StartNotCorrupted
<1>1. JInv => StartNotCorrupted
  <2>1. ASSUME JInv, sync # None, SyncAllowed(ram.ino[sync.file], sync.slot),
               ram.ino[sync.file].start # TAIL
        PROVE  cache.start[sync.slot] \in {TAIL, ram.ino[sync.file].start}
    <3>1. sync.file \in File /\ sync.slot \in Slot
      BY <2>1 DEF JInv, Types
    <3>2. Owns(ram.ino, sync.file, sync.slot)
      BY <2>1 DEF SyncAllowed, Owns
    <3>3. mode = "up"
      <4>1. mode # "up" => ram = NoRam
        BY <2>1 DEF JInv, Types
      <4>2. QED BY <3>1, <3>2, <4>1, NoRamType DEF Owns
    <3>4. Agrees(cache, ram, todo)
      BY <2>1, <3>3 DEF JInv, Entries
    <3>5. QED BY <2>1, <3>1, <3>2, <3>4 DEF Agrees
  <2>2. QED BY <2>1 DEF StartNotCorrupted
<1>2. QED BY <1>1, JournalInv, PTL

(***************************************************************************)
(* Chains, from the clusters they have.                                    *)
(***************************************************************************)
\* The FAT leads through p and then to e.
Trail(fat, p, e) == \A i, j \in 1..Len(p) : /\ j = i + 1 => fat[p[i]] = p[j]
                                            /\ i = Len(p) => fat[p[i]] = e
Once(p) == \A i, j \in 1..Len(p) : p[i] = p[j] => i = j

\* The first n elements.
Begin(p, n) == SubSeq(p, 1, n)

LEMMA BeginIs ==
  ASSUME NEW S, NEW p \in Seq(S), NEW n \in 0..Len(p)
  PROVE  Begin(p, n) \in Seq(S) /\ Len(Begin(p, n)) = n /\ \A i \in 1..n : Begin(p, n)[i] = p[i]
BY DEF Begin

LEMMA BeginAll ==
  ASSUME NEW S, NEW p \in Seq(S)
  PROVE  Begin(p, Len(p)) = p
BY DEF Begin

LEMMA BeginLonger ==
  ASSUME NEW fat \in FatMap, NEW p \in Path, NEW e, Trail(fat, p, e),
         \A i \in 2..Len(p) : p[i] \in Cluster, NEW n \in 1..(Len(p) - 1)
  PROVE  Longer(fat, Begin(p, n)) = Begin(p, n + 1)
<1> DEFINE q == Begin(p, n)
           k == n + 1
           u == Begin(p, k)
<1>1. p \in Seq(FatIndex) /\ Len(p) \in Nat
  BY DEF Path
<1>2. q \in Seq(FatIndex) /\ Len(q) = n /\ \A i \in 1..n : q[i] = p[i]
  BY <1>1, BeginIs
<1>3. k \in 2..Len(p) /\ n \in 1..Len(p) /\ k \in 1..Len(p)
  BY <1>1
<1>4. u \in Seq(FatIndex) /\ Len(u) = k /\ \A i \in 1..k : u[i] = p[i]
  <2>1. k \in 0..Len(p)
    BY <1>3
  <2> HIDE DEF k
  <2>2. QED BY <1>1, <2>1, BeginIs
<1>5. Last(q) = p[n]
  <2> HIDE DEF q
  <2>1. QED BY <1>2 DEF Last
<1>6. fat[p[n]] = p[k] /\ p[k] \in Cluster
  BY <1>3 DEF Trail
<1>7. Longer(fat, q) = Append(q, p[k])
  <2> HIDE DEF q, k
  <2>1. QED BY <1>5, <1>6 DEF Longer
<1>8. Append(q, p[k]) = u
  <2> HIDE DEF q, u
  <2>1. p[k] \in FatIndex
    BY <1>1, <1>3
  <2>2. \A i \in 1..k : i \in 1..n \/ i = k
    BY <1>1
  <2>3. QED BY <1>2, <1>3, <1>4, <2>1, <2>2
<1>9. QED BY <1>7, <1>8

\* A chain without repetition is no longer than the volume.
LEMMA TrailLength ==
  ASSUME NEW p \in Path, Once(p), \A i \in 2..Len(p) : p[i] \in Cluster
  PROVE  Len(p) - 1 \in 0..Cardinality(Cluster)
<1> DEFINE n == Len(p) - 1
           f == [i \in 1..n |-> p[i + 1]]
<1>1. Len(p) \in Nat \ {0} /\ n \in Nat
  BY PathLast
<1>2. IsFiniteSet(Cluster) /\ Cardinality(Cluster) \in Nat
  BY RfsAssumption, FS_CardinalityType
<1>3. IsFiniteSet(1..n) /\ Cardinality(1..n) = n
  BY <1>1, FS_Interval
<1>4. f \in Injection(1..n, Cluster)
  <2>1. \A i \in 1..n : i + 1 \in 2..Len(p) /\ i + 1 \in 1..Len(p)
    BY <1>1
  <2>2. \A i \in 1..n : f[i] \in Cluster
    BY <2>1
  <2>3. ASSUME NEW i \in 1..n, NEW j \in 1..n, f[i] = f[j] PROVE i = j
    <3>1. p[i + 1] = p[j + 1]
      BY <2>3
    <3>2. i + 1 = j + 1
      BY <2>1, <3>1 DEF Once
    <3>3. QED BY <1>1, <3>2
  <2>4. f \in [1..n -> Cluster]
    BY <2>2
  <2> HIDE DEF f
  <2>5. QED BY <2>3, <2>4 DEF Injection, IsInjective
<1>5. QED
  <2> HIDE DEF f
  <2>1. n <= Cardinality(Cluster)
    BY <1>2, <1>3, <1>4, FS_Injection
  <2>2. QED BY <1>1, <1>2, <2>1

\* The chain of a cluster begins with every trail from it, and is the trail when
\* it ends there.
LEMMA ChainBegins ==
  ASSUME NEW fat \in FatMap, NEW p \in Path, NEW e, Trail(fat, p, e), Once(p),
         \A i \in 2..Len(p) : p[i] \in Cluster
  PROVE  /\ Len(ChainFrom(fat, p[1])) >= Len(p)
         /\ Begin(ChainFrom(fat, p[1]), Len(p)) = p
         /\ e \notin Cluster => ChainFrom(fat, p[1]) = p
<1> DEFINE N == Cardinality(Cluster)
           L == Len(p)
           ch == ChainFrom(fat, p[1])
<1>1. N \in Nat /\ L \in Nat \ {0} /\ L - 1 \in 0..N
  BY RfsAssumption, FS_CardinalityType, PathLast, TrailLength
<1>2. p \in Seq(FatIndex) /\ p[1] \in FatIndex
  BY <1>1 DEF Path
<1>3. PICK w \in [0..N -> Path] :
        /\ w[0] = <<p[1]>> /\ \A n \in 1..N : w[n] = Longer(fat, w[n - 1])
        /\ ch = w[N]
  BY <1>2, WalkSteps
<1> HIDE DEF ch
<1>4. ASSUME NEW q \in Path PROVE Longer(fat, q) \in Path /\ Len(Longer(fat, q)) >= Len(q)
                                 /\ \A i \in 1..Len(q) : Longer(fat, q)[i] = q[i]
  <2>1. Longer(fat, q) \in Path
    BY <1>4, LongerPath
  <2>2. q \in Seq(FatIndex) /\ fat[Last(q)] \in Cluster => fat[Last(q)] \in FatIndex
    BY DEF Path, FatIndex
  <2>3. QED BY <2>1, <2>2 DEF Longer, Path
<1> DEFINE S == {n \in 0..N : n < L => w[n] = Begin(p, n + 1)}
<1>5. 0 \in S
  <2>1. Begin(p, 1) = <<p[1]>>
    <3>1. 1 \in 0..Len(p) /\ 1 \in 1..1
      BY <1>1
    <3>2. Begin(p, 1) \in Seq(FatIndex) /\ Len(Begin(p, 1)) = 1 /\ Begin(p, 1)[1] = p[1]
      BY <1>2, <3>1, BeginIs
    <3>3. QED BY <3>2
  <2>2. QED BY <1>1, <1>3, <2>1
<1>6. ASSUME NEW n \in 1..N, n - 1 \in S PROVE n \in S
  <2>1. SUFFICES ASSUME n < L PROVE w[n] = Begin(p, n + 1)
    BY <1>1
  <2>2. n \in 1..(L - 1)
    BY <1>1, <2>1
  <2>3. w[n - 1] = Begin(p, n)
    <3>1. n - 1 < L /\ (n - 1) + 1 = n
      BY <1>1, <2>1
    <3>2. QED BY <1>6, <3>1
  <2>4. Longer(fat, Begin(p, n)) = Begin(p, n + 1)
    BY <2>2, BeginLonger
  <2>5. QED BY <1>3, <2>3, <2>4
<1>7. \A n \in 0..N : n \in S
  <2> HIDE DEF S, N
  <2>1. QED BY <1>1, <1>5, <1>6, Reaches
<1>8. w[L - 1] = p
  <2>1. L - 1 \in S /\ L - 1 < L /\ (L - 1) + 1 = L
    BY <1>1, <1>7
  <2>2. w[L - 1] = Begin(p, L)
    BY <2>1
  <2>3. QED BY <1>2, <2>2, BeginAll
<1> HIDE DEF S
<1> DEFINE Ok(q) == /\ Len(q) >= L
                    /\ \A i \in 1..L : q[i] = p[i]
                    /\ (e \notin Cluster => q = p)
           Long == {n \in 0..N : n >= L - 1 => Ok(w[n])}
<1>9. 0 \in Long
  BY <1>1, <1>8
<1>10. ASSUME NEW n \in 1..N, n - 1 \in Long PROVE n \in Long
  <2>1. CASE n = L - 1
    BY <1>1, <1>8, <2>1
  <2>2. CASE n >= L
    <3>1. n - 1 >= L - 1 /\ n - 1 \in 0..N
      BY <1>1, <2>2
    <3>2. /\ Len(w[n - 1]) >= L /\ \A i \in 1..L : w[n - 1][i] = p[i]
          /\ e \notin Cluster => w[n - 1] = p
      BY <1>10, <3>1
    <3>3. w[n - 1] \in Path /\ w[n] = Longer(fat, w[n - 1])
      BY <1>3, <3>1
    <3> DEFINE q == w[n - 1]
    <3> HIDE DEF q
    <3>4. q \in Path /\ Len(q) >= L /\ w[n] = Longer(fat, q) /\ \A i \in 1..L : q[i] = p[i]
      BY <3>2, <3>3 DEF q
    <3>5. Len(w[n]) >= L /\ \A i \in 1..L : w[n][i] = p[i]
      <4>1. /\ Longer(fat, q) \in Path /\ Len(Longer(fat, q)) >= Len(q)
            /\ \A i \in 1..Len(q) : Longer(fat, q)[i] = q[i]
        BY <1>4, <3>4
      <4>2. Len(q) \in Nat /\ Len(w[n]) \in Nat
        BY <3>4, <4>1 DEF Path
      <4>3. QED BY <1>1, <3>4, <4>1, <4>2
    <3>6. e \notin Cluster => w[n] = p
      <4>1. L \in 1..L /\ fat[p[L]] = e
        BY <1>1 DEF Trail
      <4>2. Last(p) = p[L]
        BY DEF Last
      <4>3. e \notin Cluster => Longer(fat, p) = p
        BY <4>1, <4>2 DEF Longer
      <4>4. QED BY <3>2, <3>3, <4>3
    <3>7. QED BY <3>5, <3>6
  <2>3. CASE n < L - 1
    BY <1>1, <2>3
  <2>4. QED BY <1>1, <2>1, <2>2, <2>3
<1>11. \A n \in 0..N : n \in Long
  <2> HIDE DEF Long, N
  <2>1. QED BY <1>1, <1>9, <1>10, Reaches
<1>12. /\ Len(ch) >= L /\ \A i \in 1..L : ch[i] = p[i]
       /\ e \notin Cluster => ch = p
  <2>1. N \in Long
    BY <1>1, <1>11
  <2>2. QED BY <1>1, <1>3, <2>1
<1>13. ch \in Seq(FatIndex)
  BY <1>1, <1>3 DEF Path
<1>14. Begin(ch, L) = p
  <2>1. L \in 0..Len(ch)
    BY <1>1, <1>12, <1>13
  <2>2. Begin(ch, L) \in Seq(FatIndex) /\ Len(Begin(ch, L)) = L /\ \A i \in 1..L : Begin(ch, L)[i] = ch[i]
    BY <1>13, <2>1, BeginIs
  <2>3. QED BY <1>2, <1>12, <2>2
<1>15. QED BY <1>12, <1>14 DEF ch

LEMMA SetIs ==
  ASSUME NEW S, NEW p \in Seq(S)
  PROVE  /\ ToSet(p) = {p[i] : i \in 1..Len(p)} /\ ToSet(p) \subseteq S
         /\ p = <<>> <=> ToSet(p) = {}
         /\ \A x : x \in ToSet(p) <=> \E i \in 1..Len(p) : p[i] = x
<1>1. ToSet(p) = {p[i] : i \in 1..Len(p)}
  BY DEF ToSet
<1>2. Len(p) \in Nat /\ (p = <<>> <=> Len(p) = 0)
  OBVIOUS
<1>3. \A x : x \in ToSet(p) <=> \E i \in 1..Len(p) : p[i] = x
  BY <1>1
<1>4. ToSet(p) \subseteq S
  BY <1>3
<1>5. p = <<>> => ToSet(p) = {}
  BY <1>2, <1>3
<1>6. p # <<>> => p[1] \in ToSet(p)
  <2>1. p # <<>> => 1 \in 1..Len(p)
    BY <1>2
  <2>2. QED BY <1>3, <2>1
<1>7. QED BY <1>1, <1>3, <1>4, <1>5, <1>6

LEMMA SetConcat ==
  ASSUME NEW S, NEW p \in Seq(S), NEW q \in Seq(S)
  PROVE  /\ p \o q \in Seq(S) /\ ToSet(p \o q) = ToSet(p) \cup ToSet(q)
         /\ Once(p) /\ Once(q) /\ ToSet(p) \cap ToSet(q) = {} => Once(p \o q)
         /\ Once(p \o q) => Once(p) /\ Once(q) /\ ToSet(p) \cap ToSet(q) = {}
<1> DEFINE t == p \o q
           A == Len(p)
           B == Len(q)
<1>1. /\ t \in Seq(S) /\ Len(t) = A + B /\ A \in Nat /\ B \in Nat
      /\ \A i \in 1..A : t[i] = p[i]
      /\ \A i \in 1..(A + B) : i > A => t[i] = q[i - A]
  OBVIOUS
<1> HIDE DEF t
<1>2. \A j \in 1..B : A + j \in 1..(A + B) /\ t[A + j] = q[j]
  <2>1. ASSUME NEW j \in 1..B PROVE A + j \in 1..(A + B) /\ t[A + j] = q[j]
    <3>1. A + j \in 1..(A + B) /\ A + j > A /\ (A + j) - A = j
      BY <1>1
    <3>2. t[A + j] = q[(A + j) - A]
      BY <1>1, <3>1
    <3>3. QED BY <3>1, <3>2
  <2>2. QED BY <2>1
<1>3. \A i \in 1..(A + B) : i \in 1..A \/ (i - A \in 1..B /\ t[i] = q[i - A])
  BY <1>1
<1>4. /\ ToSet(p) = {p[i] : i \in 1..A} /\ ToSet(q) = {q[i] : i \in 1..B}
      /\ ToSet(t) = {t[i] : i \in 1..(A + B)}
  <2>1. ToSet(p) = {p[i] : i \in 1..A} /\ ToSet(q) = {q[i] : i \in 1..B}
    BY SetIs
  <2>2. ToSet(t) = {t[i] : i \in 1..Len(t)}
    BY <1>1, SetIs
  <2>3. QED BY <1>1, <2>1, <2>2
<1>5. ToSet(t) = ToSet(p) \cup ToSet(q)
  <2>1. ASSUME NEW x \in ToSet(t) PROVE x \in ToSet(p) \cup ToSet(q)
    <3>1. PICK i \in 1..(A + B) : t[i] = x
      BY <1>4
    <3>2. CASE i \in 1..A
      BY <1>1, <1>4, <3>1, <3>2
    <3>3. CASE i - A \in 1..B /\ t[i] = q[i - A]
      BY <1>4, <3>1, <3>3
    <3>4. QED BY <1>3, <3>2, <3>3
  <2>2. ASSUME NEW x \in ToSet(p) PROVE x \in ToSet(t)
    <3>1. PICK i \in 1..A : p[i] = x
      BY <1>4
    <3>2. i \in 1..(A + B) /\ t[i] = x
      BY <1>1, <3>1
    <3>3. QED BY <1>4, <3>2
  <2>3. ASSUME NEW x \in ToSet(q) PROVE x \in ToSet(t)
    <3>1. PICK i \in 1..B : q[i] = x
      BY <1>4
    <3>2. A + i \in 1..(A + B) /\ t[A + i] = x
      BY <1>2, <3>1
    <3>3. QED BY <1>4, <3>2
  <2>4. QED BY <2>1, <2>2, <2>3
<1>6. ASSUME Once(p), Once(q), ToSet(p) \cap ToSet(q) = {} PROVE Once(t)
  <2>1. ASSUME NEW i \in 1..Len(t), NEW j \in 1..Len(t), t[i] = t[j] PROVE i = j
    <3>1. CASE i \in 1..A /\ j \in 1..A
      BY <1>1, <1>6, <2>1, <3>1 DEF Once
    <3>2. CASE i \notin 1..A /\ j \notin 1..A
      <4>1. i - A \in 1..B /\ j - A \in 1..B /\ q[i - A] = q[j - A]
        BY <1>1, <1>3, <2>1, <3>2
      <4>2. i - A = j - A
        BY <1>6, <4>1 DEF Once
      <4>3. QED BY <1>1, <4>2
    <3>3. ASSUME NEW x \in 1..Len(t), NEW y \in 1..Len(t), x \in 1..A, y \notin 1..A, t[x] = t[y]
          PROVE  FALSE
      <4>1. y - A \in 1..B /\ p[x] = q[y - A]
        BY <1>1, <1>3, <3>3
      <4>2. QED BY <1>4, <1>6, <3>3, <4>1
    <3>4. QED BY <2>1, <3>1, <3>2, <3>3
  <2>2. QED BY <2>1 DEF Once
<1>7. ASSUME Once(t) PROVE Once(p) /\ Once(q) /\ ToSet(p) \cap ToSet(q) = {}
  <2>1. Once(p)
    <3>1. ASSUME NEW i \in 1..A, NEW j \in 1..A, p[i] = p[j] PROVE i = j
      <4>1. i \in 1..Len(t) /\ j \in 1..Len(t) /\ t[i] = t[j]
        BY <1>1, <3>1
      <4>2. QED BY <1>7, <4>1 DEF Once
    <3>2. QED BY <3>1 DEF Once
  <2>2. Once(q)
    <3>1. ASSUME NEW i \in 1..B, NEW j \in 1..B, q[i] = q[j] PROVE i = j
      <4>1. A + i \in 1..Len(t) /\ A + j \in 1..Len(t) /\ t[A + i] = t[A + j]
        BY <1>1, <1>2, <3>1
      <4>2. A + i = A + j
        BY <1>7, <4>1 DEF Once
      <4>3. QED BY <1>1, <4>2
    <3>2. QED BY <3>1 DEF Once
  <2>3. ASSUME NEW i \in 1..A, NEW j \in 1..B, p[i] = q[j] PROVE FALSE
    <3>1. i \in 1..Len(t) /\ A + j \in 1..Len(t) /\ t[i] = t[A + j] /\ i # A + j
      BY <1>1, <1>2, <2>3
    <3>2. QED BY <1>7, <3>1 DEF Once
  <2>4. QED BY <1>4, <2>1, <2>2, <2>3
<1>8. QED BY <1>1, <1>5, <1>6, <1>7 DEF t

\* Where the FAT leads when it leads through p next.
HeadOr(p, e) == IF p = <<>> THEN e ELSE p[1]

LEMMA TrailConcat ==
  ASSUME NEW S, NEW fat, NEW p \in Seq(S), NEW q \in Seq(S), NEW e
  PROVE  /\ Trail(fat, p \o q, e) <=> Trail(fat, p, HeadOr(q, e)) /\ Trail(fat, q, e)
         /\ HeadOr(p \o q, e) = HeadOr(p, HeadOr(q, e))
<1> DEFINE t == p \o q
           A == Len(p)
           B == Len(q)
<1>1. /\ t \in Seq(S) /\ Len(t) = A + B /\ A \in Nat /\ B \in Nat
      /\ \A i \in 1..A : t[i] = p[i]
      /\ \A i \in 1..(A + B) : i > A => t[i] = q[i - A]
      /\ (q = <<>> <=> B = 0) /\ (p = <<>> <=> A = 0)
  OBVIOUS
<1>a. /\ A > 0 => t # <<>> /\ t[1] = p[1]
      /\ A = 0 => t = q
  BY <1>1
<1> HIDE DEF t
<1>2. \A j \in 1..B : A + j \in 1..(A + B) /\ t[A + j] = q[j]
  <2>1. ASSUME NEW j \in 1..B PROVE A + j \in 1..(A + B) /\ t[A + j] = q[j]
    <3>1. A + j \in 1..(A + B) /\ A + j > A /\ (A + j) - A = j
      BY <1>1
    <3>2. t[A + j] = q[(A + j) - A]
      BY <1>1, <3>1
    <3>3. QED BY <3>1, <3>2
  <2>2. QED BY <2>1
<1>3. ASSUME Trail(fat, t, e) PROVE Trail(fat, p, HeadOr(q, e)) /\ Trail(fat, q, e)
  <2>1. ASSUME NEW i \in 1..A, NEW j \in 1..A, j = i + 1 PROVE fat[p[i]] = p[j]
    <3>1. i \in 1..Len(t) /\ j \in 1..Len(t) /\ t[i] = p[i] /\ t[j] = p[j]
      BY <1>1
    <3>2. QED BY <1>3, <2>1, <3>1 DEF Trail
  <2>2. ASSUME A > 0 PROVE fat[p[A]] = HeadOr(q, e)
    <3>1. CASE B = 0
      <4>1. A \in 1..Len(t) /\ A = Len(t) /\ t[A] = p[A]
        BY <1>1, <2>2, <3>1
      <4>2. fat[t[A]] = e
        BY <1>3, <4>1 DEF Trail
      <4>3. QED BY <1>1, <3>1, <4>1, <4>2 DEF HeadOr
    <3>2. CASE B > 0
      <4> DEFINE k == A + 1
      <4>1. A \in 1..Len(t) /\ k \in 1..Len(t) /\ t[A] = p[A] /\ t[k] = q[1]
        <5>1. 1 \in 1..B
          BY <1>1, <3>2
        <5>2. QED BY <1>1, <1>2, <2>2, <5>1
      <4>2. fat[t[A]] = t[k]
        BY <1>3, <4>1 DEF Trail
      <4>3. QED BY <1>1, <3>2, <4>1, <4>2 DEF HeadOr
    <3>3. QED BY <1>1, <3>1, <3>2
  <2>3. Trail(fat, p, HeadOr(q, e))
    BY <1>1, <2>1, <2>2 DEF Trail
  <2>4. ASSUME NEW i \in 1..B, NEW j \in 1..B
        PROVE  /\ j = i + 1 => fat[q[i]] = q[j]
               /\ i = B => fat[q[i]] = e
    <3> DEFINE x == A + i
               y == A + j
    <3>1. x \in 1..Len(t) /\ y \in 1..Len(t) /\ t[x] = q[i] /\ t[y] = q[j]
      BY <1>1, <1>2
    <3>2. i \in Nat /\ j \in Nat /\ A \in Nat
      BY <1>1
    <3>3. j = i + 1 => y = x + 1
      BY <3>2
    <3>4. i = B => x = Len(t)
      BY <1>1
    <3> HIDE DEF x, y
    <3>5. /\ y = x + 1 => fat[t[x]] = t[y]
          /\ x = Len(t) => fat[t[x]] = e
      BY <1>3, <3>1 DEF Trail
    <3>6. QED BY <3>1, <3>3, <3>4, <3>5
  <2>5. QED BY <2>3, <2>4 DEF Trail
<1>4. ASSUME Trail(fat, p, HeadOr(q, e)), Trail(fat, q, e) PROVE Trail(fat, t, e)
  <2>1. ASSUME NEW i \in 1..Len(t), NEW j \in 1..Len(t)
        PROVE  /\ j = i + 1 => fat[t[i]] = t[j]
               /\ i = Len(t) => fat[t[i]] = e
    <3>1. CASE i > A
      <4> DEFINE x == i - A
                 y == j - A
      <4>1. x \in 1..B /\ t[i] = q[x] /\ (i = Len(t) => x = B)
        BY <1>1, <3>1
      <4>2. j = i + 1 => y \in 1..B /\ y = x + 1 /\ t[j] = q[y]
        BY <1>1, <3>1
      <4> HIDE DEF x, y
      <4>3. QED BY <1>4, <4>1, <4>2 DEF Trail
    <3>2. CASE i < A
      <4>1. i \in 1..A /\ i # Len(t) /\ (j = i + 1 => j \in 1..A)
        BY <1>1, <3>2
      <4>2. j = i + 1 => fat[p[i]] = p[j]
        BY <1>4, <4>1 DEF Trail
      <4>3. QED BY <1>1, <4>1, <4>2
    <3>3. CASE i = A
      <4>1. i \in 1..A /\ t[i] = p[i] /\ fat[p[i]] = HeadOr(q, e)
        BY <1>1, <1>4, <3>3 DEF Trail
      <4>2. j = i + 1 => 1 \in 1..B /\ A + 1 = j
        BY <1>1, <3>3
      <4>3. j = i + 1 => B > 0 /\ t[j] = q[1]
        BY <1>1, <1>2, <4>2
      <4>4. i = Len(t) => B = 0
        BY <1>1, <3>3
      <4>5. QED BY <1>1, <4>1, <4>3, <4>4 DEF HeadOr
    <3>4. QED BY <1>1, <3>1, <3>2, <3>3
  <2>2. QED BY <2>1 DEF Trail
<1>5. HeadOr(t, e) = HeadOr(p, HeadOr(q, e))
  BY <1>a, <1>1 DEF HeadOr
<1>6. QED BY <1>3, <1>4, <1>5 DEF t

\* A trail depends on its own clusters.
LEMMA TrailKeeps ==
  ASSUME NEW S, NEW fat, NEW new, NEW p \in Seq(S), NEW e, Trail(fat, p, e),
         \A c \in ToSet(p) : new[c] = fat[c]
  PROVE  Trail(new, p, e)
<1>1. \A i \in 1..Len(p) : p[i] \in ToSet(p)
  BY SetIs
<1>2. QED BY <1>1 DEF Trail

\* Another end.
LEMMA TrailEnds ==
  ASSUME NEW S, NEW fat, NEW new, NEW p \in Seq(S), NEW e, NEW d, Trail(fat, p, e), Once(p),
         p # <<>>, new[p[Len(p)]] = d,
         \A c \in ToSet(p) : c # p[Len(p)] => new[c] = fat[c]
  PROVE  Trail(new, p, d)
<1>1. Len(p) \in Nat /\ Len(p) \in 1..Len(p)
  OBVIOUS
<1>2. \A i \in 1..Len(p) : p[i] \in ToSet(p)
  BY SetIs
<1>3. ASSUME NEW i \in 1..Len(p), NEW j \in 1..Len(p)
      PROVE  /\ j = i + 1 => new[p[i]] = p[j]
             /\ i = Len(p) => new[p[i]] = d
  <2>1. j = i + 1 => i # Len(p)
    BY <1>1
  <2>2. i # Len(p) => p[i] # p[Len(p)]
    BY <1>1 DEF Once
  <2>3. j = i + 1 => fat[p[i]] = p[j]
    BY DEF Trail
  <2>4. QED BY <1>2, <2>1, <2>2, <2>3
<1>4. QED BY <1>3 DEF Trail

LEMMA TrailOne ==
  ASSUME NEW fat, NEW c, NEW e
  PROVE  /\ Trail(fat, <<c>>, e) <=> fat[c] = e
         /\ Once(<<c>>) /\ ToSet(<<c>>) = {c}
<1>1. Len(<<c>>) = 1 /\ <<c>>[1] = c /\ \A i \in 1..1 : i = 1
  OBVIOUS
<1>2. Trail(fat, <<c>>, e) <=> fat[c] = e
  <2> DEFINE p == <<c>>
  <2>1. Len(p) = 1 /\ p[1] = c /\ 1 \in 1..1 /\ \A i \in 1..1 : i = 1 /\ i # i + 1
    OBVIOUS
  <2> HIDE DEF p
  <2>2. Trail(fat, p, e) <=> fat[c] = e
    BY <2>1 DEF Trail
  <2>3. QED BY <2>2 DEF p
<1>3. Once(<<c>>)
  BY DEF Once
<1>4. ToSet(<<c>>) = {c}
  BY DEF ToSet
<1>5. QED BY <1>2, <1>3, <1>4

LEMMA TrailNone ==
  ASSUME NEW fat, NEW e
  PROVE  Trail(fat, <<>>, e) /\ Once(<<>>) /\ ToSet(<<>>) = {} /\ HeadOr(<<>>, e) = e
BY DEF Trail, Once, ToSet, HeadOr

LEMMA ClustersPath ==
  ASSUME NEW p \in Seq(Cluster), p # <<>>
  PROVE  p \in Path /\ \A i \in 2..Len(p) : p[i] \in Cluster
<1>1. Cluster \subseteq FatIndex
  BY DEF FatIndex
<1>2. \A i \in 1..Len(p) : p[i] \in Cluster
  OBVIOUS
<1>3. p \in Seq(FatIndex)
  BY <1>1, <1>2
<1>4. QED BY <1>2, <1>3 DEF Path

\* The chain of a start cluster.
LEMMA ChainTrail ==
  ASSUME NEW fat \in FatMap, NEW p \in Seq(Cluster), Trail(fat, p, TAIL), Once(p), NEW c,
         c = HeadOr(p, TAIL)
  PROVE  Chain(fat, c) = p
<1>1. TAIL \notin Cluster
  BY ConstantFacts
<1>2. CASE p = <<>>
  BY <1>2 DEF HeadOr, Chain
<1>3. CASE p # <<>>
  <2>1. 1 \in 1..Len(p)
    BY <1>3
  <2>2. p[1] \in Cluster
    BY <2>1
  <2>3. Chain(fat, c) = ChainFrom(fat, p[1])
    BY <1>1, <1>3, <2>2 DEF Chain, HeadOr
  <2>4. QED BY <1>1, <1>3, <2>3, ChainBegins, ClustersPath
<1>4. QED BY <1>2, <1>3

\* The walk along the chain of an inode.
LEMMA ChainOfTrail ==
  ASSUME cache \in Volume, NEW f, NEW p \in Seq(Cluster), NEW e, Trail(cache.fat, p, e), Once(p),
         ram.ino[f].start = HeadOr(p, TAIL), p # <<>> => ram.ino[f].last = p[Len(p)]
  PROVE  ChainOf(f) = p
<1> DEFINE i == ram.ino[f]
           c == Chain(cache.fat, i.start)
           ends == {k \in 1..Len(c) : c[k] = i.last}
<1>1. cache.fat \in FatMap /\ TAIL \notin Cluster
  BY ConstantFacts DEF Volume, FatMap, FatVal
<1>2. ChainOf(f) = IF ends = {} THEN c ELSE SubSeq(c, 1, CHOOSE k \in ends : \A j \in ends : k <= j)
  BY DEF ChainOf
<1>3. CASE p = <<>>
  <2>1. c = <<>>
    BY <1>3 DEF HeadOr, Chain
  <2> HIDE DEF c
  <2>2. ends = {}
    BY <2>1
  <2>3. QED BY <1>2, <1>3, <2>1, <2>2
<1>4. CASE p # <<>>
  <2> DEFINE L == Len(p)
  <2>1. L \in Nat \ {0} /\ 1 \in 1..L /\ L \in 1..L /\ p[1] \in Cluster
    <3>1. L \in Nat \ {0}
      BY <1>4
    <3>2. QED BY <3>1
  <2>2. c = ChainFrom(cache.fat, p[1])
    BY <1>1, <1>4, <2>1 DEF Chain, HeadOr
  <2>3. Len(c) >= L /\ Begin(c, L) = p
    BY <1>1, <1>4, <2>2, ChainBegins, ClustersPath
  <2>4. c \in Seq(Cluster)
    BY <1>1, <1>4, <2>1, ChainType DEF HeadOr
  <2> HIDE DEF c
  <2>5. Len(c) \in Nat /\ \A k \in 1..L : k \in 1..Len(c) /\ c[k] = p[k]
    <3>1. Len(c) \in Nat /\ L \in 0..Len(c)
      BY <2>1, <2>3, <2>4
    <3>2. \A k \in 1..L : Begin(c, L)[k] = c[k]
      BY <2>4, <3>1, BeginIs
    <3>3. QED BY <2>1, <2>3, <3>1, <3>2
  <2>6. L \in ends
    BY <1>4, <2>1, <2>5
  <2>7. \A j \in ends : L <= j
    <3>1. ASSUME NEW j \in ends, j < L PROVE FALSE
      <4>1. j \in 1..L /\ c[j] = p[L]
        BY <1>4, <2>1, <2>5, <3>1
      <4>2. p[j] = p[L]
        BY <2>5, <4>1
      <4>3. QED BY <2>1, <3>1, <4>1, <4>2 DEF Once
    <3>2. \A j \in ends : j \in Nat
      BY <2>5
    <3>3. QED BY <2>1, <3>1, <3>2
  <2>8. \A k \in ends : k \in Nat
    BY <2>5
  <2>9. (CHOOSE k \in ends : \A j \in ends : k <= j) = L
    <3> HIDE DEF ends
    <3>1. \A k \in ends : (\A j \in ends : k <= j) => k = L
      BY <2>1, <2>6, <2>7, <2>8
    <3>2. QED BY <2>6, <2>7, <3>1
  <2>10. ChainOf(f) = SubSeq(c, 1, L)
    <3> HIDE DEF ends
    <3>1. QED BY <1>2, <2>6, <2>9
  <2>11. QED BY <2>3, <2>10 DEF Begin
<1>5. QED BY <1>3, <1>4

\* Chains that lead from one to the next make one chain.
Joined(fat, ps, e) ==
  /\ \A k \in 1..Len(ps) : ps[k] # <<>> /\ Once(ps[k])
  /\ \A j, k \in 1..Len(ps) : /\ j = k + 1 => Trail(fat, ps[k], ps[j][1])
                              /\ j # k => ToSet(ps[j]) \cap ToSet(ps[k]) = {}
  /\ ps # <<>> => Trail(fat, ps[Len(ps)], e)

LEMMA FlattenTrail ==
  ASSUME NEW S, NEW ps \in Seq(Seq(S)), NEW fat, NEW e, Joined(fat, ps, e),
         NEW p, p = FlattenSeq(ps)
  PROVE  /\ p \in Seq(S) /\ Trail(fat, p, e) /\ Once(p)
         /\ \A x : x \in ToSet(p) <=> \E k \in 1..Len(ps) : x \in ToSet(ps[k])
         /\ HeadOr(p, e) = IF ps = <<>> THEN e ELSE ps[1][1]
<1> DEFINE n == Len(ps)
<1>1. n \in Nat /\ \A k \in 1..n : ps[k] \in Seq(S) /\ ps[k] # <<>>
  BY DEF Joined
<1>2. CASE n = 0
  <2>1. ps = <<>>
    BY <1>2
  <2>2. p = <<>>
    <3>1. Len(ps) = 0
      BY <1>2
    <3>2. QED BY <3>1, FlattenEmpty, ps \in Seq(Seq(S))
  <2>3. ToSet(p) = {} /\ p \in Seq(S) /\ HeadOr(p, e) = e /\ Trail(fat, p, e) /\ Once(p)
    <3>1. ToSet(<<>>) = {} /\ HeadOr(<<>>, e) = e /\ Trail(fat, <<>>, e) /\ Once(<<>>)
      BY TrailNone
    <3>2. <<>> \in Seq(S)
      OBVIOUS
    <3>3. QED BY <2>2, <3>1, <3>2
  <2>4. \A k \in 1..Len(ps) : FALSE
    BY <2>1
  <2>5. QED BY <2>1, <2>3, <2>4
<1>3. CASE n # 0
  <2>1. PICK h \in Partials(ps, S) : Concatenates(h, ps)
    BY <1>3, FlattenSteps
  <2>2. /\ h \in [1..n -> Seq(S)] /\ h[1] = ps[1] /\ p = h[n]
        /\ \A i \in 2..n : h[i] = h[i - 1] \o ps[i]
    BY <2>1 DEF Partials, Concatenates
  <2> DEFINE Covers(q, k) == \A x : x \in ToSet(q) <=> \E i \in 1..k : x \in ToSet(ps[i])
             Good(k) == /\ h[k] # <<>> /\ h[k][1] = ps[1][1] /\ Once(h[k]) /\ Covers(h[k], k)
                        /\ \A j \in 1..n : j = k + 1 => Trail(fat, h[k], ps[j][1])
                        /\ k = n => Trail(fat, h[k], e)
             N == n - 1
             T == {k \in 0..N : Good(k + 1)}
  <2>3. Good(1)
    <3>1. Covers(ps[1], 1)
      BY <1>1, <1>3
    <3>2. 1 \in 1..n
      BY <1>1, <1>3
    <3> HIDE DEF Covers
    <3>3. QED BY <1>1, <1>3, <2>2, <3>1, <3>2 DEF Joined
  <2>4. ASSUME NEW k \in 1..n, NEW l \in 1..n, l = k + 1, Good(k) PROVE Good(l)
    <3>1. l \in 2..n /\ l - 1 = k
      BY <1>1, <2>4
    <3>2. h[l] = h[k] \o ps[l]
      BY <2>2, <3>1
    <3> DEFINE a == h[k]
               b == ps[l]
    <3>3. a \in Seq(S) /\ b \in Seq(S) /\ a # <<>> /\ b # <<>> /\ Once(a) /\ Once(b)
      BY <1>1, <2>2, <2>4 DEF Joined
    <3>4. Covers(a, k) /\ Trail(fat, a, b[1]) /\ a[1] = ps[1][1]
      BY <2>4
    <3>5. ToSet(a) \cap ToSet(b) = {}
      <4>1. ASSUME NEW x \in ToSet(a), x \in ToSet(b) PROVE FALSE
        <5>1. PICK i \in 1..k : x \in ToSet(ps[i])
          BY <3>4, <4>1
        <5>2. i \in 1..n /\ i # l
          BY <1>1, <2>4
        <5>3. QED BY <4>1, <5>1, <5>2 DEF Joined
      <4>2. QED BY <4>1
    <3>6. /\ \A j \in 1..n : j = l + 1 => Trail(fat, b, ps[j][1])
          /\ l = n => Trail(fat, b, e)
      BY <1>3 DEF Joined
    <3> HIDE DEF a, b
    <3>7. a \o b \in Seq(S) /\ Once(a \o b) /\ ToSet(a \o b) = ToSet(a) \cup ToSet(b)
      BY <3>3, <3>5, SetConcat
    <3>8. a \o b # <<>> /\ (a \o b)[1] = a[1]
      BY <3>3
    <3>9. \A d : Trail(fat, b, d) => Trail(fat, a \o b, d)
      <4>1. \A d : HeadOr(b, d) = b[1]
        BY <3>3 DEF HeadOr
      <4>2. ASSUME NEW d, Trail(fat, b, d) PROVE Trail(fat, a \o b, d)
        <5>1. Trail(fat, a, HeadOr(b, d))
          BY <3>4, <4>1
        <5>2. QED BY <3>3, <4>2, <5>1, TrailConcat
      <4>3. QED BY <4>2
    <3>10. Covers(a \o b, l)
      <4>1. ASSUME NEW x PROVE x \in ToSet(a) \cup ToSet(b) <=> \E i \in 1..l : x \in ToSet(ps[i])
        <5>1. \A i \in 1..l : i \in 1..k \/ i = l
          BY <1>1, <2>4
        <5>2. \A i \in 1..k : i \in 1..l
          BY <1>1, <2>4
        <5>3. l \in 1..l
          BY <3>1
        <5>4. QED BY <3>4, <5>1, <5>2, <5>3 DEF b
      <4>2. QED BY <3>7, <4>1
    <3> HIDE DEF Covers
    <3>11. h[l] = a \o b
      BY <3>2 DEF a, b
    <3>12. QED BY <3>4, <3>6, <3>7, <3>8, <3>9, <3>10, <3>11
  <2> HIDE DEF Good
  <2>5. 0 \in T
    BY <1>1, <1>3, <2>3
  <2>6. ASSUME NEW m \in 1..N, m - 1 \in T PROVE m \in T
    <3>1. m \in 1..n /\ m + 1 \in 1..n /\ (m - 1) + 1 = m /\ m \in 0..N
      BY <1>1
    <3>2. Good(m)
      BY <2>6, <3>1
    <3>3. Good(m + 1)
      BY <2>4, <3>1, <3>2
    <3>4. QED BY <3>1, <3>3
  <2>7. \A k \in 0..N : k \in T
    <3>1. N \in Nat
      BY <1>1, <1>3
    <3> HIDE DEF T, N
    <3>2. QED BY <2>5, <2>6, <3>1, Reaches
  <2>8. Good(n)
    <3>1. N \in 0..N /\ N + 1 = n
      BY <1>1, <1>3
    <3>2. QED BY <2>7, <3>1
  <2>9. h[n] \in Seq(S) /\ ps # <<>>
    BY <1>1, <1>3, <2>2
  <2>10. QED BY <2>2, <2>8, <2>9 DEF Good, HeadOr
<1>4. QED BY <1>2, <1>3

Associates(S) == \A a, b, c \in Seq(S) : (a \o b) \o c = a \o (b \o c)

LEMMA AllAssociate == \A S : Associates(S)
BY Associate DEF Associates

\* The first sequence in front of the others.
Preceded(a, q, ps) == /\ Len(ps) = Len(q) + 1 /\ ps[1] = a
                      /\ \A i \in 1..Len(q), j \in 2..Len(ps) : j = i + 1 => ps[j] = q[i]

LEMMA FlattenCons ==
  ASSUME NEW S, NEW a \in Seq(S), NEW q \in Seq(Seq(S)), NEW ps \in Seq(Seq(S)),
         Preceded(a, q, ps)
  PROVE  FlattenSeq(ps) = a \o FlattenSeq(q) /\ FlattenSeq(q) \in Seq(S)
<1> DEFINE m == Len(q)
           n == m + 1
<1>1. /\ m \in Nat /\ n \in Nat /\ n >= 1 /\ ps \in Seq(Seq(S)) /\ Len(ps) = n /\ ps[1] = a
      /\ \A i \in 1..m, j \in 2..n : j = i + 1 => ps[j] = q[i]
      /\ \A i \in 1..m : q[i] \in Seq(S)
  BY DEF Preceded
<1>2. FlattenSeq(q) \in Seq(S)
  BY FlattenType
<1>3. PICK h \in Partials(ps, S) : Concatenates(h, ps)
  <2>1. Len(ps) # 0
    BY <1>1
  <2>2. QED BY <1>1, <2>1, FlattenSteps
<1> HIDE DEF n
<1>4. /\ h \in [1..n -> Seq(S)] /\ h[1] = a /\ FlattenSeq(ps) = h[n]
      /\ \A i \in 2..n : h[i] = h[i - 1] \o ps[i]
  BY <1>1, <1>3 DEF Partials, Concatenates
<1> HIDE DEF m
<1>5. CASE m = 0
  <2>1. n = 1
    BY <1>5 DEF n
  <2>2. FlattenSeq(q) = <<>>
    BY <1>5, FlattenEmpty DEF m
  <2>3. QED BY <1>1, <1>4, <2>1, <2>2
<1>6. CASE m # 0
  <2>1. PICK g \in Partials(q, S) : Concatenates(g, q)
    BY <1>6, FlattenSteps DEF m
  <2> DEFINE N == m - 1
             U == {k \in 0..N : \A i \in 1..m, j \in 2..n : i = k + 1 /\ j = k + 2 =>
                                   h[j] = a \o g[i]}
  <2>2. N \in Nat /\ N + 1 = m /\ N + 2 = n /\ m \in 1..m /\ n \in 2..n
    BY <1>1, <1>6 DEF n
  <2>3. /\ g \in [1..m -> Seq(S)] /\ g[1] = q[1] /\ FlattenSeq(q) = g[m]
        /\ \A i \in 2..m : g[i] = g[i - 1] \o q[i]
    BY <2>1 DEF Partials, Concatenates, m
  <2>4. 0 \in U
    <3>1. ASSUME NEW i \in 1..m, NEW j \in 2..n, i = 0 + 1, j = 0 + 2 PROVE h[j] = a \o g[i]
      <4>1. i = 1 /\ j - 1 = 1 /\ j = i + 1
        BY <3>1
      <4>2. h[j] = h[1] \o ps[j] /\ ps[j] = q[i]
        BY <1>1, <1>4, <4>1
      <4>3. QED BY <1>4, <2>3, <4>1, <4>2
    <3>2. QED BY <2>2, <3>1
  <2>5. ASSUME NEW k \in 1..N, k - 1 \in U PROVE k \in U
    <3>1. ASSUME NEW i \in 1..m, NEW j \in 2..n, i = k + 1, j = k + 2 PROVE h[j] = a \o g[i]
      <4>1. /\ i - 1 \in 1..m /\ j - 1 \in 2..n /\ i - 1 = (k - 1) + 1 /\ j - 1 = (k - 1) + 2
            /\ i \in 2..m /\ j = i + 1
        BY <1>1, <2>2, <3>1
      <4>2. h[j - 1] = a \o g[i - 1]
        BY <2>5, <4>1
      <4>3. h[j] = h[j - 1] \o q[i] /\ g[i] = g[i - 1] \o q[i]
        BY <1>1, <1>4, <2>3, <4>1
      <4>4. g[i - 1] \in Seq(S) /\ q[i] \in Seq(S)
        BY <1>1, <2>3, <4>1
      <4> DEFINE x == g[i - 1]
                 y == q[i]
      <4>5. (a \o x) \o y = a \o (x \o y)
        <5>1. x \in Seq(S) /\ y \in Seq(S)
          BY <4>4
        <5>2. Associates(S)
          BY AllAssociate
        <5> HIDE DEF x, y
        <5>3. QED BY <5>1, <5>2 DEF Associates
      <4>6. QED BY <4>2, <4>3, <4>5
    <3>2. QED BY <2>2, <3>1
  <2>6. \A k \in 0..N : k \in U
    <3> HIDE DEF U, N
    <3>1. QED BY <2>2, <2>4, <2>5, Reaches
  <2>7. N \in U
    <3>1. N \in 0..N
      BY <2>2
    <3> HIDE DEF U, N
    <3>2. QED BY <2>6, <3>1
  <2>8. h[n] = a \o g[m]
    BY <2>2, <2>7
  <2>9. QED BY <1>1, <1>2, <1>4, <2>3, <2>8
<1>7. QED BY <1>5, <1>6

-----------------------------------------------------------------------------
(***************************************************************************)
(* Volumes, place by place.                                                *)
(***************************************************************************)
\* A place of a volume: a FAT entry, or a field of a directory entry.
Spots == ({"fat"} \X FatIndex) \cup ({"live"} \X Slot) \cup ({"start"} \X Slot)
At(v, x) == v[x[1]][x[2]]
Spot(s) == <<s.op, s.at>>

\* The places that tell the files of a volume, and volumes equal in them but
\* for the places in m.
Held(b) == {x \in Spots : x[1] = "start" => b.live[x[2]]}
Agree(v, b, m) == \A x \in Held(b) \ m : At(v, x) = At(b, x)

LEMMA SpotIs ==
  /\ \A c \in FatIndex : <<"fat", c>> \in Spots
  /\ \A s \in Slot : <<"live", s>> \in Spots /\ <<"start", s>> \in Spots
  /\ \A x \in Spots : \/ \E c \in FatIndex : x = <<"fat", c>>
                      \/ \E s \in Slot : x = <<"live", s>>
                      \/ \E s \in Slot : x = <<"start", s>>
  /\ \A v, c : At(v, <<"fat", c>>) = v.fat[c]
  /\ \A v, s : At(v, <<"live", s>>) = v.live[s] /\ At(v, <<"start", s>>) = v.start[s]
BY DEF Spots, At

LEMMA HeldIs ==
  ASSUME NEW b
  PROVE  /\ Held(b) \subseteq Spots
         /\ \A c \in FatIndex : <<"fat", c>> \in Held(b)
         /\ \A s \in Slot : <<"live", s>> \in Held(b)
         /\ \A s \in Slot : <<"start", s>> \in Held(b) <=> b.live[s]
BY DEF Held, Spots

LEMMA AgreeIs ==
  ASSUME NEW v, NEW b, NEW m
  PROVE  Agree(v, b, m) <=>
           /\ \A c \in FatIndex : <<"fat", c>> \notin m => v.fat[c] = b.fat[c]
           /\ \A s \in Slot : <<"live", s>> \notin m => v.live[s] = b.live[s]
           /\ \A s \in Slot : b.live[s] /\ <<"start", s>> \notin m => v.start[s] = b.start[s]
<1>1. ASSUME Agree(v, b, m)
      PROVE  /\ \A c \in FatIndex : <<"fat", c>> \notin m => v.fat[c] = b.fat[c]
             /\ \A s \in Slot : <<"live", s>> \notin m => v.live[s] = b.live[s]
             /\ \A s \in Slot : b.live[s] /\ <<"start", s>> \notin m => v.start[s] = b.start[s]
  <2>1. \A x \in Held(b) : x \notin m => At(v, x) = At(b, x)
    BY <1>1 DEF Agree
  <2>2. QED BY <2>1, HeldIs, SpotIs
<1>2. ASSUME \A c \in FatIndex : <<"fat", c>> \notin m => v.fat[c] = b.fat[c],
             \A s \in Slot : <<"live", s>> \notin m => v.live[s] = b.live[s],
             \A s \in Slot : b.live[s] /\ <<"start", s>> \notin m => v.start[s] = b.start[s]
      PROVE  Agree(v, b, m)
  <2>1. ASSUME NEW x \in Held(b), x \notin m PROVE At(v, x) = At(b, x)
    <3>1. x \in Spots
      BY HeldIs
    <3>2. CASE \E c \in FatIndex : x = <<"fat", c>>
      BY <1>2, <2>1, <3>2, SpotIs
    <3>3. CASE \E s \in Slot : x = <<"live", s>>
      BY <1>2, <2>1, <3>3, SpotIs
    <3>4. CASE \E s \in Slot : x = <<"start", s>>
      BY <1>2, <2>1, <3>4, SpotIs, HeldIs
    <3>5. QED BY <3>1, <3>2, <3>3, <3>4, SpotIs
  <2>2. QED BY <2>1 DEF Agree
<1>3. QED BY <1>1, <1>2

LEMMA EditOne ==
  ASSUME NEW v \in Volume, NEW s \in Edits
  PROVE  /\ Apply(v, s) \in Volume /\ Spot(s) \in Spots
         /\ \A x \in Spots : At(Apply(v, s), x) = IF x = Spot(s) THEN s.val ELSE At(v, x)
<1>1. Apply(v, s) \in Volume
  BY ApplyType DEF Edits, StepSet, DataSteps
<1>2. CASE s \in FatSteps
  <2>1. s.op = "fat" /\ s.at \in FatIndex /\ Spot(s) = <<"fat", s.at>>
    BY <1>2 DEF FatSteps, Spot
  <2>2. Apply(v, s) = [v EXCEPT !.fat[s.at] = s.val]
    BY <2>1 DEF Apply
  <2>3. /\ Apply(v, s).fat = [v.fat EXCEPT ![s.at] = s.val]
        /\ Apply(v, s).live = v.live /\ Apply(v, s).start = v.start /\ v.fat \in [FatIndex -> FatVal]
    BY <2>2 DEF Volume, FatVal
  <2>4. QED BY <1>1, <2>1, <2>3, SpotIs
<1>3. CASE s \in LiveSteps
  <2>1. s.op = "live" /\ s.at \in Slot /\ Spot(s) = <<"live", s.at>>
    BY <1>3 DEF LiveSteps, Spot
  <2>2. Apply(v, s) = [v EXCEPT !.live[s.at] = s.val]
    BY <2>1 DEF Apply
  <2>3. /\ Apply(v, s).live = [v.live EXCEPT ![s.at] = s.val]
        /\ Apply(v, s).fat = v.fat /\ Apply(v, s).start = v.start /\ v.live \in [Slot -> BOOLEAN]
    BY <2>2 DEF Volume
  <2>4. ASSUME NEW x \in Spots
        PROVE  At(Apply(v, s), x) = IF x = Spot(s) THEN s.val ELSE At(v, x)
    <3> DEFINE w == Apply(v, s)
    <3>1. /\ w.fat = v.fat /\ w.start = v.start
          /\ \A u \in Slot : w.live[u] = IF u = s.at THEN s.val ELSE v.live[u]
      BY <2>1, <2>3
    <3> HIDE DEF w
    <3>2. CASE \E c \in FatIndex : x = <<"fat", c>>
      <4>1. PICK c \in FatIndex : x = <<"fat", c>>
        BY <3>2
      <4>2. At(w, x) = w.fat[c] /\ At(v, x) = v.fat[c] /\ x # Spot(s)
        BY <2>1, <4>1, SpotIs
      <4>3. QED BY <3>1, <4>2 DEF w
    <3>3. CASE \E u \in Slot : x = <<"live", u>>
      <4>1. PICK u \in Slot : x = <<"live", u>>
        BY <3>3
      <4>2. At(w, x) = w.live[u] /\ At(v, x) = v.live[u] /\ (x = Spot(s) <=> u = s.at)
        BY <2>1, <4>1, SpotIs
      <4>3. QED BY <3>1, <4>2 DEF w
    <3>4. CASE \E u \in Slot : x = <<"start", u>>
      <4>1. PICK u \in Slot : x = <<"start", u>>
        BY <3>4
      <4>2. At(w, x) = w.start[u] /\ At(v, x) = v.start[u] /\ (x = Spot(s) <=> FALSE)
        BY <2>1, <4>1, SpotIs
      <4>3. QED BY <3>1, <4>2 DEF w
    <3>5. QED BY <3>2, <3>3, <3>4, SpotIs
  <2>5. QED BY <1>1, <2>1, <2>4, SpotIs
<1>4. CASE s \in StartSteps
  <2>1. s.op = "start" /\ s.at \in Slot /\ Spot(s) = <<"start", s.at>>
    BY <1>4 DEF StartSteps, Spot
  <2>2. Apply(v, s) = [v EXCEPT !.start[s.at] = s.val]
    BY <2>1 DEF Apply
  <2>3. /\ Apply(v, s).start = [v.start EXCEPT ![s.at] = s.val]
        /\ Apply(v, s).fat = v.fat /\ Apply(v, s).live = v.live
        /\ v.start \in [Slot -> Cluster \cup {TAIL}]
    BY <2>2 DEF Volume
  <2>4. ASSUME NEW x \in Spots
        PROVE  At(Apply(v, s), x) = IF x = Spot(s) THEN s.val ELSE At(v, x)
    <3> DEFINE w == Apply(v, s)
    <3>1. /\ w.fat = v.fat /\ w.live = v.live
          /\ \A u \in Slot : w.start[u] = IF u = s.at THEN s.val ELSE v.start[u]
      BY <2>1, <2>3
    <3> HIDE DEF w
    <3>2. CASE \E c \in FatIndex : x = <<"fat", c>>
      <4>1. PICK c \in FatIndex : x = <<"fat", c>>
        BY <3>2
      <4>2. At(w, x) = w.fat[c] /\ At(v, x) = v.fat[c] /\ x # Spot(s)
        BY <2>1, <4>1, SpotIs
      <4>3. QED BY <3>1, <4>2 DEF w
    <3>3. CASE \E u \in Slot : x = <<"live", u>>
      <4>1. PICK u \in Slot : x = <<"live", u>>
        BY <3>3
      <4>2. At(w, x) = w.live[u] /\ At(v, x) = v.live[u] /\ (x = Spot(s) <=> FALSE)
        BY <2>1, <4>1, SpotIs
      <4>3. QED BY <3>1, <4>2 DEF w
    <3>4. CASE \E u \in Slot : x = <<"start", u>>
      <4>1. PICK u \in Slot : x = <<"start", u>>
        BY <3>4
      <4>2. At(w, x) = w.start[u] /\ At(v, x) = v.start[u] /\ (x = Spot(s) <=> u = s.at)
        BY <2>1, <4>1, SpotIs
      <4>3. QED BY <3>1, <4>2 DEF w
    <3>5. QED BY <3>2, <3>3, <3>4, SpotIs
  <2>5. QED BY <1>1, <2>1, <2>4, SpotIs
<1>5. QED BY <1>2, <1>3, <1>4 DEF Edits

\* A place holds what a step wrote there, or what it held.
LEMMA EditAll ==
  ASSUME NEW v \in Volume, NEW t \in Seq(Edits)
  PROVE  /\ ApplyAll(v, t) \in Volume
         /\ \A x \in Spots : \/ \E i \in 1..Len(t) : Spot(t[i]) = x /\ At(ApplyAll(v, t), x) = t[i].val
                             \/ /\ \A i \in 1..Len(t) : Spot(t[i]) # x
                                /\ At(ApplyAll(v, t), x) = At(v, x)
<1> DEFINE N == Len(t)
<1>1. N \in Nat /\ (\A i \in 1..N : t[i] \in Edits) /\ t \in Seq(StepSet)
  <2>1. Edits \subseteq StepSet
    BY DEF Edits, StepSet, DataSteps
  <2>2. QED BY <2>1
<1>2. PICK f \in Volumes(t) : Passes(f, v, t) /\ ApplyAll(v, t) = f[N]
  BY <1>1, ApplySteps
<1> DEFINE Fine(n, x) == \/ \E i \in 1..n : Spot(t[i]) = x /\ At(f[n], x) = t[i].val
                         \/ /\ \A i \in 1..n : Spot(t[i]) # x
                            /\ At(f[n], x) = At(v, x)
           S == {n \in 0..N : \A x \in Spots : Fine(n, x)}
<1>3. f \in [0..N -> Volume] /\ f[0] = v /\ \A n \in 1..N : f[n] = Apply(f[n - 1], t[n])
  BY <1>2 DEF Volumes, Passes
<1>4. 0 \in S
  BY <1>1, <1>3
<1>5. ASSUME NEW n \in 1..N, n - 1 \in S PROVE n \in S
  <2> DEFINE k == n - 1
             a == f[k]
             s == t[n]
  <2>1. k \in 0..N /\ (\A i \in 1..n : i \in 1..k \/ i = n) /\ (\A i \in 1..k : i \in 1..n)
        /\ n \in 1..n /\ n \in 0..N
    BY <1>1
  <2>2. a \in Volume /\ s \in Edits /\ f[n] = Apply(a, s)
    BY <1>1, <1>3, <2>1
  <2>3. \A x \in Spots : At(f[n], x) = IF x = Spot(s) THEN s.val ELSE At(a, x)
    <3> HIDE DEF a, s
    <3>1. QED BY <2>2, EditOne
  <2>4. \A x \in Spots : Fine(k, x)
    BY <1>5
  <2>5. ASSUME NEW x \in Spots PROVE Fine(n, x)
    <3>1. CASE x = Spot(s)
      BY <2>1, <2>3, <3>1
    <3>2. CASE x # Spot(s)
      <4>1. At(f[n], x) = At(f[k], x) /\ Fine(k, x) /\ Spot(t[n]) # x
        BY <2>3, <2>4, <3>2
      <4> HIDE DEF k, a, s
      <4>2. QED BY <4>1, <2>1
    <3>3. QED BY <3>1, <3>2
  <2> HIDE DEF Fine
  <2>6. QED BY <2>1, <2>5
<1>6. \A n \in 0..N : n \in S
  <2> HIDE DEF S, N
  <2>1. QED BY <1>1, <1>4, <1>5, Reaches
<1>7. N \in S
  <2>1. N \in 0..N
    BY <1>1
  <2> HIDE DEF S, N
  <2>2. QED BY <1>6, <2>1
<1>8. f[N] \in Volume
  BY <1>1, <1>3
<1>9. QED BY <1>2, <1>7, <1>8

-----------------------------------------------------------------------------
(***************************************************************************)
(* The replay of a log that has one record more.                           *)
(***************************************************************************)
\* The walk back stops at record i.
Stops(l, i) == \/ l[i].kind = "mrc"
               \/ (l[i].kind = "dealloc" /\ WholeGroup(l, i))

LEMMA RedoneIs ==
  ASSUME NEW l \in Seq(RecSet), NEW n \in 0..Len(l), n # 0 => Stops(l, n),
         \A i \in 1..Len(l) : Stops(l, i) => i <= n
  PROVE  Redone(l) = n
<1> DEFINE stops == {i \in 1..Len(l) : \/ l[i].kind = "mrc"
                                      \/ (l[i].kind = "dealloc" /\ WholeGroup(l, i))}
<1>1. Redone(l) = IF stops = {} THEN 0 ELSE CHOOSE i \in stops : \A j \in stops : j <= i
  BY DEF Redone
<1>2. Len(l) \in Nat
  OBVIOUS
<1>3. stops \subseteq 1..Len(l) /\ \A i \in stops : i <= n
  BY DEF Stops
<1>4. n # 0 => n \in stops
  BY <1>2 DEF Stops
<1> HIDE DEF stops
<1>5. CASE n = 0
  <2>1. stops = {}
    BY <1>2, <1>3, <1>5
  <2>2. QED BY <1>1, <1>5, <2>1
<1>6. CASE n # 0
  <2>1. n \in stops /\ \A j \in stops : j <= n
    BY <1>3, <1>4, <1>6
  <2>2. \A i \in stops : (\A j \in stops : j <= i) => i = n
    <3>1. ASSUME NEW i \in stops, \A j \in stops : j <= i PROVE i = n
      <4>1. n <= i /\ i <= n /\ i \in 1..Len(l)
        BY <1>3, <2>1, <3>1
      <4>2. QED BY <1>2, <4>1
    <3>2. QED BY <3>1
  <2>3. QED BY <1>1, <2>1, <2>2
<1>7. QED BY <1>5, <1>6

LEMMA RedoneStops ==
  ASSUME NEW l \in Seq(RecSet)
  PROVE  /\ Redone(l) \in 0..Len(l) /\ (Redone(l) # 0 => Stops(l, Redone(l)))
         /\ \A i \in 1..Len(l) : Stops(l, i) => i <= Redone(l)
<1> DEFINE S == {n \in 0..Len(l) : \A i \in 1..Len(l) : i > Len(l) - n => ~Stops(l, i)}
           A == {k \in 0..Len(l) : k # 0 => Stops(l, k)}
           F == {n \in 0..Len(l) : Len(l) - n \in A}
<1>1. Len(l) \in Nat
  OBVIOUS
<1>2. F # {} /\ F \in SUBSET Nat
  <2>1. Len(l) \in F
    BY <1>1
  <2>2. QED BY <1>1, <2>1
<1>3. PICK m \in F : \A y \in F : m <= y
  <2> HIDE DEF F
  <2>1. QED BY <1>2, Smallest
<1> DEFINE n == Len(l) - m
<1>4. n \in 0..Len(l) /\ (n # 0 => Stops(l, n))
  BY <1>1, <1>3
<1>5. ASSUME NEW i \in 1..Len(l), Stops(l, i) PROVE i <= n
  <2>1. Len(l) - i \in F
    BY <1>1, <1>5
  <2>2. m <= Len(l) - i /\ m \in 0..Len(l)
    BY <1>3, <2>1
  <2>3. QED BY <1>1, <2>2
<1> HIDE DEF n
<1>6. Redone(l) = n
  BY <1>4, <1>5, RedoneIs
<1>7. QED BY <1>4, <1>5, <1>6

\* A record more does not change where the walk stops before it.
LEMMA StopsKeeps ==
  ASSUME NEW l \in Seq(RecSet), NEW r \in RecSet, NEW l2, l2 = Append(l, r), NEW i \in 1..Len(l)
  PROVE  Stops(l2, i) <=> Stops(l, i)
<1>1. /\ Len(l) \in Nat /\ l2[i] = l[i] /\ l[i] \in RecSet
      /\ \A j \in 1..Len(l) : l2[j] = l[j]
  OBVIOUS
<1>2. CASE l[i].kind = "dealloc"
  <2>1. l[i].count \in Nat \ {0}
    BY <1>1, <1>2, OfKind DEF DeallocSet
  <2> DEFINE first == i - l[i].count + 1
  <2>2. first \in Int /\ (first >= 1 => \A j \in first..i : j \in 1..Len(l))
    BY <1>1, <2>1
  <2>3. WholeGroup(l2, i) <=> WholeGroup(l, i)
    BY <1>1, <2>2 DEF WholeGroup
  <2>4. QED BY <1>1, <2>3 DEF Stops
<1>3. CASE l[i].kind # "dealloc"
  BY <1>1, <1>3 DEF Stops
<1>4. QED BY <1>2, <1>3

LEMMA RedoneAppend ==
  ASSUME NEW l \in Seq(RecSet), NEW r \in RecSet, NEW l2, l2 = Append(l, r)
  PROVE  /\ l2 \in Seq(RecSet) /\ Len(l2) = Len(l) + 1 /\ l2[Len(l2)] = r
         /\ Stops(l2, Len(l2)) => Redone(l2) = Len(l2)
         /\ ~Stops(l2, Len(l2)) => Redone(l2) = Redone(l)
<1> DEFINE N == Len(l2)
<1>1. /\ Len(l) \in Nat /\ N = Len(l) + 1 /\ l2 \in Seq(RecSet) /\ l2[N] = r
      /\ \A i \in 1..N : i \in 1..Len(l) \/ i = N
  OBVIOUS
<1> HIDE DEF N
<1>2. ASSUME Stops(l2, N) PROVE Redone(l2) = N
  <2>1. N \in 0..Len(l2) /\ \A i \in 1..Len(l2) : i <= N
    BY <1>1 DEF N
  <2>2. QED BY <1>1, <1>2, <2>1, RedoneIs
<1>3. ASSUME ~Stops(l2, N) PROVE Redone(l2) = Redone(l)
  <2> DEFINE n == Redone(l)
  <2>1. n \in 0..Len(l) /\ (n # 0 => Stops(l, n)) /\ \A i \in 1..Len(l) : Stops(l, i) => i <= n
    BY RedoneStops
  <2> HIDE DEF n
  <2>2. n \in 0..Len(l2) /\ (n # 0 => n \in 1..Len(l))
    BY <1>1, <2>1 DEF N
  <2>3. n # 0 => Stops(l2, n)
    BY <2>1, <2>2, StopsKeeps
  <2>4. ASSUME NEW i \in 1..Len(l2), Stops(l2, i) PROVE i <= n
    <3>1. i \in 1..Len(l)
      BY <1>1, <1>3, <2>4 DEF N
    <3>2. Stops(l, i)
      BY <2>4, <3>1, StopsKeeps
    <3>3. QED BY <2>1, <3>1, <3>2
  <2>5. Redone(l2) = n
    BY <1>1, <2>2, <2>3, <2>4, RedoneIs
  <2>6. QED BY <2>5 DEF n
<1>4. QED BY <1>1, <1>2, <1>3 DEF N

\* What is redone depends on the records up to it.
LEMMA RedoKeeps ==
  ASSUME NEW l \in Seq(RecSet), NEW r \in RecSet, NEW l2, l2 = Append(l, r), NEW n, n = Redone(l)
  PROVE  RedoSteps(l2, n) = RedoSteps(l, n)
<1>1. Len(l) \in Nat /\ \A j \in 1..Len(l) : l2[j] = l[j] /\ l[j] \in RecSet
  OBVIOUS
<1>2. n \in 0..Len(l) /\ (n # 0 => Stops(l, n))
  BY RedoneStops
<1>3. CASE n = 0
  BY <1>3 DEF RedoSteps
<1>4. CASE n # 0 /\ l[n].kind = "mrc"
  <2>1. n \in 1..Len(l)
    BY <1>1, <1>2, <1>4
  <2>2. QED BY <1>1, <1>4, <2>1 DEF RedoSteps
<1>5. CASE n # 0 /\ l[n].kind # "mrc"
  <2> DEFINE m == l[n].count
             first == n - m + 1
  <2>1. n \in 1..Len(l) /\ l[n].kind = "dealloc" /\ WholeGroup(l, n)
    BY <1>1, <1>2, <1>5 DEF Stops
  <2>2. m \in Nat \ {0} /\ first \in 1..n
    <3>1. m \in Nat \ {0}
      BY <1>1, <2>1, OfKind DEF DeallocSet
    <3>2. QED BY <1>1, <2>1, <3>1 DEF WholeGroup
  <2>3. first \in 1..Len(l) /\ \A k \in 1..m : first + k - 1 \in 1..Len(l)
    BY <1>1, <2>1, <2>2
  <2>4. l2[n] = l[n] /\ l2[first] = l[first] /\ \A k \in 1..m : l2[first + k - 1] = l[first + k - 1]
    BY <1>1, <2>1, <2>3
  <2>5. [k \in 1..m |-> Frees(l2[first + k - 1].clus)] = [k \in 1..m |-> Frees(l[first + k - 1].clus)]
    BY <2>4
  <2>6. /\ RedoSteps(l, n) = RedoSource(l[first])
                              \o FlattenSeq([k \in 1..m |-> Frees(l[first + k - 1].clus)])
        /\ RedoSteps(l2, n) = RedoSource(l2[first])
                              \o FlattenSeq([k \in 1..m |-> Frees(l2[first + k - 1].clus)])
    BY <1>5, <2>4 DEF RedoSteps
  <2>7. QED BY <2>4, <2>5, <2>6
<1>6. QED BY <1>3, <1>4, <1>5

\* A record that is undone is undone first.
LEMMA ReplayAppend ==
  ASSUME NEW l \in Seq(RecSet), NEW r \in RecSet, NEW l2, l2 = Append(l, r), ~Stops(l2, Len(l2))
  PROVE  ReplaySteps(l2) = Undo(r) \o ReplaySteps(l)
<1> DEFINE n == Redone(l)
           w == SubSeq(l, n + 1, Len(l))
           w2 == SubSeq(l2, n + 1, Len(l2))
           u == Reverse(w)
           u2 == Reverse(w2)
           s == [k \in 1..Len(u) |-> Undo(u[k])]
           s2 == [k \in 1..Len(u2) |-> Undo(u2[k])]
           L == Len(l) - n
<1>1. n \in 0..Len(l) /\ Len(l) \in Nat
  BY RedoneStops
<1>2. Redone(l2) = n /\ l2 \in Seq(RecSet) /\ Len(l2) = Len(l) + 1
  BY RedoneAppend
<1>3. ReplaySteps(l) = FlattenSeq(s) \o RedoSteps(l, n)
  BY DEF ReplaySteps
<1>4. ReplaySteps(l2) = FlattenSeq(s2) \o RedoSteps(l, n)
  <2>1. ReplaySteps(l2) = FlattenSeq(s2) \o RedoSteps(l2, n)
    <3> DEFINE x == Redone(l2)
    <3>1. ReplaySteps(l2) = FlattenSeq([k \in 1..Len(Reverse(SubSeq(l2, x + 1, Len(l2)))) |->
              Undo(Reverse(SubSeq(l2, x + 1, Len(l2)))[k])]) \o RedoSteps(l2, x)
      BY DEF ReplaySteps
    <3>2. x = n
      BY <1>2
    <3> HIDE DEF x, n
    <3>3. QED BY <3>1, <3>2
  <2>2. RedoSteps(l2, n) = RedoSteps(l, n)
    BY RedoKeeps
  <2>3. QED BY <2>1, <2>2
<1> HIDE DEF n
<1>5. /\ w \in Seq(RecSet) /\ Len(w) = L /\ L \in Nat
      /\ w2 \in Seq(RecSet) /\ Len(w2) = L + 1 /\ w2[L + 1] = r
      /\ \A i \in 1..L : w2[i] = w[i]
  BY <1>1, <1>2
<1> HIDE DEF w, w2, L
<1>6. /\ u \in Seq(RecSet) /\ Len(u) = L /\ \A k \in 1..L : u[k] = w[(L - k) + 1]
      /\ u2 \in Seq(RecSet) /\ Len(u2) = L + 1 /\ \A k \in 1..(L + 1) : u2[k] = w2[((L + 1) - k) + 1]
  BY <1>5 DEF Reverse
<1>7. u2[1] = r /\ \A k \in 1..L, j \in 2..(L + 1) : j = k + 1 => u2[j] = u[k]
  <2>1. u2[1] = r
    <3>1. 1 \in 1..(L + 1) /\ ((L + 1) - 1) + 1 = L + 1
      BY <1>5
    <3>2. QED BY <1>5, <1>6, <3>1
  <2>2. ASSUME NEW k \in 1..L, NEW j \in 2..(L + 1), j = k + 1 PROVE u2[j] = u[k]
    <3> DEFINE i == (L - k) + 1
    <3>1. i \in 1..L /\ ((L + 1) - j) + 1 = i /\ j \in 1..(L + 1)
      BY <1>5, <2>2
    <3>2. u2[j] = w2[i] /\ u[k] = w[i]
      BY <1>6, <3>1
    <3>3. QED BY <1>5, <3>1, <3>2
  <2>3. QED BY <2>1, <2>2
<1> HIDE DEF u, u2
<1>8. s \in Seq(Seq(Edits)) /\ Len(s) = L /\ \A k \in 1..L : s[k] = Undo(u[k])
  <2>1. \A k \in 1..L : u[k] \in RecSet
    BY <1>6
  <2>2. \A k \in 1..L : Undo(u[k]) \in Seq(Edits)
    BY <2>1, UndoType
  <2>3. s = [k \in 1..L |-> Undo(u[k])]
    BY <1>6
  <2> HIDE DEF s
  <2>4. QED BY <1>5, <2>2, <2>3
<1>9. s2 \in Seq(Seq(Edits)) /\ Len(s2) = L + 1 /\ \A k \in 1..(L + 1) : s2[k] = Undo(u2[k])
  <2>1. \A k \in 1..(L + 1) : u2[k] \in RecSet
    BY <1>6
  <2>2. \A k \in 1..(L + 1) : Undo(u2[k]) \in Seq(Edits)
    BY <2>1, UndoType
  <2>3. s2 = [k \in 1..(L + 1) |-> Undo(u2[k])]
    BY <1>6
  <2> HIDE DEF s2
  <2>4. QED BY <1>5, <2>2, <2>3
<1> HIDE DEF s, s2
<1>10. Undo(r) \in Seq(Edits)
  BY UndoType
<1> DEFINE a == Undo(r)
<1>11. Preceded(a, s, s2)
  <2>1. s2[1] = a
    BY <1>5, <1>7, <1>9
  <2>2. ASSUME NEW k \in 1..L, NEW j \in 2..(L + 1), j = k + 1 PROVE s2[j] = s[k]
    <3>1. j \in 1..(L + 1)
      BY <1>5
    <3>2. QED BY <1>7, <1>8, <1>9, <2>2, <3>1
  <2>3. QED BY <1>8, <1>9, <2>1, <2>2 DEF Preceded
<1>13. FlattenSeq(s2) = a \o FlattenSeq(s) /\ FlattenSeq(s) \in Seq(Edits)
  <2>1. a \in Seq(Edits) /\ s \in Seq(Seq(Edits)) /\ s2 \in Seq(Seq(Edits))
    BY <1>8, <1>9, <1>10
  <2> HIDE DEF a
  <2>2. QED BY <1>11, <2>1, FlattenCons
<1>14. RedoSteps(l, n) \in Seq(Edits)
  BY RedoStepsType DEF n
<1>15. QED
  <2> DEFINE p == FlattenSeq(s)
             q == RedoSteps(l, n)
  <2>1. (a \o p) \o q = a \o (p \o q)
    <3>1. a \in Seq(Edits) /\ p \in Seq(Edits) /\ q \in Seq(Edits)
      BY <1>10, <1>13, <1>14
    <3> HIDE DEF a, p, q
    <3>2. QED BY <3>1, Associate
  <2>2. QED BY <1>3, <1>4, <1>13, <2>1

\* A record that is redone is the only one.
LEMMA ReplayStop ==
  ASSUME NEW l \in Seq(RecSet), NEW r \in RecSet, NEW l2, l2 = Append(l, r), Stops(l2, Len(l2))
  PROVE  ReplaySteps(l2) = RedoSteps(l2, Len(l2))
<1> DEFINE n == Len(l2)
           w == SubSeq(l2, n + 1, n)
           s == [k \in 1..Len(Reverse(w)) |-> Undo(Reverse(w)[k])]
<1>1. Redone(l2) = n /\ l2 \in Seq(RecSet) /\ n \in Nat
  <2>1. l2 \in Seq(RecSet) /\ Redone(l2) = Len(l2)
    BY RedoneAppend
  <2>2. QED BY <2>1
<1>2. ReplaySteps(l2) = FlattenSeq(s) \o RedoSteps(l2, n)
  <2> DEFINE x == Redone(l2)
  <2>1. ReplaySteps(l2) = FlattenSeq([k \in 1..Len(Reverse(SubSeq(l2, x + 1, Len(l2)))) |->
              Undo(Reverse(SubSeq(l2, x + 1, Len(l2)))[k])]) \o RedoSteps(l2, x)
    BY DEF ReplaySteps
  <2>2. x = n
    BY <1>1
  <2> HIDE DEF x
  <2>3. QED BY <2>1, <2>2
<1>3. w = <<>>
  BY <1>1
<1>4. Len(Reverse(w)) = 0
  BY <1>3 DEF Reverse
<1>5. s \in Seq(Seq(Edits)) /\ Len(s) = 0
  BY <1>4
<1>6. FlattenSeq(s) = <<>>
  <2> HIDE DEF s
  <2>1. QED BY <1>5, FlattenEmpty
<1>7. RedoSteps(l2, n) \in Seq(Edits)
  BY <1>1, RedoStepsType
<1>8. QED
  <2> HIDE DEF s
  <2>1. QED BY <1>2, <1>6, <1>7

-----------------------------------------------------------------------------
(***************************************************************************)
(* The volumes a log restores.                                             *)
(***************************************************************************)
SpotsOf(t) == {Spot(t[i]) : i \in 1..Len(t)}

\* Replaying l makes b of every volume that agrees with b outside of m, and
\* writes no place that tells the files of b outside of m.
Restores(l, b, m) ==
  /\ SpotsOf(ReplaySteps(l)) \cap Held(b) \subseteq m
  /\ \A v \in Volume : Agree(v, b, m) => Agree(ApplyAll(v, ReplaySteps(l)), b, {})

LEMMA EditsAreSteps == Edits \subseteq StepSet
BY DEF Edits, StepSet, DataSteps

LEMMA SpotsConcat ==
  ASSUME NEW a \in Seq(Edits), NEW b \in Seq(Edits)
  PROVE  SpotsOf(a \o b) = SpotsOf(a) \cup SpotsOf(b)
<1> DEFINE t == a \o b
           A == Len(a)
           B == Len(b)
<1>1. /\ A \in Nat /\ B \in Nat /\ Len(t) = A + B /\ \A i \in 1..A : t[i] = a[i]
      /\ \A i \in 1..(A + B) : i > A => t[i] = b[i - A]
  OBVIOUS
<1>2. ASSUME NEW i \in 1..A PROVE i \in 1..Len(t) /\ t[i] = a[i]
  BY <1>1
<1>3. ASSUME NEW i \in 1..B PROVE i + A \in 1..Len(t) /\ t[i + A] = b[i]
  <2> DEFINE j == i + A
  <2>1. j \in 1..(A + B) /\ j > A /\ j - A = i
    BY <1>1
  <2> HIDE DEF j
  <2>2. t[j] = b[j - A]
    BY <1>1, <2>1
  <2>3. QED BY <1>1, <2>1, <2>2 DEF j
<1>4. ASSUME NEW i \in 1..Len(t) PROVE (i \in 1..A /\ t[i] = a[i]) \/ (i - A \in 1..B /\ t[i] = b[i - A])
  BY <1>1
<1> HIDE DEF t, A, B
<1>5. SpotsOf(a) \subseteq SpotsOf(t)
  BY <1>2 DEF SpotsOf, A
<1>6. SpotsOf(b) \subseteq SpotsOf(t)
  <2>1. ASSUME NEW i \in 1..B PROVE Spot(b[i]) \in SpotsOf(t)
    BY <1>3 DEF SpotsOf
  <2>2. QED BY <2>1 DEF SpotsOf, B
<1>7. SpotsOf(t) \subseteq SpotsOf(a) \cup SpotsOf(b)
  <2>1. ASSUME NEW i \in 1..Len(t) PROVE Spot(t[i]) \in SpotsOf(a) \cup SpotsOf(b)
    BY <1>4 DEF SpotsOf, A, B
  <2>2. QED BY <2>1 DEF SpotsOf
<1>8. QED BY <1>5, <1>6, <1>7 DEF t

LEMMA RestoresNone ==
  ASSUME NEW b \in Volume
  PROVE  Restores(<<>>, b, {}) /\ ReplaySteps(<<>>) = <<>>
<1> DEFINE n == Redone(<<>>)
           w == SubSeq(<<>>, n + 1, Len(<<>>))
           s == [k \in 1..Len(Reverse(w)) |-> Undo(Reverse(w)[k])]
<1>1. n = 0
  <2>1. <<>> \in Seq(RecSet) /\ Len(<<>>) = 0
    OBVIOUS
  <2>2. n \in 0..0
    BY <2>1, RedoneStops
  <2>3. QED BY <2>2
<1>2. ReplaySteps(<<>>) = FlattenSeq(s) \o RedoSteps(<<>>, n)
  BY DEF ReplaySteps
<1>3. w = <<>>
  BY <1>1
<1>4. Len(Reverse(w)) = 0
  <2>1. Len(w) = 0
    BY <1>3
  <2> HIDE DEF w
  <2>2. QED BY <2>1 DEF Reverse
<1>5. s \in Seq(Seq(Edits)) /\ Len(s) = 0
  BY <1>4
<1>6. FlattenSeq(s) = <<>>
  <2> HIDE DEF s
  <2>1. QED BY <1>5, FlattenEmpty
<1>7. RedoSteps(<<>>, n) = <<>>
  BY <1>1 DEF RedoSteps
<1>8. ReplaySteps(<<>>) = <<>>
  <2> HIDE DEF s
  <2>1. QED BY <1>2, <1>6, <1>7
<1>9. SpotsOf(<<>>) = {}
  BY DEF SpotsOf
<1>10. QED BY <1>8, <1>9, ApplyNone DEF Restores

\* A record that is undone to what b holds.
LEMMA RestoresUndo ==
  ASSUME NEW l \in Seq(RecSet), NEW r \in RecSet, NEW l2, l2 = Append(l, r), ~Stops(l2, Len(l2)),
         NEW b \in Volume, NEW m, Restores(l, b, m), NEW u, u = Undo(r),
         \A i \in 1..Len(u) : Spot(u[i]) \in Held(b) \ m => u[i].val = At(b, Spot(u[i]))
  PROVE  Restores(l2, b, m \cup SpotsOf(u))
<1> DEFINE R == ReplaySteps(l)
           m2 == m \cup SpotsOf(u)
<1>1. R \in Seq(Edits) /\ u \in Seq(Edits) /\ ReplaySteps(l2) = u \o R
  BY ReplayStepsType, UndoType, ReplayAppend
<1>2. SpotsOf(u \o R) \cap Held(b) \subseteq m2
  <2>1. SpotsOf(u \o R) = SpotsOf(u) \cup SpotsOf(R)
    <3> HIDE DEF R
    <3>1. QED BY <1>1, SpotsConcat
  <2>2. QED BY <2>1 DEF Restores
<1> HIDE DEF R, m2
<1>3. ASSUME NEW v \in Volume, Agree(v, b, m2) PROVE Agree(ApplyAll(v, u \o R), b, {})
  <2> DEFINE w == ApplyAll(v, u)
  <2>1. /\ w \in Volume
        /\ \A x \in Spots : \/ \E i \in 1..Len(u) : Spot(u[i]) = x /\ At(w, x) = u[i].val
                            \/ ((\A i \in 1..Len(u) : Spot(u[i]) # x) /\ At(w, x) = At(v, x))
    BY <1>1, EditAll
  <2> HIDE DEF w
  <2>2. ASSUME NEW x \in Held(b) \ m PROVE At(w, x) = At(b, x)
    <3>1. x \in Spots
      BY HeldIs
    <3>2. CASE \E i \in 1..Len(u) : Spot(u[i]) = x /\ At(w, x) = u[i].val
      BY <2>2, <3>2
    <3>3. CASE (\A i \in 1..Len(u) : Spot(u[i]) # x) /\ At(w, x) = At(v, x)
      <4>1. x \notin m2
        BY <3>3 DEF m2, SpotsOf
      <4>2. At(v, x) = At(b, x)
        BY <1>3, <4>1 DEF Agree
      <4>3. QED BY <3>3, <4>2
    <3>4. QED BY <2>1, <3>1, <3>2, <3>3
  <2>3. Agree(w, b, m)
    BY <2>2 DEF Agree
  <2>4. Agree(ApplyAll(w, R), b, {})
    BY <2>1, <2>3 DEF Restores, R
  <2>5. ApplyAll(v, u \o R) = ApplyAll(w, R)
    <3>1. u \in Seq(StepSet) /\ R \in Seq(StepSet)
      BY <1>1, EditsAreSteps
    <3>2. QED BY <3>1, ApplyConcat DEF w
  <2>6. QED BY <2>4, <2>5
<1>4. QED BY <1>1, <1>2, <1>3 DEF Restores, m2

\* A record of a group that is not complete yet.
LEMMA RestoresPart ==
  ASSUME NEW l \in Seq(RecSet), NEW r \in RecSet, NEW l2, l2 = Append(l, r), ~Stops(l2, Len(l2)),
         NEW b \in Volume, NEW m, Restores(l, b, m), r.kind = "dealloc"
  PROVE  Restores(l2, b, m) /\ ReplaySteps(l2) = ReplaySteps(l)
<1>1. Undo(r) = <<>>
  BY DEF Undo
<1>2. SpotsOf(<<>>) = {} /\ \A i \in 1..Len(<<>>) : FALSE
  BY DEF SpotsOf
<1>3. Restores(l2, b, m \cup SpotsOf(<<>>))
  BY <1>1, <1>2, RestoresUndo
<1>4. m \cup SpotsOf(<<>>) = m
  BY <1>2
<1>5. ReplaySteps(l2) = <<>> \o ReplaySteps(l)
  BY <1>1, ReplayAppend
<1>6. ReplaySteps(l) \in Seq(Edits)
  BY ReplayStepsType
<1>7. QED
  <2>1. <<>> \o ReplaySteps(l) = ReplaySteps(l)
    BY <1>6
  <2>2. QED BY <1>3, <1>4, <1>5, <2>1

-----------------------------------------------------------------------------
(***************************************************************************)
(* What a redone record writes.                                            *)
(***************************************************************************)
\* What the last cluster in front of a deallocated chain leads to.
Beyond(r) == IF r.next # TAIL THEN r.next ELSE r.d.succ
\* What a truncation cuts: the last cluster it leaves, or the entry.
CutSpots(d) == IF ~d.trunc THEN {}
               ELSE IF d.newlast # TAIL THEN {<<"fat", d.newlast>>}
               ELSE IF d.slot # None THEN {<<"start", d.slot>>} ELSE {}
SourceSpots(d) == {<<"fat", d.prev>>} \cup CutSpots(d)

LEMMA SpotIntro ==
  /\ \A c, x : Spot(Fat(c, x)) = <<"fat", c>> /\ Fat(c, x).val = x
  /\ \A s, x : Spot(Start(s, x)) = <<"start", s>> /\ Start(s, x).val = x
  /\ \A s, x : Spot(Live(s, x)) = <<"live", s>> /\ Live(s, x).val = x
BY DEF Spot, Fat, Start, Live

LEMMA EditIntro ==
  /\ \A c \in FatIndex, x \in FatVal : Fat(c, x) \in Edits
  /\ \A s \in Slot, x \in Cluster \cup {TAIL} : Start(s, x) \in Edits
  /\ \A s \in Slot, x \in BOOLEAN : Live(s, x) \in Edits
BY StepTypes DEF Edits

LEMMA PlaceFacts ==
  ASSUME NEW r \in DeallocSet \cup MrcRecs
  PROVE  /\ r.d \in Places /\ r.d.trunc \in BOOLEAN /\ r.d.slot \in Slot \cup {None}
         /\ r.d.newlast \in FatIndex \cup {TAIL} /\ r.d.prev \in FatIndex
         /\ r.d.succ \in Cluster \cup {TAIL} /\ r.next \in Cluster \cup {TAIL}
         /\ Beyond(r) \in Cluster \cup {TAIL}
BY DEF DeallocSet, MrcRecs, Places, Beyond

LEMMA SpotsOne ==
  ASSUME NEW s
  PROVE  SpotsOf(<<s>>) = {Spot(s)}
BY DEF SpotsOf

LEMMA SpotsNone == SpotsOf(<<>>) = {}
BY DEF SpotsOf

LEMMA RedoSourceIs ==
  ASSUME NEW r \in DeallocSet \cup MrcRecs, NEW t, t = RedoSource(r)
  PROVE  /\ t \in Seq(Edits) /\ SpotsOf(t) = SourceSpots(r.d) /\ SourceSpots(r.d) \subseteq Spots
         /\ \A v \in Volume :
              /\ ApplyAll(v, t) \in Volume
              /\ \A x \in Spots : At(ApplyAll(v, t), x) =
                   IF x = <<"fat", r.d.prev>> THEN Beyond(r)
                   ELSE IF x \in SourceSpots(r.d) THEN TAIL ELSE At(v, x)
<1> DEFINE d == r.d
           y == Fat(d.prev, Beyond(r))
           rest == <<y>>
           cut == If(d.trunc, IF d.newlast = TAIL THEN If(d.slot # None, <<Start(d.slot, TAIL)>>)
                              ELSE <<Fat(d.newlast, TAIL)>>)
<1>1. /\ d.trunc \in BOOLEAN /\ d.slot \in Slot \cup {None}
      /\ d.newlast \in FatIndex \cup {TAIL} /\ d.prev \in FatIndex
      /\ d.succ \in Cluster \cup {TAIL} /\ r.next \in Cluster \cup {TAIL}
      /\ Beyond(r) \in Cluster \cup {TAIL}
  BY PlaceFacts
<1>2. t = cut \o rest /\ t \in Seq(Edits)
  BY RedoSourceType DEF RedoSource, Beyond
<1>3. y \in Edits /\ Spot(y) = <<"fat", d.prev>> /\ y.val = Beyond(r)
  BY <1>1, EditIntro, SpotIntro DEF FatVal
<1>4. \/ (cut = <<>> /\ CutSpots(d) = {})
      \/ \E z \in Edits : cut = <<z>> /\ CutSpots(d) = {Spot(z)} /\ z.val = TAIL
  <2>1. CASE d.trunc /\ d.newlast # TAIL
    <3> DEFINE z == Fat(d.newlast, TAIL)
    <3>1. z \in Edits /\ Spot(z) = <<"fat", d.newlast>> /\ z.val = TAIL
      BY <1>1, <2>1, EditIntro, SpotIntro DEF FatVal
    <3>2. cut = <<z>> /\ CutSpots(d) = {Spot(z)}
      BY <2>1, <3>1 DEF If, CutSpots
    <3>3. QED BY <3>1, <3>2
  <2>2. CASE d.trunc /\ d.newlast = TAIL /\ d.slot # None
    <3> DEFINE z == Start(d.slot, TAIL)
    <3>1. z \in Edits /\ Spot(z) = <<"start", d.slot>> /\ z.val = TAIL
      BY <1>1, <2>2, EditIntro, SpotIntro
    <3>2. cut = <<z>> /\ CutSpots(d) = {Spot(z)}
      BY <2>2, <3>1 DEF If, CutSpots
    <3>3. QED BY <3>1, <3>2
  <2>3. CASE ~d.trunc \/ (d.newlast = TAIL /\ d.slot = None)
    BY <2>3 DEF If, CutSpots
  <2>4. QED BY <2>1, <2>2, <2>3
<1>5. SourceSpots(d) = {Spot(y)} \cup CutSpots(d)
  BY <1>3 DEF SourceSpots
<1> HIDE DEF cut, y, d
<1>6. rest \in Seq(Edits) /\ SpotsOf(rest) = {Spot(y)}
  BY <1>3, SpotsOne
<1>7. cut \in Seq(Edits) /\ SpotsOf(cut) = CutSpots(d)
  <2>1. CASE cut = <<>> /\ CutSpots(d) = {}
    BY <2>1, SpotsNone
  <2>2. CASE \E z \in Edits : cut = <<z>> /\ CutSpots(d) = {Spot(z)} /\ z.val = TAIL
    BY <2>2, SpotsOne
  <2>3. QED BY <1>4, <2>1, <2>2
<1>8. SpotsOf(t) = SourceSpots(d)
  <2> HIDE DEF rest
  <2>1. SpotsOf(cut \o rest) = SpotsOf(cut) \cup SpotsOf(rest)
    BY <1>6, <1>7, SpotsConcat
  <2>2. QED BY <1>2, <1>5, <1>6, <1>7, <2>1
<1>9. SourceSpots(d) \subseteq Spots
  <2>1. \A z \in Edits : Spot(z) \in Spots
    BY StepTypes DEF Edits, FatSteps, StartSteps, LiveSteps, Spot, Spots
  <2>2. QED BY <1>3, <1>4, <1>5, <2>1
<1>10. ASSUME NEW v \in Volume
       PROVE  /\ ApplyAll(v, t) \in Volume
              /\ \A x \in Spots : At(ApplyAll(v, t), x) =
                   IF x = <<"fat", d.prev>> THEN Beyond(r)
                   ELSE IF x \in SourceSpots(d) THEN TAIL ELSE At(v, x)
  <2> DEFINE w == ApplyAll(v, cut)
  <2>1. w \in Volume /\ \A x \in Spots : At(w, x) = IF x \in CutSpots(d) THEN TAIL ELSE At(v, x)
    <3>1. CASE cut = <<>> /\ CutSpots(d) = {}
      BY <3>1, ApplyNone
    <3>2. CASE \E z \in Edits : cut = <<z>> /\ CutSpots(d) = {Spot(z)} /\ z.val = TAIL
      <4>1. PICK z \in Edits : cut = <<z>> /\ CutSpots(d) = {Spot(z)} /\ z.val = TAIL
        BY <3>2
      <4>2. w = Apply(v, z)
        <5>1. z \in StepSet
          BY EditsAreSteps
        <5>2. ApplyAll(v, <<z>>) = Apply(v, z)
          BY <5>1, ApplyOne
        <5>3. QED BY <4>1, <5>2
      <4> HIDE DEF w
      <4>3. QED BY <4>1, <4>2, EditOne
    <3>3. QED BY <1>4, <3>1, <3>2
  <2>2. ApplyAll(v, t) = Apply(w, y)
    <3>1. cut \in Seq(StepSet) /\ rest \in Seq(StepSet) /\ y \in StepSet
      BY <1>3, <1>6, <1>7, EditsAreSteps
    <3>2. ApplyAll(v, cut \o rest) = ApplyAll(w, rest)
      <4> HIDE DEF rest
      <4>1. QED BY <3>1, ApplyConcat
    <3>3. ApplyAll(w, rest) = Apply(w, y)
      <4> HIDE DEF w
      <4>1. QED BY <2>1, <3>1, ApplyOne
    <3>4. QED BY <1>2, <3>2, <3>3
  <2> HIDE DEF w
  <2>3. /\ Apply(w, y) \in Volume
        /\ \A x \in Spots : At(Apply(w, y), x) = IF x = Spot(y) THEN y.val ELSE At(w, x)
    BY <1>3, <2>1, EditOne
  <2>4. QED BY <1>3, <1>5, <2>1, <2>2, <2>3
<1>11. QED BY <1>2, <1>8, <1>9, <1>10 DEF d

\* Steps that free clusters.
FreeEdits == {Fat(c, FREE) : c \in Cluster}

LEMMA FreeAll ==
  ASSUME NEW v \in Volume, NEW t \in Seq(FreeEdits)
  PROVE  /\ t \in Seq(Edits) /\ ApplyAll(v, t) \in Volume
         /\ \A x \in Spots : At(ApplyAll(v, t), x) = IF x \in SpotsOf(t) THEN FREE ELSE At(v, x)
<1>1. FreeEdits \subseteq Edits /\ \A s \in FreeEdits : s.val = FREE
  BY EditIntro, SpotIntro, ConstantFacts DEF FreeEdits, FatVal
<1>2. t \in Seq(Edits) /\ \A i \in 1..Len(t) : t[i].val = FREE
  BY <1>1
<1>3. /\ ApplyAll(v, t) \in Volume
      /\ \A x \in Spots : \/ \E i \in 1..Len(t) : Spot(t[i]) = x /\ At(ApplyAll(v, t), x) = t[i].val
                          \/ /\ \A i \in 1..Len(t) : Spot(t[i]) # x
                             /\ At(ApplyAll(v, t), x) = At(v, x)
  BY <1>2, EditAll
<1>4. QED BY <1>2, <1>3 DEF SpotsOf

LEMMA FreesAre ==
  ASSUME NEW cs \in Seq(Cluster)
  PROVE  Frees(cs) \in Seq(FreeEdits) /\ SpotsOf(Frees(cs)) = {<<"fat", c>> : c \in ToSet(cs)}
<1>1. Frees(cs) \in Seq(FreeEdits) /\ Len(Frees(cs)) = Len(cs)
      /\ \A i \in 1..Len(cs) : Frees(cs)[i] = Fat(cs[i], FREE)
  BY DEF Frees, FreeEdits
<1>2. \A i \in 1..Len(cs) : Spot(Frees(cs)[i]) = <<"fat", cs[i]>>
  BY <1>1, SpotIntro
<1>3. ToSet(cs) = {cs[i] : i \in 1..Len(cs)}
  BY SetIs
<1> DEFINE Z == {<<"fat", cs[i]>> : i \in 1..Len(cs)}
<1>4. SpotsOf(Frees(cs)) = Z
  BY <1>1, <1>2 DEF SpotsOf
<1>5. Z = {<<"fat", c>> : c \in ToSet(cs)}
  BY <1>3
<1>6. QED BY <1>1, <1>4, <1>5

LEMMA FlattenHas ==
  ASSUME NEW S, NEW ps \in Seq(Seq(S)), NEW p, p = FlattenSeq(ps)
  PROVE  /\ p \in Seq(S)
         /\ \A x : x \in ToSet(p) <=> \E k \in 1..Len(ps) : x \in ToSet(ps[k])
<1> DEFINE n == Len(ps)
<1>1. n \in Nat /\ (\A k \in 1..n : ps[k] \in Seq(S)) /\ p \in Seq(S)
  BY FlattenType
<1>2. CASE n = 0
  <2>1. p = <<>> /\ n = 0 /\ \A k \in 1..n : FALSE
    <3>1. Len(ps) = 0 /\ \A k \in 1..0 : FALSE
      BY <1>2
    <3>2. FlattenSeq(ps) = <<>>
      BY <3>1, FlattenEmpty
    <3>3. QED BY <1>2, <3>1, <3>2
  <2>2. ToSet(<<>>) = {}
    BY DEF ToSet
  <2>3. QED BY <1>1, <2>1, <2>2
<1>3. CASE n # 0
  <2>1. PICK h \in Partials(ps, S) : Concatenates(h, ps)
    BY <1>3, FlattenSteps
  <2>2. /\ h \in [1..n -> Seq(S)] /\ h[1] = ps[1] /\ p = h[n]
        /\ \A i \in 2..n : h[i] = h[i - 1] \o ps[i]
    BY <2>1 DEF Partials, Concatenates
  <2> DEFINE Covers(q, k) == \A x : x \in ToSet(q) <=> \E i \in 1..k : x \in ToSet(ps[i])
             N == n - 1
             T == {k \in 0..N : \A j \in 1..n : j = k + 1 => Covers(h[j], j)}
  <2>3. 0 \in T
    <3>1. ASSUME NEW j \in 1..n, j = 0 + 1 PROVE Covers(h[j], j)
      <4>1. j = 1 /\ \A i \in 1..j : i = 1
        BY <3>1
      <4>2. 1 \in 1..1
        OBVIOUS
      <4>3. QED BY <2>2, <4>1, <4>2
    <3> HIDE DEF Covers
    <3>2. QED BY <1>1, <1>3, <3>1
  <2>4. ASSUME NEW k \in 1..N, k - 1 \in T PROVE k \in T
    <3>1. ASSUME NEW j \in 1..n, j = k + 1 PROVE Covers(h[j], j)
      <4> DEFINE a == h[k]
                 b == ps[j]
      <4>1. /\ k \in 1..n /\ k = (k - 1) + 1 /\ j \in 2..n /\ j - 1 = k
            /\ (\A i \in 1..j : i \in 1..k \/ i = j) /\ (\A i \in 1..k : i \in 1..j) /\ j \in 1..j
        BY <1>1, <3>1
      <4>2. Covers(a, k)
        <5> HIDE DEF Covers
        <5>1. QED BY <2>4, <4>1
      <4>3. h[j] = a \o b /\ a \in Seq(S) /\ b \in Seq(S)
        BY <1>1, <2>2, <4>1
      <4> HIDE DEF a, b
      <4>4. ToSet(h[j]) = ToSet(a) \cup ToSet(b)
        BY <4>3, SetConcat
      <4>5. QED BY <4>1, <4>2, <4>4 DEF b
    <3> HIDE DEF Covers
    <3>2. k \in 0..N
      BY <1>1
    <3>3. QED BY <3>1, <3>2
  <2>5. \A k \in 0..N : k \in T
    <3>1. N \in Nat
      BY <1>1, <1>3
    <3> HIDE DEF T, N
    <3>2. QED BY <2>3, <2>4, <3>1, Reaches
  <2>6. N \in 0..N /\ N + 1 = n /\ n \in 1..n
    BY <1>1, <1>3
  <2>7. N \in T
    <3> HIDE DEF T, N
    <3>1. QED BY <2>5, <2>6
  <2>8. Covers(h[n], n)
    <3> HIDE DEF Covers
    <3>1. QED BY <2>6, <2>7
  <2>9. QED BY <1>1, <2>2, <2>8
<1>4. QED BY <1>2, <1>3

\* The records of a whole group of deallocation records, redone.
Freed(Z) == {<<"fat", c>> : c \in Z}
GroupFirst(l) == Len(l) - l[Len(l)].count + 1
GroupSet(l) == UNION {ToSet(l[j].clus) : j \in GroupFirst(l)..Len(l)}

RedoAt(r, Z, v, x) ==
  IF x \in Freed(Z) THEN FREE
  ELSE IF x = <<"fat", r.d.prev>> THEN Beyond(r)
  ELSE IF x \in SourceSpots(r.d) THEN TAIL ELSE At(v, x)
Redoes(t, r, Z) ==
  /\ t \in Seq(Edits) /\ SpotsOf(t) = SourceSpots(r.d) \cup Freed(Z)
  /\ \A v \in Volume : /\ ApplyAll(v, t) \in Volume
                       /\ \A x \in Spots : At(ApplyAll(v, t), x) = RedoAt(r, Z, v, x)

LEMMA GroupIs ==
  ASSUME NEW l \in Seq(RecSet), l # <<>>, l[Len(l)].kind = "dealloc", WholeGroup(l, Len(l)),
         NEW t, t = RedoSteps(l, Len(l)), NEW r, r = l[GroupFirst(l)]
  PROVE  /\ r \in DeallocSet /\ GroupSet(l) \subseteq Cluster
         /\ Redoes(t, r, GroupSet(l))
<1> DEFINE i == Len(l)
           n == l[i].count
           first == i - n + 1
           seqs == [k \in 1..n |-> Frees(l[first + k - 1].clus)]
           a == RedoSource(l[first])
           b == FlattenSeq(seqs)
<1>1. i \in Nat \ {0} /\ i \in 1..Len(l)
  OBVIOUS
<1>2. l[i] \in DeallocSet
  <2>1. l[i] \in RecSet
    BY <1>1
  <2>2. QED BY <2>1, OfKind
<1>3. n \in Nat \ {0}
  BY <1>2 DEF DeallocSet
<1>4. first \in 1..i /\ \A j \in first..i : l[j].kind = "dealloc"
  BY <1>1, <1>3 DEF WholeGroup
<1>5. \A j \in first..i : l[j] \in DeallocSet
  <2>1. ASSUME NEW j \in first..i PROVE l[j] \in DeallocSet
    <3>1. j \in 1..Len(l)
      BY <1>1, <1>4
    <3>2. l[j] \in RecSet
      BY <3>1
    <3>3. QED BY <1>4, <3>2, OfKind
  <2>2. QED BY <2>1
<1>6. \A j \in first..i : l[j].clus \in Seq(Cluster)
  BY <1>5 DEF DeallocSet
<1>7. /\ \A k \in 1..n : first + k - 1 \in first..i
      /\ \A j \in first..i : \E k \in 1..n : j = first + k - 1
  <2>1. \A k \in 1..n : first + k - 1 \in first..i
    BY <1>1, <1>3
  <2>2. ASSUME NEW j \in first..i PROVE \E k \in 1..n : j = first + k - 1
    <3> DEFINE k == j - first + 1
    <3>1. k \in 1..n /\ j = first + k - 1
      <4>1. i \in Nat /\ n \in Nat /\ first = i - n + 1 /\ first \in 1..i
        BY <1>1, <1>3, <1>4
      <4> HIDE DEF i, n, first
      <4>2. QED BY <4>1
    <3> HIDE DEF k
    <3>2. QED BY <3>1
  <2>3. QED BY <2>1, <2>2
<1>8. t = a \o b /\ GroupFirst(l) = first /\ r = l[first]
  BY <1>1, <1>3 DEF RedoSteps, GroupFirst
<1>9. r \in DeallocSet
  <2>1. first \in first..i
    <3>1. i \in Nat
      BY <1>1
    <3> HIDE DEF i, first
    <3>2. QED BY <1>4, <3>1
  <2>2. QED BY <1>5, <1>8, <2>1
<1> HIDE DEF i, n, first
<1>10. \A k \in 1..n : Frees(l[first + k - 1].clus) \in Seq(FreeEdits)
  BY <1>6, <1>7, FreesAre
<1>11. seqs \in Seq(Seq(FreeEdits)) /\ Len(seqs) = n
       /\ \A k \in 1..n : seqs[k] = Frees(l[first + k - 1].clus)
  BY <1>3, <1>10
<1> HIDE DEF seqs
<1>12. b \in Seq(FreeEdits) /\ \A x : x \in ToSet(b) <=> \E k \in 1..Len(seqs) : x \in ToSet(seqs[k])
  <2>1. seqs \in Seq(Seq(FreeEdits)) /\ b = FlattenSeq(seqs)
    BY <1>11
  <2> HIDE DEF b
  <2>2. QED BY <2>1, FlattenHas
<1> HIDE DEF b
<1>13. SpotsOf(b) = Freed(GroupSet(l))
  <2>1. \A q \in Seq(FreeEdits) : \A x : x \in SpotsOf(q) <=> \E s \in ToSet(q) : Spot(s) = x
    BY DEF SpotsOf, ToSet
  <2>2. ASSUME NEW x \in SpotsOf(b) PROVE x \in Freed(GroupSet(l))
    <3>1. PICK s \in ToSet(b) : Spot(s) = x
      BY <1>12, <2>1, <2>2
    <3>2. PICK k \in 1..n : s \in ToSet(seqs[k])
      BY <1>11, <1>12, <3>1
    <3> DEFINE j == first + k - 1
    <3>3. j \in first..i /\ l[j].clus \in Seq(Cluster) /\ seqs[k] = Frees(l[j].clus)
      BY <1>6, <1>7, <1>11
    <3> HIDE DEF j
    <3>4. x \in SpotsOf(Frees(l[j].clus))
      BY <2>1, <3>1, <3>2, <3>3, FreesAre
    <3>5. PICK c \in ToSet(l[j].clus) : x = <<"fat", c>>
      BY <3>3, <3>4, FreesAre
    <3>6. c \in GroupSet(l)
      BY <1>8, <3>3, <3>5 DEF GroupSet, i
    <3>7. QED BY <3>5, <3>6 DEF Freed
  <2>3. ASSUME NEW x \in Freed(GroupSet(l)) PROVE x \in SpotsOf(b)
    <3>1. PICK c \in GroupSet(l) : x = <<"fat", c>>
      BY <2>3 DEF Freed
    <3>2. PICK j \in first..i : c \in ToSet(l[j].clus)
      BY <1>8, <3>1 DEF GroupSet, i
    <3>3. PICK k \in 1..n : j = first + k - 1
      BY <1>7, <3>2
    <3>4. l[j].clus \in Seq(Cluster) /\ seqs[k] = Frees(l[j].clus)
      BY <1>6, <1>11, <3>3
    <3>5. x \in SpotsOf(Frees(l[j].clus))
      BY <3>1, <3>2, <3>4, FreesAre
    <3>6. PICK s \in ToSet(seqs[k]) : Spot(s) = x
      BY <2>1, <3>4, <3>5, FreesAre
    <3>7. s \in ToSet(b)
      BY <1>11, <1>12, <3>6
    <3>8. QED BY <1>12, <2>1, <3>6, <3>7
  <2>4. QED BY <2>2, <2>3
<1>14. GroupSet(l) \subseteq Cluster
  <2>1. \A j \in first..i : ToSet(l[j].clus) \subseteq Cluster
    BY <1>6, SetIs
  <2>2. QED BY <1>8, <2>1 DEF GroupSet, i
<1>15. /\ a \in Seq(Edits) /\ SpotsOf(a) = SourceSpots(r.d)
       /\ \A v \in Volume :
            /\ ApplyAll(v, a) \in Volume
            /\ \A x \in Spots : At(ApplyAll(v, a), x) =
                 IF x = <<"fat", r.d.prev>> THEN Beyond(r)
                 ELSE IF x \in SourceSpots(r.d) THEN TAIL ELSE At(v, x)
  BY <1>8, <1>9, RedoSourceIs
<1> HIDE DEF a
<1>16. b \in Seq(Edits)
  <2>1. FreeEdits \subseteq Edits
    BY EditIntro, ConstantFacts DEF FreeEdits, FatVal
  <2>2. QED BY <1>12, <2>1
<1>17. t \in Seq(Edits) /\ SpotsOf(t) = SourceSpots(r.d) \cup Freed(GroupSet(l))
  <2>1. SpotsOf(a \o b) = SpotsOf(a) \cup SpotsOf(b)
    BY <1>15, <1>16, SpotsConcat
  <2>2. QED BY <1>8, <1>13, <1>15, <1>16, <2>1
<1>18. ASSUME NEW v \in Volume
       PROVE  /\ ApplyAll(v, t) \in Volume
              /\ \A x \in Spots : At(ApplyAll(v, t), x) =
                   IF x \in Freed(GroupSet(l)) THEN FREE
                   ELSE IF x = <<"fat", r.d.prev>> THEN Beyond(r)
                   ELSE IF x \in SourceSpots(r.d) THEN TAIL ELSE At(v, x)
  <2> DEFINE w == ApplyAll(v, a)
  <2>1. ApplyAll(v, t) = ApplyAll(w, b)
    <3>1. a \in Seq(StepSet) /\ b \in Seq(StepSet)
      BY <1>15, <1>16, EditsAreSteps
    <3>2. QED BY <1>8, <3>1, ApplyConcat
  <2>2. w \in Volume
    BY <1>15
  <2>3. /\ ApplyAll(w, b) \in Volume
        /\ \A x \in Spots : At(ApplyAll(w, b), x) = IF x \in SpotsOf(b) THEN FREE ELSE At(w, x)
    <3> HIDE DEF w
    <3>1. QED BY <1>12, <2>2, FreeAll
  <2>4. QED BY <1>13, <1>15, <2>1, <2>3
<1>19. Redoes(t, r, GroupSet(l))
  BY <1>17, <1>18 DEF Redoes, RedoAt
<1>20. QED BY <1>9, <1>14, <1>19
=============================================================================
