-------------------------- MODULE RfsRecoveryProofs --------------------------
(***************************************************************************)
(* What a mount recovers: the stages of a deallocation, the mount, and the *)
(* invariant of RfsDurability, for every number of clusters, entries and   *)
(* inodes and every size of a group of deallocation records.               *)
(***************************************************************************)
EXTENDS RfsDurabilityProofs

(***************************************************************************)
(* Every stage of a deallocation is sound.                                 *)
(***************************************************************************)
\* What is left of the chain.
Left(cs, q) == Piece(cs, q + 1, Len(cs))
LeftOf(cs, q, p) ==
  /\ p \in Seq(Cluster) /\ (Once(cs) => Once(p))
  /\ \A x : x \in ToSet(p) <=> x \in ToSet(cs) /\ \E i \in (q + 1)..Len(cs) : cs[i] = x
  /\ Once(cs) => \A x \in ToSet(cs) : x \in Taken(cs, q) \/ x \in ToSet(p)
  /\ Once(cs) => Taken(cs, q) \cap ToSet(p) = {}
  /\ \A fat, e : Trail(fat, cs, e) => Trail(fat, p, e)
  /\ \A e : HeadOr(p, e) = Follow(cs, q, e)

LEMMA LeftIs ==
  ASSUME NEW cs \in Seq(Cluster), NEW q \in 0..Len(cs), NEW p, p = Left(cs, q)
  PROVE  LeftOf(cs, q, p)
<1>1. Len(cs) \in Nat /\ q + 1 \in Nat /\ q + 1 >= 1 /\ q + 1 <= Len(cs) + 1
  OBVIOUS
<1>2. PieceOf(Cluster, cs, q + 1, Len(cs))
  BY <1>1, PieceIs
<1>3. /\ p \in Seq(Cluster) /\ Len(p) = Len(cs) - q
      /\ \A i \in 1..Len(p) : p[i] = cs[q + i]
      /\ \A x : x \in ToSet(p) <=> \E i \in (q + 1)..Len(cs) : cs[i] = x
  <2>1. /\ p \in Seq(Cluster) /\ Len(p) = Len(cs) - (q + 1) + 1
        /\ \A i \in 1..(Len(cs) - (q + 1) + 1) : p[i] = cs[(q + 1) + i - 1]
        /\ \A x : x \in ToSet(p) <=> \E i \in (q + 1)..Len(cs) : cs[i] = x
    BY <1>2 DEF PieceOf, Left
  <2>2. \A i \in 1..Len(p) : (q + 1) + i - 1 = q + i
    OBVIOUS
  <2>3. Len(p) = Len(cs) - q
    BY <1>1, <2>1
  <2>4. \A i \in 1..Len(p) : p[i] = cs[q + i]
    BY <2>1, <2>2
  <2>5. QED BY <2>1, <2>3, <2>4
<1>4. \A x : x \in ToSet(cs) <=> \E i \in 1..Len(cs) : cs[i] = x
  BY SetIs
<1>5. \A x : x \in Taken(cs, q) <=> \E i \in 1..q : cs[i] = x
  BY TakenIs
<1>6. Once(cs) => Once(p)
  <2>1. ASSUME Once(cs), NEW i \in 1..Len(p), NEW j \in 1..Len(p), p[i] = p[j] PROVE i = j
    <3>1. q + i \in 1..Len(cs) /\ q + j \in 1..Len(cs) /\ cs[q + i] = cs[q + j]
      BY <1>1, <1>3, <2>1
    <3>2. q + i = q + j
      BY <2>1, <3>1 DEF Once
    <3>3. QED BY <3>2
  <2>2. QED BY <2>1 DEF Once
<1>7. \A x : x \in ToSet(p) <=> x \in ToSet(cs) /\ \E i \in (q + 1)..Len(cs) : cs[i] = x
  BY <1>1, <1>3, <1>4
<1>8. \A x \in ToSet(cs) : x \in Taken(cs, q) \/ x \in ToSet(p)
  <2>1. ASSUME NEW x \in ToSet(cs) PROVE x \in Taken(cs, q) \/ x \in ToSet(p)
    <3>1. PICK i \in 1..Len(cs) : cs[i] = x
      BY <1>4, <2>1
    <3>2. i \in 1..q \/ i \in (q + 1)..Len(cs)
      BY <1>1
    <3>3. QED BY <1>3, <1>5, <3>1, <3>2
  <2>2. QED BY <2>1
<1>9. Once(cs) => Taken(cs, q) \cap ToSet(p) = {}
  <2>1. ASSUME Once(cs), NEW x, x \in Taken(cs, q), x \in ToSet(p) PROVE FALSE
    <3>1. PICK i \in 1..q : cs[i] = x
      BY <1>5, <2>1
    <3>2. PICK j \in (q + 1)..Len(cs) : cs[j] = x
      BY <1>3, <2>1
    <3>3. i \in 1..Len(cs) /\ j \in 1..Len(cs) /\ i # j
      BY <1>1
    <3>4. QED BY <2>1, <3>1, <3>2, <3>3 DEF Once
  <2>2. QED BY <2>1
<1>10. \A fat, e : Trail(fat, cs, e) => Trail(fat, p, e)
  <2>1. ASSUME NEW fat, NEW e, Trail(fat, cs, e), NEW i \in 1..Len(p), NEW j \in 1..Len(p)
        PROVE  /\ j = i + 1 => fat[p[i]] = p[j]
               /\ i = Len(p) => fat[p[i]] = e
    <3> DEFINE a == q + i
               b == q + j
    <3>0. i \in 1..Len(p) /\ j \in 1..Len(p) /\ Len(p) = Len(cs) - q /\ Len(cs) \in Nat /\ q \in 0..Len(cs)
      BY <1>1, <1>3, <2>1
    <3>1. a \in 1..Len(cs) /\ b \in 1..Len(cs)
      BY <3>0
    <3>4. j = i + 1 => b = a + 1
      BY <3>0
    <3>5. i = Len(p) => a = Len(cs)
      BY <3>0
    <3>2. p[i] = cs[a] /\ p[j] = cs[b]
      BY <1>3
    <3> HIDE DEF a, b
    <3>3. QED BY <2>1, <3>1, <3>2, <3>4, <3>5 DEF Trail
  <2>2. QED BY <2>1 DEF Trail
<1>11. \A e : HeadOr(p, e) = Follow(cs, q, e)
  <2>1. CASE q < Len(cs)
    <3>1. p # <<>> /\ 1 \in 1..Len(p)
      BY <1>1, <1>3, <2>1
    <3>2. p[1] = cs[q + 1]
      BY <1>3, <3>1
    <3>3. QED BY <2>1, <3>1, <3>2 DEF HeadOr, Follow
  <2>2. CASE ~(q < Len(cs))
    <3>1. Len(p) = 0
      BY <1>1, <1>3, <2>2
    <3>2. p = <<>>
      BY <1>3, <3>1
    <3>3. QED BY <2>2, <3>2 DEF HeadOr, Follow
  <2>3. QED BY <2>1, <2>2
<1>12. QED BY <1>3, <1>6, <1>7, <1>8, <1>9, <1>10, <1>11 DEF LeftOf

\* The volume with what a truncation cuts.
CutFat(b, d) == [x \in FatIndex |-> IF <<"fat", x>> \in CutSpots(d) THEN TAIL ELSE b.fat[x]]
CutStart(b, d, s) == IF <<"start", s>> \in CutSpots(d) THEN TAIL ELSE b.start[s]
\* Behind the log file are the chains A, cs and B, and U are those of the entries.
Apart3(A, cs, B) ==
  /\ Once(A) /\ Once(cs) /\ Once(B)
  /\ ToSet(A) \cap ToSet(cs) = {} /\ ToSet(A) \cap ToSet(B) = {} /\ ToSet(cs) \cap ToSet(B) = {}
Strung(b, d, cs, A, B, U) ==
  /\ A \in Seq(Cluster) /\ B \in Seq(Cluster) /\ U \in [Slot -> Seq(Cluster)] /\ Apart3(A, cs, B)
  /\ d.prev = (<<Log>> \o A)[Len(<<Log>> \o A)] /\ d.succ = HeadOr(B, TAIL)
  /\ \E e : Trail(CutFat(b, d), <<Log>> \o A, e)
  /\ Trail(CutFat(b, d), cs, d.succ) /\ Trail(CutFat(b, d), B, TAIL)
  /\ \A s \in Slot : /\ Trail(CutFat(b, d), U[s], TAIL) /\ Once(U[s])
                     /\ IF b.live[s] THEN CutStart(b, d, s) = HeadOr(U[s], TAIL) ELSE U[s] = <<>>
                     /\ ToSet(U[s]) \cap ToSet(A) = {} /\ ToSet(U[s]) \cap ToSet(cs) = {}
                     /\ ToSet(U[s]) \cap ToSet(B) = {}
  /\ \A s, t \in Slot : s # t => ToSet(U[s]) \cap ToSet(U[t]) = {}
  /\ \A c \in Cluster : CutFat(b, d)[c] # FREE =>
       c \in ToSet(A) \/ c \in ToSet(cs) \/ c \in ToSet(B) \/ \E s \in Slot : c \in ToSet(U[s])
GoneChains(cs, q, A, B, U) ==
  [x \in Slot \cup {None} |-> IF x = None THEN A \o (Left(cs, q) \o B) ELSE U[x]]

\* The last cluster in front of cs is Log or in A.
LEMMA PrevIs ==
  ASSUME NEW A \in Seq(Cluster), NEW p, p = <<Log>> \o A
  PROVE  /\ p \in Seq(FatIndex) /\ p # <<>> /\ ToSet(p) = {Log} \cup ToSet(A)
         /\ p[Len(p)] \in ToSet(p) /\ (Once(A) => Once(p))
         /\ p[1] = Log
<1>1. A \in Seq(FatIndex) /\ <<Log>> \in Seq(FatIndex) /\ ToSet(A) \subseteq Cluster
  <2>1. ToSet(A) \subseteq Cluster
    BY SetIs
  <2>2. Log \in FatIndex /\ Cluster \subseteq FatIndex
    BY DEF FatIndex
  <2>3. QED BY <2>1, <2>2, OneType
<1>2. ToSet(<<Log>>) = {Log} /\ Once(<<Log>>)
  BY TrailOne
<1>3. p \in Seq(FatIndex) /\ ToSet(p) = {Log} \cup ToSet(A)
  BY <1>1, <1>2, SetConcat
<1>4. Once(A) => Once(p)
  <2>1. {Log} \cap ToSet(A) = {}
    BY <1>1, RfsAssumption
  <2>2. QED BY <1>1, <1>2, <2>1, SetConcat
<1>5. p # <<>> /\ p[1] = Log
  OBVIOUS
<1>6. Len(p) \in 1..Len(p)
  <2>1. Len(p) # 0 /\ Len(p) \in Nat
    BY <1>3, <1>5
  <2>2. QED BY <2>1
<1>7. p[Len(p)] \in ToSet(p)
  BY <1>3, <1>6, SetIs
<1>8. QED BY <1>3, <1>4, <1>5, <1>7

LEMMA GoneFat ==
  ASSUME NEW b \in Volume, NEW d \in Places, NEW cs \in Seq(Cluster), NEW q \in 0..Len(cs),
         NEW v, v = Gone(b, d, cs, q)
  PROVE  /\ \A x \in FatIndex : v.fat[x] = IF x \in Taken(cs, q) THEN FREE
                                           ELSE IF x = d.prev THEN Follow(cs, q, d.succ)
                                           ELSE CutFat(b, d)[x]
         /\ \A s \in Slot : v.start[s] = CutStart(b, d, s)
         /\ v.live = b.live
BY DEF Gone, CutFat, CutStart

\* The FAT of a stage.
GoneOn(b, d, cs, q, A, B, U, fat) ==
  /\ fat[d.prev] = Follow(cs, q, d.succ)
  /\ SameOn(CutFat(b, d), fat, ({Log} \cup ToSet(A)) \ {d.prev})
  /\ SameOn(CutFat(b, d), fat, ToSet(Left(cs, q))) /\ SameOn(CutFat(b, d), fat, ToSet(B))
  /\ \A s \in Slot : SameOn(CutFat(b, d), fat, ToSet(U[s]))
  /\ d.prev \in {Log} \cup ToSet(A)

LEMMA GoneSame ==
  ASSUME NEW b \in Volume, NEW d \in Places, NEW cs \in Seq(Cluster), NEW q \in 0..Len(cs),
         NEW A, NEW B, NEW U, Strung(b, d, cs, A, B, U), NEW v, v = Gone(b, d, cs, q)
  PROVE  GoneOn(b, d, cs, q, A, B, U, v.fat)
<1>1. /\ A \in Seq(Cluster) /\ B \in Seq(Cluster) /\ U \in [Slot -> Seq(Cluster)] /\ Apart3(A, cs, B)
      /\ d.prev = (<<Log>> \o A)[Len(<<Log>> \o A)]
      /\ \A s \in Slot : /\ ToSet(U[s]) \cap ToSet(A) = {} /\ ToSet(U[s]) \cap ToSet(cs) = {}
  BY DEF Strung
<1>2. d.prev \in {Log} \cup ToSet(A)
  <2> DEFINE p == <<Log>> \o A
  <2>1. ToSet(p) = {Log} \cup ToSet(A) /\ p[Len(p)] \in ToSet(p)
    BY <1>1, PrevIs
  <2>2. QED BY <1>1, <2>1
<1>3. \A x \in FatIndex : v.fat[x] = IF x \in Taken(cs, q) THEN FREE
                                    ELSE IF x = d.prev THEN Follow(cs, q, d.succ)
                                    ELSE CutFat(b, d)[x]
  BY GoneFat
<1>4. Taken(cs, q) \subseteq Cluster /\ Taken(cs, q) \subseteq ToSet(cs)
  BY TakenIs
<1>5. /\ ToSet(A) \subseteq Cluster /\ ToSet(B) \subseteq Cluster /\ ToSet(cs) \subseteq Cluster
      /\ \A s \in Slot : ToSet(U[s]) \subseteq Cluster
  <2>1. \A s \in Slot : U[s] \in Seq(Cluster)
    BY <1>1
  <2>2. QED BY <1>1, <2>1, SetIs
<1>6. Log \notin Cluster /\ Cluster \subseteq FatIndex /\ Log \in FatIndex
  BY RfsAssumption DEF FatIndex
<1>7. /\ ToSet(A) \cap ToSet(cs) = {} /\ ToSet(A) \cap ToSet(B) = {} /\ ToSet(cs) \cap ToSet(B) = {}
      /\ Once(cs)
  BY <1>1 DEF Apart3
<1> DEFINE p == Left(cs, q)
<1>8. LeftOf(cs, q, p)
  BY LeftIs
<1>9. Taken(cs, q) \cap ToSet(p) = {} /\ ToSet(p) \subseteq ToSet(cs)
  BY <1>7, <1>8 DEF LeftOf
<1> HIDE DEF p
<1>10. v.fat[d.prev] = Follow(cs, q, d.succ)
  <2>1. d.prev \in FatIndex /\ d.prev \notin Taken(cs, q)
    BY <1>2, <1>4, <1>5, <1>6, <1>7
  <2>2. QED BY <1>3, <2>1
<1>11. SameOn(CutFat(b, d), v.fat, ({Log} \cup ToSet(A)) \ {d.prev})
  <2>1. ASSUME NEW x \in ({Log} \cup ToSet(A)) \ {d.prev} PROVE v.fat[x] = CutFat(b, d)[x]
    <3>1. x \in FatIndex /\ x \notin Taken(cs, q) /\ x # d.prev
      BY <1>4, <1>5, <1>6, <1>7
    <3>2. QED BY <1>3, <3>1
  <2>2. QED BY <2>1 DEF SameOn
<1>12. SameOn(CutFat(b, d), v.fat, ToSet(p))
  <2>1. ASSUME NEW x \in ToSet(p) PROVE v.fat[x] = CutFat(b, d)[x]
    <3>1. x \in FatIndex /\ x \notin Taken(cs, q) /\ x # d.prev
      BY <1>2, <1>5, <1>6, <1>7, <1>9
    <3>2. QED BY <1>3, <3>1
  <2>2. QED BY <2>1 DEF SameOn
<1>13. SameOn(CutFat(b, d), v.fat, ToSet(B))
  <2>1. ASSUME NEW x \in ToSet(B) PROVE v.fat[x] = CutFat(b, d)[x]
    <3>1. x \in FatIndex /\ x \notin Taken(cs, q) /\ x # d.prev
      BY <1>2, <1>4, <1>5, <1>6, <1>7
    <3>2. QED BY <1>3, <3>1
  <2>2. QED BY <2>1 DEF SameOn
<1>14. \A s \in Slot : SameOn(CutFat(b, d), v.fat, ToSet(U[s]))
  <2>1. ASSUME NEW s \in Slot, NEW x \in ToSet(U[s]) PROVE v.fat[x] = CutFat(b, d)[x]
    <3>1. x \in FatIndex /\ x \notin Taken(cs, q) /\ x # d.prev
      BY <1>1, <1>2, <1>4, <1>5, <1>6
    <3>2. QED BY <1>3, <3>1
  <2>2. QED BY <2>1 DEF SameOn
<1>15. QED BY <1>2, <1>10, <1>11, <1>12, <1>13, <1>14 DEF GoneOn, p

LEMMA GoneSound ==
  ASSUME NEW b \in Volume, NEW d \in Places, NEW cs \in Seq(Cluster), NEW q \in 0..Len(cs),
         NEW A, NEW B, NEW U, Strung(b, d, cs, A, B, U), NEW v, v = Gone(b, d, cs, q),
         NEW C, C = GoneChains(cs, q, A, B, U)
  PROVE  SoundBy(v, C) /\ C \in Chains
<1> DEFINE p == Left(cs, q)
           n == A \o (p \o B)
<1>1. /\ A \in Seq(Cluster) /\ B \in Seq(Cluster) /\ U \in [Slot -> Seq(Cluster)] /\ Apart3(A, cs, B)
      /\ d.prev = (<<Log>> \o A)[Len(<<Log>> \o A)] /\ d.succ = HeadOr(B, TAIL)
      /\ Trail(CutFat(b, d), cs, d.succ) /\ Trail(CutFat(b, d), B, TAIL)
  BY DEF Strung
<1>2. GoneOn(b, d, cs, q, A, B, U, v.fat)
  BY GoneSame
<1>3. /\ Once(A) /\ Once(B) /\ Once(cs)
      /\ ToSet(A) \cap ToSet(cs) = {} /\ ToSet(A) \cap ToSet(B) = {} /\ ToSet(cs) \cap ToSet(B) = {}
  BY <1>1 DEF Apart3
<1>4. LeftOf(cs, q, p)
  BY LeftIs
<1>5. /\ p \in Seq(Cluster) /\ Once(p) /\ ToSet(p) \subseteq ToSet(cs)
      /\ \A x \in ToSet(cs) : x \in Taken(cs, q) \/ x \in ToSet(p)
      /\ Trail(CutFat(b, d), p, d.succ) /\ \A e : HeadOr(p, e) = Follow(cs, q, e)
  BY <1>1, <1>3, <1>4 DEF LeftOf
<1> HIDE DEF p
<1>6. /\ p \o B \in Seq(Cluster) /\ ToSet(p \o B) = ToSet(p) \cup ToSet(B) /\ Once(p \o B)
  <2>1. ToSet(p) \cap ToSet(B) = {}
    BY <1>3, <1>5
  <2>2. QED BY <1>1, <1>3, <1>5, <2>1, SetConcat
<1>7. n \in Seq(Cluster) /\ ToSet(n) = ToSet(A) \cup ToSet(p) \cup ToSet(B) /\ Once(n)
  <2> DEFINE r == p \o B
  <2>1. r \in Seq(Cluster) /\ Once(r) /\ ToSet(r) = ToSet(p) \cup ToSet(B)
    BY <1>6
  <2>2. n = A \o r
    OBVIOUS
  <2> HIDE DEF r, n
  <2>3. ToSet(A) \cap ToSet(r) = {}
    BY <1>3, <1>5, <2>1
  <2>4. A \o r \in Seq(Cluster) /\ ToSet(A \o r) = ToSet(A) \cup ToSet(r)
    BY <1>1, <2>1, SetConcat
  <2>5. Once(A \o r)
    BY <1>1, <1>3, <2>1, <2>3, SetConcat
  <2>6. ToSet(A) \cup ToSet(r) = ToSet(A) \cup ToSet(p) \cup ToSet(B)
    BY <2>1
  <2>7. QED BY <2>2, <2>4, <2>5, <2>6
<1>8. Trail(v.fat, p \o B, TAIL) /\ HeadOr(p \o B, TAIL) = Follow(cs, q, d.succ)
  <2>1. SameOn(CutFat(b, d), v.fat, ToSet(p)) /\ SameOn(CutFat(b, d), v.fat, ToSet(B))
    BY <1>2 DEF GoneOn, p
  <2>2. Trail(v.fat, p, d.succ) /\ Trail(v.fat, B, TAIL)
    BY <1>1, <1>5, <2>1, TrailSame
  <2>3. QED BY <1>1, <1>5, <2>2, TrailConcat
<1>9. Trail(v.fat, n, TAIL) /\ v.fat[Log] = HeadOr(n, TAIL)
  <2> DEFINE a == <<Log>> \o A
             e == Follow(cs, q, d.succ)
  <2>1. PICK e0 : Trail(CutFat(b, d), a, e0)
    BY DEF Strung
  <2>2. a \in Seq(FatIndex) /\ a # <<>> /\ ToSet(a) = {Log} \cup ToSet(A) /\ Once(a) /\ a[1] = Log
        /\ d.prev = a[Len(a)]
    BY <1>1, <1>3, PrevIs
  <2>3. SameOn(CutFat(b, d), v.fat, ToSet(a) \ {a[Len(a)]}) /\ v.fat[a[Len(a)]] = e
    BY <1>2, <2>2 DEF GoneOn
  <2> HIDE DEF e
  <2>4. Trail(v.fat, a, e)
    <3> HIDE DEF a
    <3>1. QED BY <2>1, <2>2, <2>3, TrailTurns
  <2>5. Cluster \subseteq FatIndex /\ A \in Seq(FatIndex) /\ <<Log>> \in Seq(FatIndex)
    <3>1. Cluster \subseteq FatIndex /\ Log \in FatIndex
      BY DEF FatIndex
    <3>2. QED BY <1>1, <3>1, OneType
  <2>6. Trail(v.fat, <<Log>>, HeadOr(A, e)) /\ Trail(v.fat, A, e)
    BY <2>4, <2>5, TrailConcat
  <2>7. v.fat[Log] = HeadOr(A, e)
    BY <2>6, TrailOne
  <2>8. HeadOr(p \o B, TAIL) = e
    BY <1>8 DEF e
  <2> DEFINE r == p \o B
  <2>9. r \in Seq(Cluster) /\ Trail(v.fat, r, TAIL) /\ HeadOr(r, TAIL) = e
    BY <1>6, <1>8, <2>8
  <2>10. n = A \o r
    OBVIOUS
  <2> HIDE DEF r, n, a
  <2>11. Trail(v.fat, A \o r, TAIL)
    BY <1>1, <2>6, <2>9, TrailConcat
  <2>12. HeadOr(A \o r, TAIL) = HeadOr(A, HeadOr(r, TAIL))
    BY <1>1, <2>9, FirstConcat
  <2>13. QED BY <2>7, <2>9, <2>10, <2>11, <2>12
<1>10. C[None] = n /\ \A s \in Slot : s # None /\ C[s] = U[s]
  BY RfsAssumption DEF GoneChains, p
<1> HIDE DEF n
<1>11. C \in Chains
  <2>1. \A x \in Slot \cup {None} : C[x] \in Seq(Cluster)
    BY <1>1, <1>7, <1>10
  <2>2. QED BY <2>1 DEF Chains, GoneChains
<1>12. \A s \in Slot : IF v.live[s] THEN v.start[s] = HeadOr(C[s], TAIL) ELSE C[s] = <<>>
  <2>1. ASSUME NEW s \in Slot PROVE IF v.live[s] THEN v.start[s] = HeadOr(C[s], TAIL) ELSE C[s] = <<>>
    <3>1. IF b.live[s] THEN CutStart(b, d, s) = HeadOr(U[s], TAIL) ELSE U[s] = <<>>
      BY DEF Strung
    <3>2. v.live[s] = b.live[s] /\ v.start[s] = CutStart(b, d, s)
      BY GoneFat
    <3>3. QED BY <1>10, <3>1, <3>2
  <2>2. QED BY <2>1
<1>13. \A x \in Slot \cup {None} : Trail(v.fat, C[x], TAIL) /\ Once(C[x])
  <2>1. ASSUME NEW s \in Slot PROVE Trail(v.fat, C[s], TAIL) /\ Once(C[s])
    <3>1. Trail(CutFat(b, d), U[s], TAIL) /\ Once(U[s])
      BY DEF Strung
    <3>2. SameOn(CutFat(b, d), v.fat, ToSet(U[s]))
      BY <1>2 DEF GoneOn
    <3>3. U[s] \in Seq(Cluster)
      BY <1>1
    <3>4. Trail(v.fat, U[s], TAIL)
      BY <3>1, <3>2, <3>3, TrailSame
    <3>5. QED BY <1>10, <3>1, <3>4
  <2>2. QED BY <1>7, <1>9, <1>10, <2>1
<1>14. \A s \in Slot : ToSet(C[s]) \cap ToSet(C[None]) = {}
  <2>1. ASSUME NEW s \in Slot PROVE ToSet(C[s]) \cap ToSet(C[None]) = {}
    <3>1. ToSet(U[s]) \cap ToSet(A) = {} /\ ToSet(U[s]) \cap ToSet(cs) = {} /\ ToSet(U[s]) \cap ToSet(B) = {}
      BY DEF Strung
    <3>2. QED BY <1>5, <1>7, <1>10, <3>1
  <2>2. QED BY <2>1
<1>15. \A x, y \in Slot \cup {None} : x # y => ToSet(C[x]) \cap ToSet(C[y]) = {}
  <2>1. \A s, t \in Slot : s # t => ToSet(C[s]) \cap ToSet(C[t]) = {}
    BY <1>10 DEF Strung
  <2>2. QED BY <1>14, <2>1
<1>16. \A c \in Cluster : v.fat[c] # FREE => \E x \in Slot \cup {None} : c \in ToSet(C[x])
  <2>1. ASSUME NEW c \in Cluster, v.fat[c] # FREE PROVE \E x \in Slot \cup {None} : c \in ToSet(C[x])
    <3>1. /\ c \in FatIndex /\ c # Log
      BY RfsAssumption DEF FatIndex
    <3>2. v.fat[c] = IF c \in Taken(cs, q) THEN FREE ELSE IF c = d.prev THEN Follow(cs, q, d.succ)
                     ELSE CutFat(b, d)[c]
      BY <3>1, GoneFat
    <3>3. c \notin Taken(cs, q)
      BY <2>1, <3>2
    <3>4. CASE c = d.prev
      <4>1. c \in ToSet(A)
        BY <1>2, <3>1, <3>4 DEF GoneOn
      <4>2. QED BY <1>7, <1>10, <4>1
    <3>5. CASE c # d.prev
      <4>1. CutFat(b, d)[c] # FREE
        BY <2>1, <3>2, <3>3, <3>5
      <4>2. c \in ToSet(A) \/ c \in ToSet(cs) \/ c \in ToSet(B) \/ \E s \in Slot : c \in ToSet(U[s])
        BY <4>1 DEF Strung
      <4>3. CASE c \in ToSet(A) \/ c \in ToSet(cs) \/ c \in ToSet(B)
        <5>1. c \in ToSet(n)
          BY <1>5, <1>7, <3>3, <4>3
        <5>2. QED BY <1>10, <5>1
      <4>4. CASE \E s \in Slot : c \in ToSet(U[s])
        BY <1>10, <4>4
      <4>5. QED BY <4>2, <4>3, <4>4
    <3>6. QED BY <3>4, <3>5
  <2>2. QED BY <2>1
<1>17. v.fat[Log] = HeadOr(C[None], TAIL)
  BY <1>9, <1>10
<1>18. QED BY <1>11, <1>12, <1>13, <1>15, <1>16, <1>17 DEF SoundBy

\* What a mount shows of a sound volume.
LEMMA ViewIs ==
  ASSUME NEW v \in Volume, NEW C \in Chains, SoundBy(v, C)
  PROVE  View(v) = [s \in {t \in Slot : v.live[t]} |-> C[s]]
<1>1. ASSUME NEW s \in {t \in Slot : v.live[t]} PROVE Chain(v.fat, v.start[s]) = C[s]
  <2>1. s \in Slot /\ v.live[s] /\ v.fat \in FatMap
    BY <1>1, VolumeFields
  <2>2. C[s] \in Seq(Cluster)
    BY <2>1 DEF Chains
  <2>3. v.start[s] = HeadOr(C[s], TAIL) /\ Trail(v.fat, C[s], TAIL) /\ Once(C[s])
    BY <2>1 DEF SoundBy
  <2>4. QED BY <2>1, <2>2, <2>3, ChainTrail
<1>2. QED BY <1>1 DEF View

\* The chain of a truncated file is cut.
CutTo(d, C, U) ==
  /\ \A s \in Slot : IF d.trunc /\ d.slot # None /\ s = d.slot THEN U[s] = Kept(C[s], d.newlast)
                     ELSE U[s] = C[s]
  /\ d.trunc /\ d.slot # None => Kept(U[d.slot], d.newlast) = U[d.slot]
LEMMA DeallocatesBy ==
  ASSUME NEW b \in Volume, NEW d \in Places, NEW cs \in Seq(Cluster), Aside(d, cs),
         NEW C \in Chains, SoundBy(b, C), NEW A, NEW B, NEW U, Strung(b, d, cs, A, B, U), CutTo(d, C, U)
  PROVE  Deallocates(b, d, cs)
<1> DEFINE L == {t \in Slot : b.live[t]}
<1>1. View(b) = [s \in L |-> C[s]]
  BY ViewIs
<1>2. CutView(d, View(b)) = [s \in L |-> U[s]]
  <2>1. CASE d.trunc /\ d.slot # None
    <3>1. CutView(d, View(b)) = [View(b) EXCEPT ![d.slot] = Kept(@, d.newlast)]
      BY <2>1 DEF CutView
    <3>2. [View(b) EXCEPT ![d.slot] = Kept(@, d.newlast)]
          = [s \in L |-> IF s = d.slot THEN Kept(C[s], d.newlast) ELSE C[s]]
      BY <1>1
    <3>3. \A s \in L : U[s] = IF s = d.slot THEN Kept(C[s], d.newlast) ELSE C[s]
      BY <2>1 DEF CutTo
    <3>4. QED BY <3>1, <3>2, <3>3
  <2>2. CASE ~(d.trunc /\ d.slot # None)
    <3>1. \A s \in L : U[s] = C[s]
      BY <2>2 DEF CutTo
    <3>2. QED BY <1>1, <2>2, <3>1 DEF CutView
  <2>3. QED BY <2>1, <2>2
<1>3. CutView(d, [s \in L |-> U[s]]) = [s \in L |-> U[s]]
  <2> DEFINE w == [s \in L |-> U[s]]
  <2>1. CASE d.trunc /\ d.slot # None
    <3>1. CutView(d, w) = [w EXCEPT ![d.slot] = Kept(@, d.newlast)]
      BY <2>1 DEF CutView
    <3>2. [w EXCEPT ![d.slot] = Kept(@, d.newlast)]
          = [s \in L |-> IF s = d.slot THEN Kept(U[s], d.newlast) ELSE U[s]]
      OBVIOUS
    <3>3. \A s \in L : U[s] = IF s = d.slot THEN Kept(U[s], d.newlast) ELSE U[s]
      BY <2>1 DEF CutTo
    <3>4. QED BY <3>1, <3>2, <3>3
  <2>2. CASE ~(d.trunc /\ d.slot # None)
    BY <2>2 DEF CutView
  <2>3. QED BY <2>1, <2>2
<1>4. ASSUME NEW q \in 1..Len(cs)
      PROVE  Sound(Gone(b, d, cs, q)) /\ View(Gone(b, d, cs, q)) = [s \in L |-> U[s]]
  <2> DEFINE v == Gone(b, d, cs, q)
             D == GoneChains(cs, q, A, B, U)
  <2>1. q \in 0..Len(cs)
    BY <1>4
  <2>2. GoneAs(b, d, cs, q, v)
    BY <2>1, GoneIs
  <2>3. v \in Volume /\ v.live = b.live
    BY <2>2 DEF GoneAs
  <2>4. SoundBy(v, D) /\ D \in Chains
    BY <2>1, GoneSound
  <2>5. \A s \in L : D[s] = U[s]
    BY RfsAssumption DEF GoneChains
  <2> HIDE DEF v, D
  <2>6. Sound(v)
    BY <2>4 DEF Sound
  <2>7. View(v) = [s \in {t \in Slot : v.live[t]} |-> D[s]]
    BY <2>3, <2>4, ViewIs
  <2>8. View(v) = [s \in L |-> U[s]]
    BY <2>3, <2>5, <2>7
  <2>9. QED BY <2>6, <2>8 DEF v
<1> HIDE DEF L
<1>5. \A q \in 1..Len(cs) : /\ Sound(Gone(b, d, cs, q))
                            /\ View(Gone(b, d, cs, q)) = CutView(d, View(b))
                            /\ CutView(d, View(Gone(b, d, cs, q))) = View(Gone(b, d, cs, q))
  BY <1>2, <1>3, <1>4
<1>6. QED BY <1>5 DEF Deallocates

\* Some of the chains that lead from one to the next.
PartJoined(S, ps, fat, x, m, n, q) ==
  /\ q \in Seq(Seq(S)) /\ Joined(fat, q, x) /\ Len(q) = n - m + 1
  /\ \A y : (\E i \in 1..Len(q) : y \in ToSet(q[i])) <=> \E i \in m..n : y \in ToSet(ps[i])
  /\ q # <<>> => q[1] = ps[m]
LEMMA JoinedPart ==
  ASSUME NEW S, NEW ps \in Seq(Seq(S)), NEW fat, NEW e, Joined(fat, ps, e),
         NEW m \in Nat, NEW n \in Nat, m >= 1, m <= n + 1, n <= Len(ps),
         NEW x, n < Len(ps) => x = ps[n + 1][1], n = Len(ps) => x = e,
         NEW q, q = Piece(ps, m, n)
  PROVE  PartJoined(S, ps, fat, x, m, n, q)
<1>1. PieceOf(Seq(S), ps, m, n)
  BY PieceIs
<1>2. q \in Seq(Seq(S)) /\ Len(q) = n - m + 1 /\ \A i \in 1..Len(q) : q[i] = ps[m + i - 1]
  BY <1>1 DEF PieceOf
<1>3. Len(ps) \in Nat /\ Len(q) \in Nat
  BY <1>2
<1>4. \A i \in 1..Len(q) : m + i - 1 \in m..n /\ m + i - 1 \in 1..Len(ps)
  BY <1>2, <1>3
<1>5. \A k \in 1..Len(q) : q[k] # <<>> /\ Once(q[k])
  BY <1>2, <1>4 DEF Joined
<1>6. \A j, k \in 1..Len(q) : /\ j = k + 1 => Trail(fat, q[k], q[j][1])
                              /\ j # k => ToSet(q[j]) \cap ToSet(q[k]) = {}
  <2>1. ASSUME NEW j \in 1..Len(q), NEW k \in 1..Len(q)
        PROVE  /\ j = k + 1 => Trail(fat, q[k], q[j][1])
               /\ j # k => ToSet(q[j]) \cap ToSet(q[k]) = {}
    <3> DEFINE a == m + k - 1
               c == m + j - 1
    <3>1. a \in 1..Len(ps) /\ c \in 1..Len(ps) /\ q[k] = ps[a] /\ q[j] = ps[c]
      BY <1>2, <1>4
    <3>2. j = k + 1 => c = a + 1
      BY <1>3
    <3>3. j # k => c # a
      BY <1>3
    <3> HIDE DEF a, c
    <3>4. QED BY <3>1, <3>2, <3>3 DEF Joined
  <2>2. QED BY <2>1
<1>7. q # <<>> => Trail(fat, q[Len(q)], x)
  <2>1. ASSUME q # <<>> PROVE Trail(fat, q[Len(q)], x)
    <3>0. Len(q) # 0
      BY <1>2, <2>1
    <3>1. Len(q) \in 1..Len(q) /\ m + Len(q) - 1 = n /\ n \in 1..Len(ps)
      BY <1>2, <1>3, <3>0
    <3>2. q[Len(q)] = ps[n]
      BY <1>2, <3>1
    <3>3. CASE n = Len(ps)
      <4>1. Trail(fat, ps[Len(ps)], e)
        <5>1. ps # <<>>
          BY <3>1, <3>3
        <5>2. QED BY <5>1 DEF Joined
      <4>2. QED BY <3>2, <3>3, <4>1
    <3>4. CASE n # Len(ps)
      <4> DEFINE c == n + 1
      <4>1. c \in 1..Len(ps) /\ c = n + 1 /\ n < Len(ps)
        BY <1>3, <3>1, <3>4
      <4>2. x = ps[c][1]
        BY <4>1
      <4> HIDE DEF c
      <4>3. Trail(fat, ps[n], ps[c][1])
        BY <3>1, <4>1 DEF Joined
      <4>4. QED BY <3>2, <4>2, <4>3
    <3>5. QED BY <3>3, <3>4
  <2>2. QED BY <2>1
<1>8. \A y : (\E i \in 1..Len(q) : y \in ToSet(q[i])) <=> \E i \in m..n : y \in ToSet(ps[i])
  <2>0. Len(q) = n - m + 1
    BY <1>2
  <2>1. ASSUME NEW i \in m..n PROVE i - m + 1 \in 1..Len(q) /\ m + (i - m + 1) - 1 = i
    <3>1. i - m + 1 >= 1 /\ i - m + 1 <= n - m + 1 /\ i - m + 1 \in Nat
      OBVIOUS
    <3>2. QED BY <1>3, <2>0, <3>1
  <2>2. ASSUME NEW y, NEW i \in 1..Len(q), y \in ToSet(q[i]) PROVE \E j \in m..n : y \in ToSet(ps[j])
    BY <1>2, <1>4, <2>2
  <2>3. ASSUME NEW y, NEW i \in m..n, y \in ToSet(ps[i]) PROVE \E j \in 1..Len(q) : y \in ToSet(q[j])
    <3> DEFINE j == i - m + 1
    <3>1. j \in 1..Len(q) /\ m + j - 1 = i
      BY <2>1
    <3> HIDE DEF j
    <3>2. q[j] = ps[i]
      BY <1>2, <3>1
    <3>3. QED BY <2>3, <3>1, <3>2
  <2>4. QED BY <2>2, <2>3
<1>9. q # <<>> => q[1] = ps[m]
  <2>1. ASSUME q # <<>> PROVE q[1] = ps[m]
    <3>0. Len(q) # 0
      BY <1>2, <2>1
    <3>1. 1 \in 1..Len(q) /\ m + 1 - 1 = m
      BY <1>3, <3>0
    <3>2. QED BY <1>2, <3>1
  <2>2. QED BY <2>1
<1>10. Joined(fat, q, x)
  BY <1>5, <1>6, <1>7 DEF Joined
<1>11. QED BY <1>2, <1>8, <1>9, <1>10 DEF PartJoined

\* The first m segments behind the log file, and those behind them.
FrontOf(v, r, K, m, A) ==
  /\ A \in Seq(Cluster) /\ Once(A) /\ Trail(v.fat, <<Log>> \o A, SegNext(r, m))
  /\ (<<Log>> \o A)[Len(<<Log>> \o A)] = SegLast(r, m)
  /\ \A x : x \in ToSet(A) <=> \E j \in 1..m : x \in ToSet(K[r.segs[j]])
BackOf(v, r, K, m, B) ==
  /\ B \in Seq(Cluster) /\ Once(B) /\ Trail(v.fat, B, TAIL) /\ HeadOr(B, TAIL) = SegNext(r, m)
  /\ \A x : x \in ToSet(B) <=> \E j \in (m + 1)..Len(r.segs) : x \in ToSet(K[r.segs[j]])

SegHeadBy(v, r, K, k) ==
  /\ K[r.segs[k]] \in Seq(Cluster) /\ K[r.segs[k]] # <<>>
  /\ SegStart(r, k) = K[r.segs[k]][1] /\ SegStart(r, k) \in ToSet(K[r.segs[k]])
  /\ SegLast(r, k) = K[r.segs[k]][Len(K[r.segs[k]])] /\ SegLast(r, k) \in ToSet(K[r.segs[k]])
  /\ v.fat[SegLast(r, k)] = SegNext(r, k) /\ Once(K[r.segs[k]])
LEMMA SegHeads ==
  ASSUME NEW v, NEW r \in Rams, NEW K, Shape(v, r, K), NEW k \in 1..Len(r.segs)
  PROVE  SegHeadBy(v, r, K, k)
<1> DEFINE g == r.segs[k]
           p == K[g]
<1>1. g \in File /\ r.ino[g].st = "free" /\ r.ino[g].start # TAIL /\ k # 0
  BY SegFacts
<1>2. p \in Seq(Cluster) /\ r.ino[g].start = HeadOr(p, TAIL) /\ (p # <<>> => r.ino[g].last = p[Len(p)])
      /\ Once(p)
  BY <1>1 DEF Shape
<1>3. p # <<>> /\ Len(p) # 0 /\ Len(p) \in Nat
  BY <1>1, <1>2 DEF HeadOr
<1>4. SegStart(r, k) = p[1] /\ SegLast(r, k) = p[Len(p)]
  BY <1>1, <1>2, <1>3 DEF SegStart, SegLast, HeadOr
<1>5. 1 \in 1..Len(p) /\ Len(p) \in 1..Len(p)
  BY <1>3
<1>6. p[1] \in ToSet(p) /\ p[Len(p)] \in ToSet(p)
  BY <1>2, <1>5, SetIs
<1>7. Trail(v.fat, p, SegNext(r, k))
  BY DEF Shape
<1>8. v.fat[p[Len(p)]] = SegNext(r, k)
  BY <1>5, <1>7 DEF Trail
<1>9. QED BY <1>2, <1>3, <1>4, <1>6, <1>8 DEF SegHeadBy

LEMMA FrontIs ==
  ASSUME NEW v, NEW r \in Rams, NEW K, Shape(v, r, K), NEW m \in 0..Len(r.segs)
  PROVE  \E A : FrontOf(v, r, K, m, A)
<1> DEFINE h == Hanging(r, K)
           q == Piece(h, 1, m)
           A == FlattenSeq(q)
           e == SegNext(r, m)
<1>1. /\ h \in Seq(Seq(Cluster)) /\ Len(h) = Len(r.segs)
      /\ \A k \in 1..Len(r.segs) : h[k] = K[r.segs[k]]
      /\ Joined(v.fat, h, TAIL)
      /\ v.fat[Log] = IF h = <<>> THEN TAIL ELSE h[1][1]
  BY HangingJoined
<1>2. Len(r.segs) \in Nat /\ m \in Nat /\ m <= Len(h) /\ 1 <= m + 1
  BY <1>1, SegFacts
<1>3. (m < Len(h) => e = h[m + 1][1]) /\ (m = Len(h) => e = TAIL)
  <2>1. ASSUME m < Len(h) PROVE e = h[m + 1][1]
    <3> DEFINE c == m + 1
    <3>1. c \in 1..Len(r.segs) /\ m < Len(r.segs)
      BY <1>1, <1>2, <2>1
    <3>2. e = SegStart(r, c)
      BY <3>1 DEF SegNext
    <3>3. h[c] = K[r.segs[c]]
      BY <1>1, <3>1
    <3>4. h[m + 1] = h[c]
      OBVIOUS
    <3> HIDE DEF c, h, e
    <3>5a. SegHeadBy(v, r, K, c)
      BY <3>1, SegHeads
    <3>5. SegStart(r, c) = K[r.segs[c]][1]
      BY <3>5a DEF SegHeadBy
    <3>6. QED BY <3>2, <3>3, <3>4, <3>5
  <2>2. ASSUME m = Len(h) PROVE e = TAIL
    BY <1>1, <1>2, <2>2 DEF SegNext
  <2>3. QED BY <2>1, <2>2
<1> HIDE DEF h, e
<1>4. /\ q \in Seq(Seq(Cluster)) /\ Joined(v.fat, q, e) /\ Len(q) = m
      /\ \A y : (\E i \in 1..Len(q) : y \in ToSet(q[i])) <=> \E i \in 1..m : y \in ToSet(h[i])
      /\ q # <<>> => q[1] = h[1]
  <2>1. /\ q \in Seq(Seq(Cluster)) /\ Joined(v.fat, q, e) /\ Len(q) = m - 1 + 1
        /\ \A y : (\E i \in 1..Len(q) : y \in ToSet(q[i])) <=> \E i \in 1..m : y \in ToSet(h[i])
        /\ q # <<>> => q[1] = h[1]
    <3> HIDE DEF q
    <3>1. q = Piece(h, 1, m) /\ 1 \in Nat /\ 1 >= 1
      BY DEF q
    <3>2. PartJoined(Cluster, h, v.fat, e, 1, m, q)
      BY <1>1, <1>2, <1>3, <3>1, JoinedPart
    <3>3. QED BY <3>2 DEF PartJoined
  <2>2. QED BY <1>2, <2>1
<1> HIDE DEF q
<1>5a. A = FlattenSeq(q)
  OBVIOUS
<1> HIDE DEF A
<1>5b. q \in Seq(Seq(Cluster)) /\ Joined(v.fat, q, e)
  BY <1>4
<1>5. /\ A \in Seq(Cluster) /\ Trail(v.fat, A, e) /\ Once(A)
      /\ \A x : x \in ToSet(A) <=> \E k \in 1..Len(q) : x \in ToSet(q[k])
      /\ HeadOr(A, e) = IF q = <<>> THEN e ELSE q[1][1]
  BY <1>5a, <1>5b, FlattenTrail
<1>6. \A x : x \in ToSet(A) <=> \E j \in 1..m : x \in ToSet(K[r.segs[j]])
  <2>1. \A j \in 1..m : h[j] = K[r.segs[j]]
    BY <1>1, <1>2
  <2>2. QED BY <1>4, <1>5, <2>1
<1>7. v.fat[Log] = HeadOr(A, e)
  <2>1. CASE q = <<>>
    <3>1. m = 0
      BY <1>4, <2>1
    <3>2. CASE h = <<>>
      BY <1>1, <1>3, <1>5, <2>1, <3>1, <3>2
    <3>3. CASE h # <<>>
      <4>1. Len(h) # 0
        BY <1>1, <3>3
      <4>2. m < Len(h) /\ m + 1 = 1
        BY <1>1, <1>2, <3>1, <4>1
      <4>3. QED BY <1>1, <1>3, <1>5, <2>1, <3>3, <4>2
    <3>4. QED BY <3>2, <3>3
  <2>2. CASE q # <<>>
    <3>1. m # 0
      BY <1>4, <2>2
    <3>2. h # <<>>
      BY <1>2, <3>1
    <3>3. QED BY <1>1, <1>4, <1>5, <2>2, <3>2
  <2>3. QED BY <2>1, <2>2
<1> DEFINE p == <<Log>> \o A
<1>8. Trail(v.fat, p, e)
  <2>1. Cluster \subseteq FatIndex /\ A \in Seq(FatIndex) /\ <<Log>> \in Seq(FatIndex)
    <3>1. Cluster \subseteq FatIndex /\ Log \in FatIndex
      BY DEF FatIndex
    <3>2. QED BY <1>5, <3>1, OneType
  <2>2. Trail(v.fat, <<Log>>, HeadOr(A, e))
    BY <1>7, TrailOne
  <2>3. QED BY <1>5, <2>1, <2>2, TrailConcat
<1>9. p[Len(p)] = SegLast(r, m)
  <2>1. p \in Seq(FatIndex) /\ ToSet(p) = {Log} \cup ToSet(A) /\ p[1] = Log
    BY <1>5, PrevIs
  <2>2. CASE m = 0
    <3>1. A = <<>>
      <4>1. ToSet(A) = {}
        <5>1. \A x : x \notin ToSet(A)
          BY <1>6, <2>2
        <5>2. QED BY <5>1
      <4>2. QED BY <1>5, <4>1, SetIs
    <3>2. p = <<Log>>
      BY <3>1
    <3>3. QED BY <2>2, <3>2 DEF SegLast
  <2>3. CASE m # 0
    <3> DEFINE z == SegLast(r, m)
    <3>1. m \in 1..Len(r.segs)
      BY <2>3
    <3>2. z \in ToSet(K[r.segs[m]]) /\ v.fat[z] = e /\ r.segs[m] \in File
      <4>1. r.segs[m] \in File
        BY <3>1, SegFacts
      <4>2. SegHeadBy(v, r, K, m)
        BY <3>1, SegHeads
      <4>3. QED BY <4>1, <4>2 DEF SegHeadBy, e
    <3> HIDE DEF z
    <3>3. z \in ToSet(p)
      BY <1>6, <2>1, <3>1, <3>2
    <3>4. PICK i \in 1..Len(p) : p[i] = z
      BY <2>1, <3>3, SetIs
    <3>5. CASE i = Len(p)
      BY <3>4, <3>5 DEF z
    <3>6. CASE i # Len(p)
      <4> DEFINE j == i + 1
      <4>1. j \in 1..Len(p) /\ j = i + 1 /\ j \in 2..Len(p)
        BY <2>1, <3>4, <3>6
      <4> HIDE DEF j
      <4>2. v.fat[z] = p[j]
        BY <1>8, <3>4, <4>1 DEF Trail
      <4>3. p[j] \in ToSet(A)
        <5>1. p[j] \in ToSet(p) /\ p[j] # Log
          <6>1. Once(p)
            BY <1>5, PrevIs
          <6>2. 1 \in 1..Len(p) /\ j # 1
            BY <2>1, <4>1
          <6>3. p[j] # p[1]
            BY <4>1, <6>1, <6>2 DEF Once
          <6>4. p[j] \in ToSet(p)
            BY <2>1, <4>1, SetIs
          <6>5. QED BY <2>1, <6>3, <6>4
        <5>2. QED BY <2>1, <5>1
      <4>4. e \in ToSet(A)
        BY <3>2, <4>2, <4>3
      <4>5. CASE m = Len(h)
        <5>1. e = TAIL /\ ToSet(A) \subseteq Cluster
          BY <1>3, <1>5, <4>5, SetIs
        <5>2. QED BY <4>4, <5>1, RfsAssumption
      <4>6. CASE m # Len(h)
        <5> DEFINE c == m + 1
        <5>1. c \in 1..Len(r.segs) /\ m < Len(h) /\ c = m + 1
          BY <1>1, <1>2, <4>6
        <5>7. e = h[c][1]
          BY <1>3, <5>1
        <5> HIDE DEF c
        <5>2. e \in ToSet(K[r.segs[c]])
          <6>1. SegStart(r, c) \in ToSet(K[r.segs[c]]) /\ SegStart(r, c) = K[r.segs[c]][1]
            <7>1. SegHeadBy(v, r, K, c)
              BY <5>1, SegHeads
            <7>2. QED BY <7>1 DEF SegHeadBy
          <6>3. QED BY <1>1, <5>1, <5>7, <6>1
        <5>3. PICK k \in 1..m : e \in ToSet(K[r.segs[k]])
          BY <1>6, <4>4
        <5>4. /\ r.segs[k] \in File /\ r.segs[c] \in File /\ r.segs[k] # r.segs[c]
          <6>1. k \in 1..Len(r.segs) /\ k # c
            BY <1>2, <5>1, <5>3
          <6>2. QED BY <5>1, <6>1, SegFacts
        <5>5. ToSet(K[r.segs[k]]) \cap ToSet(K[r.segs[c]]) = {}
          BY <5>4 DEF Shape
        <5>6. QED BY <5>2, <5>3, <5>5
      <4>7. QED BY <4>5, <4>6
    <3>7. QED BY <3>5, <3>6
  <2>4. QED BY <2>2, <2>3
<1>10. QED BY <1>5, <1>6, <1>8, <1>9 DEF FrontOf, e

LEMMA BackIs ==
  ASSUME NEW v, NEW r \in Rams, NEW K, Shape(v, r, K), NEW m \in 0..Len(r.segs)
  PROVE  \E B : BackOf(v, r, K, m, B)
<1> DEFINE h == Hanging(r, K)
           q == Piece(h, m + 1, Len(h))
           B == FlattenSeq(q)
<1>1. /\ h \in Seq(Seq(Cluster)) /\ Len(h) = Len(r.segs)
      /\ \A k \in 1..Len(r.segs) : h[k] = K[r.segs[k]]
      /\ Joined(v.fat, h, TAIL)
  BY HangingJoined
<1>2. Len(h) \in Nat /\ m \in Nat /\ m + 1 \in Nat /\ m + 1 >= 1 /\ m + 1 <= Len(h) + 1
  BY <1>1, SegFacts
<1> HIDE DEF h
<1>3. /\ q \in Seq(Seq(Cluster)) /\ Joined(v.fat, q, TAIL) /\ Len(q) = Len(h) - (m + 1) + 1
      /\ \A y : (\E i \in 1..Len(q) : y \in ToSet(q[i])) <=> \E i \in (m + 1)..Len(h) : y \in ToSet(h[i])
      /\ q # <<>> => q[1] = h[m + 1]
  <2> DEFINE n == Len(h)
             l == m + 1
  <2>1. n \in Nat /\ l \in Nat /\ l >= 1 /\ l <= n + 1 /\ n <= Len(h) /\ ~(n < Len(h)) /\ q = Piece(h, l, n)
    BY <1>2
  <2> HIDE DEF n, l, q
  <2>2. (n < Len(h) => TAIL = h[n + 1][1]) /\ (n = Len(h) => TAIL = TAIL)
    BY <2>1
  <2>3. PartJoined(Cluster, h, v.fat, TAIL, l, n, q)
    BY <1>1, <2>1, <2>2, JoinedPart
  <2>4. QED BY <2>3 DEF PartJoined, n, l
<1> HIDE DEF q
<1>4. /\ B \in Seq(Cluster) /\ Trail(v.fat, B, TAIL) /\ Once(B)
      /\ \A x : x \in ToSet(B) <=> \E k \in 1..Len(q) : x \in ToSet(q[k])
      /\ HeadOr(B, TAIL) = IF q = <<>> THEN TAIL ELSE q[1][1]
  BY <1>3, FlattenTrail
<1> HIDE DEF B
<1>5. \A x : x \in ToSet(B) <=> \E j \in (m + 1)..Len(r.segs) : x \in ToSet(K[r.segs[j]])
  <2>1. \A j \in (m + 1)..Len(r.segs) : h[j] = K[r.segs[j]]
    BY <1>1, <1>2
  <2>2. QED BY <1>1, <1>3, <1>4, <2>1
<1>6. HeadOr(B, TAIL) = SegNext(r, m)
  <2>1. CASE m < Len(h)
    <3> DEFINE c == m + 1
    <3>1. c \in 1..Len(r.segs) /\ Len(q) # 0
      BY <1>1, <1>2, <1>3, <2>1
    <3>2. q # <<>>
      BY <3>1
    <3>5. q[1] = h[c] /\ SegNext(r, m) = SegStart(r, c)
      BY <1>1, <1>3, <2>1, <3>2 DEF SegNext
    <3> HIDE DEF c
    <3>6. SegHeadBy(v, r, K, c)
      BY <3>1, SegHeads
    <3>3. SegStart(r, c) = K[r.segs[c]][1] /\ h[c] = K[r.segs[c]]
      BY <1>1, <3>1, <3>6 DEF SegHeadBy
    <3>4. QED BY <1>4, <3>2, <3>3, <3>5
  <2>2. CASE ~(m < Len(h))
    <3>1. Len(q) = 0
      BY <1>2, <1>3, <2>2
    <3>2. q = <<>>
      BY <1>3, <3>1
    <3>3. QED BY <1>1, <1>4, <2>2, <3>2 DEF SegNext
  <2>3. QED BY <2>1, <2>2
<1>7. QED BY <1>4, <1>5, <1>6 DEF BackOf

\* The chains of the entries and of the unlinked inodes.
ChainSet(b, r, K, C) ==
  /\ C \in Chains /\ SoundBy(b, C)
  /\ \A f \in File, s \in Slot : Owns(r.ino, f, s) => C[s] = K[f]
  /\ \A s \in Slot : Free(r.ino, s) => C[s] = <<>>
  /\ \A x : x \in ToSet(C[None]) <=> \E f \in File : r.ino[f].st = "free" /\ x \in ToSet(K[f])
LEMMA ChainSetIs ==
  ASSUME NEW b, NEW r \in Rams, NEW K, Shape(b, r, K),
         \A f \in File, s \in Slot : Owns(r.ino, f, s) => b.start[s] = r.ino[f].start
  PROVE  \E C : ChainSet(b, r, K, C)
<1> DEFINE C == ChainsBy(r, K)
<1>1. /\ C \in Chains
      /\ \A f \in File, s \in Slot : Owns(r.ino, f, s) => C[s] = K[f]
      /\ \A s \in Slot : Free(r.ino, s) => C[s] = <<>>
      /\ Trail(b.fat, C[None], TAIL) /\ Once(C[None]) /\ b.fat[Log] = HeadOr(C[None], TAIL)
      /\ \A x : x \in ToSet(C[None]) <=> \E f \in File : r.ino[f].st = "free" /\ x \in ToSet(K[f])
  BY ChainsByIs
<1>2. SoundBy(b, C)
  BY ShapeSound
<1> HIDE DEF C
<1>3. ChainSet(b, r, K, C)
  BY <1>1, <1>2 DEF ChainSet
<1>4. QED BY <1>3

\* Every cluster in use belongs to an entry or a segment.
LEMMA SegHolds ==
  ASSUME NEW v, NEW r \in Rams, NEW K, Shape(v, r, K), NEW f \in File, r.ino[f].st = "free",
         NEW x \in ToSet(K[f])
  PROVE  \E k \in 1..Len(r.segs) : r.segs[k] = f
<1>1. K[f] \in Seq(Cluster) /\ r.ino[f].start = HeadOr(K[f], TAIL)
  BY DEF Shape
<1>2. K[f] # <<>> /\ 1 \in 1..Len(K[f])
  <2>1. PICK i \in 1..Len(K[f]) : K[f][i] = x
    BY <1>1, SetIs
  <2>2. QED BY <1>1, <2>1
<1>3. r.ino[f].start # TAIL
  <2>1. r.ino[f].start = K[f][1] /\ K[f][1] \in Cluster
    BY <1>1, <1>2 DEF HeadOr
  <2>2. QED BY <2>1, RfsAssumption
<1>4. QED BY <1>3, SegFacts

LEMMA ChainHolder ==
  ASSUME NEW v, NEW r \in Rams, NEW K, Shape(v, r, K), NEW C, ChainSet(v, r, K, C),
         NEW c \in Cluster, v.fat[c] # FREE
  PROVE  \/ \E s \in Slot : c \in ToSet(C[s])
         \/ \E k \in 1..Len(r.segs) : c \in ToSet(K[r.segs[k]])
<1>1. PICK f \in File : c \in ToSet(K[f])
  BY DEF Shape
<1>2. K[f] \in Seq(Cluster) /\ (r.ino[f].st = "none" => K[f] = <<>>)
  BY DEF Shape
<1>3. CASE r.ino[f].st = "none"
  <2>1. ToSet(K[f]) = {}
    BY <1>2, <1>3, SetIs
  <2>2. QED BY <1>1, <2>1
<1>4. CASE r.ino[f].st = "alloc"
  <2>1. r.ino[f].slot \in Slot /\ Owns(r.ino, f, r.ino[f].slot)
    BY <1>4, RamFields DEF InodeOK, Owns
  <2>2. QED BY <1>1, <2>1 DEF ChainSet
<1>5. CASE r.ino[f].st = "free"
  <2>1. PICK k \in 1..Len(r.segs) : r.segs[k] = f
    BY <1>1, <1>5, SegHolds
  <2>2. QED BY <1>1, <2>1
<1>6. r.ino[f].st \in {"none", "alloc", "free"}
  BY RamFields DEF Inodes
<1>7. QED BY <1>3, <1>4, <1>5, <1>6

\* No cut: rfs_delete_inode.
LEMMA NoCut ==
  ASSUME NEW b \in Volume, NEW d \in Places, d.trunc = FALSE
  PROVE  CutFat(b, d) = b.fat /\ \A s \in Slot : CutStart(b, d, s) = b.start[s]
<1>1. CutSpots(d) = {}
  BY DEF CutSpots
<1>2. b.fat \in FatMap
  BY VolumeFields
<1>3. CutFat(b, d) = b.fat
  BY <1>1, <1>2 DEF CutFat, FatMap
<1>4. QED BY <1>1, <1>3 DEF CutStart

\* The chain of the unlinked inode f leaves the middle of the log file's chain.
ParkedAt(r, f, d) ==
  LET k == SegIndex(r, f)
  IN /\ d \in Places /\ d.trunc = FALSE /\ d.prev = SegLast(r, k - 1) /\ d.succ = SegNext(r, k)
LEMMA ParkedStrung ==
  ASSUME NEW b \in Volume, NEW r \in Rams, NEW K, Shape(b, r, K), NEW C, ChainSet(b, r, K, C),
         NEW f \in File, r.ino[f].st = "free", r.ino[f].start # TAIL,
         NEW d, ParkedAt(r, f, d), NEW U, U = [s \in Slot |-> C[s]]
  PROVE  /\ \E A, B : Strung(b, d, K[f], A, B, U)
         /\ Aside(d, K[f]) /\ CutTo(d, C, U)
<1> DEFINE k == SegIndex(r, f)
           cs == K[f]
           n == Len(r.segs)
           j0 == k - 1
<1>1. k \in 1..n /\ r.segs[k] = f /\ n \in Nat /\ j0 \in 0..n /\ k \in 0..n /\ j0 + 1 = k
  BY SegPlace, SegFacts
<1>2. d \in Places /\ d.trunc = FALSE /\ d.prev = SegLast(r, j0) /\ d.succ = SegNext(r, k)
  BY DEF ParkedAt
<1> HIDE DEF j0
<1>3. PICK A : FrontOf(b, r, K, j0, A)
  BY <1>1, FrontIs
<1>4. PICK B : BackOf(b, r, K, k, B)
  BY <1>1, BackIs
<1>5. /\ A \in Seq(Cluster) /\ Once(A) /\ Trail(b.fat, <<Log>> \o A, SegNext(r, j0))
      /\ (<<Log>> \o A)[Len(<<Log>> \o A)] = d.prev
      /\ \A x : x \in ToSet(A) <=> \E j \in 1..j0 : x \in ToSet(K[r.segs[j]])
  BY <1>2, <1>3 DEF FrontOf
<1>6. /\ B \in Seq(Cluster) /\ Once(B) /\ Trail(b.fat, B, TAIL) /\ HeadOr(B, TAIL) = d.succ
      /\ \A x : x \in ToSet(B) <=> \E j \in (k + 1)..n : x \in ToSet(K[r.segs[j]])
  BY <1>2, <1>4 DEF BackOf
<1>7. CutFat(b, d) = b.fat /\ \A s \in Slot : CutStart(b, d, s) = b.start[s]
  BY <1>2, NoCut
<1>8. cs \in Seq(Cluster) /\ Once(cs) /\ Trail(b.fat, cs, d.succ)
  <2>1. Trail(b.fat, K[r.segs[k]], SegNext(r, k))
    BY <1>1 DEF Shape
  <2>2. cs \in Seq(Cluster) /\ Once(cs)
    BY DEF Shape
  <2>3. QED BY <1>1, <1>2, <2>1, <2>2
<1> HIDE DEF k, cs, n
<1>9. \A i, j \in 1..n : i # j => ToSet(K[r.segs[i]]) \cap ToSet(K[r.segs[j]]) = {}
  <2>1. ASSUME NEW i \in 1..n, NEW j \in 1..n, i # j PROVE ToSet(K[r.segs[i]]) \cap ToSet(K[r.segs[j]]) = {}
    <3>1. r.segs[i] \in File /\ r.segs[j] \in File /\ r.segs[i] # r.segs[j]
      BY <2>1, SegFacts DEF n
    <3>2. QED BY <3>1 DEF Shape
  <2>2. QED BY <2>1
<1>10. Apart3(A, cs, B)
  <2>1. \A j \in 1..j0 : j \in 1..n /\ j < k
    BY <1>1
  <2>2. \A j \in (k + 1)..n : j \in 1..n /\ k < j
    BY <1>1
  <2>3. cs = K[r.segs[k]]
    BY <1>1 DEF cs
  <2>4. ToSet(A) \cap ToSet(cs) = {}
    <3>1. ASSUME NEW x, x \in ToSet(A), x \in ToSet(cs) PROVE FALSE
      <4>1. PICK i \in 1..j0 : x \in ToSet(K[r.segs[i]])
        BY <1>5, <3>1
      <4>2. i \in 1..n /\ i # k
        BY <1>1, <2>1
      <4>3. x \in ToSet(K[r.segs[k]])
        BY <2>3, <3>1
      <4>4. QED BY <1>1, <1>9, <4>1, <4>2, <4>3
    <3>2. QED BY <3>1
  <2>5. ToSet(cs) \cap ToSet(B) = {}
    <3>1. ASSUME NEW x, x \in ToSet(B), x \in ToSet(cs) PROVE FALSE
      <4>1. PICK i \in (k + 1)..n : x \in ToSet(K[r.segs[i]])
        BY <1>6, <3>1
      <4>2. i \in 1..n /\ i # k
        BY <1>1, <2>2
      <4>3. x \in ToSet(K[r.segs[k]])
        BY <2>3, <3>1
      <4>4. QED BY <1>1, <1>9, <4>1, <4>2, <4>3
    <3>2. QED BY <3>1
  <2>6. ToSet(A) \cap ToSet(B) = {}
    <3>1. ASSUME NEW x, x \in ToSet(A), x \in ToSet(B) PROVE FALSE
      <4>1. PICK i \in 1..j0 : x \in ToSet(K[r.segs[i]])
        BY <1>5, <3>1
      <4>2. PICK j \in (k + 1)..n : x \in ToSet(K[r.segs[j]])
        BY <1>6, <3>1
      <4>3. i \in 1..n /\ j \in 1..n /\ i # j
        BY <1>1, <2>1, <2>2
      <4>4. QED BY <1>9, <4>1, <4>2, <4>3
    <3>2. QED BY <3>1
  <2>7. QED BY <1>5, <1>6, <1>8, <2>4, <2>5, <2>6 DEF Apart3
<1>11. \A x : x \in ToSet(A) \/ x \in ToSet(B) \/ x \in ToSet(cs) => x \in ToSet(C[None])
  <2>1. ASSUME NEW j \in 1..n, NEW x \in ToSet(K[r.segs[j]]) PROVE x \in ToSet(C[None])
    <3>1. r.segs[j] \in File /\ r.ino[r.segs[j]].st = "free"
      BY SegFacts DEF n
    <3>2. QED BY <3>1 DEF ChainSet
  <2>2. \A j \in 1..j0 : j \in 1..n
    BY <1>1
  <2>3. \A j \in (k + 1)..n : j \in 1..n
    BY <1>1
  <2>4. ASSUME NEW x, x \in ToSet(A) PROVE x \in ToSet(C[None])
    <3>1. PICK j \in 1..j0 : x \in ToSet(K[r.segs[j]])
      BY <1>5, <2>4
    <3>2. QED BY <2>1, <2>2, <3>1
  <2>5. ASSUME NEW x, x \in ToSet(B) PROVE x \in ToSet(C[None])
    <3>1. PICK j \in (k + 1)..n : x \in ToSet(K[r.segs[j]])
      BY <1>6, <2>5
    <3>2. QED BY <2>1, <2>3, <3>1
  <2>6. ASSUME NEW x, x \in ToSet(cs) PROVE x \in ToSet(C[None])
    <3>1. x \in ToSet(K[r.segs[k]])
      BY <1>1, <2>6 DEF cs
    <3>2. QED BY <1>1, <2>1, <3>1
  <2>7. QED BY <2>4, <2>5, <2>6
<1>12. SoundBy(b, C) /\ C \in Chains
  BY DEF ChainSet
<1>13. \A s \in Slot : s \in Slot \cup {None} /\ s # None /\ U[s] = C[s]
  BY RfsAssumption
<1>14. \A s \in Slot : ToSet(U[s]) \cap ToSet(C[None]) = {}
  BY <1>12, <1>13 DEF SoundBy
<1>15. \A s \in Slot : /\ Trail(b.fat, U[s], TAIL) /\ Once(U[s])
                       /\ IF b.live[s] THEN b.start[s] = HeadOr(U[s], TAIL) ELSE U[s] = <<>>
                       /\ ToSet(U[s]) \cap ToSet(A) = {} /\ ToSet(U[s]) \cap ToSet(cs) = {}
                       /\ ToSet(U[s]) \cap ToSet(B) = {}
  <2>1. ASSUME NEW s \in Slot
        PROVE  /\ Trail(b.fat, U[s], TAIL) /\ Once(U[s])
               /\ IF b.live[s] THEN b.start[s] = HeadOr(U[s], TAIL) ELSE U[s] = <<>>
    BY <1>12, <1>13 DEF SoundBy
  <2>2. ASSUME NEW s \in Slot
        PROVE  /\ ToSet(U[s]) \cap ToSet(A) = {} /\ ToSet(U[s]) \cap ToSet(cs) = {}
               /\ ToSet(U[s]) \cap ToSet(B) = {}
    BY <1>11, <1>14
  <2>3. QED BY <2>1, <2>2
<1>16. \A s, t \in Slot : s # t => ToSet(U[s]) \cap ToSet(U[t]) = {}
  BY <1>12, <1>13 DEF SoundBy
<1>17. \A c \in Cluster : b.fat[c] # FREE =>
         c \in ToSet(A) \/ c \in ToSet(cs) \/ c \in ToSet(B) \/ \E s \in Slot : c \in ToSet(U[s])
  <2>1. ASSUME NEW c \in Cluster, b.fat[c] # FREE
        PROVE  c \in ToSet(A) \/ c \in ToSet(cs) \/ c \in ToSet(B) \/ \E s \in Slot : c \in ToSet(U[s])
    <3>1. CASE \E s \in Slot : c \in ToSet(C[s])
      BY <1>13, <3>1
    <3>2. CASE \E j \in 1..Len(r.segs) : c \in ToSet(K[r.segs[j]])
      <4>1. PICK j \in 1..n : c \in ToSet(K[r.segs[j]])
        BY <3>2 DEF n
      <4>2. j \in 1..j0 \/ j = k \/ j \in (k + 1)..n
        BY <1>1
      <4>3. CASE j \in 1..j0
        BY <1>5, <4>1, <4>3
      <4>4. CASE j = k
        BY <1>1, <4>1, <4>4 DEF cs
      <4>5. CASE j \in (k + 1)..n
        BY <1>6, <4>1, <4>5
      <4>6. QED BY <4>2, <4>3, <4>4, <4>5
    <3>3. QED BY <2>1, <3>1, <3>2, ChainHolder
  <2>2. QED BY <2>1
<1>18. U \in [Slot -> Seq(Cluster)]
  <2>1. \A s \in Slot : C[s] \in Seq(Cluster)
    BY <1>12, <1>13 DEF Chains
  <2>2. QED BY <2>1
<1>19. Strung(b, d, cs, A, B, U)
  <2>1. /\ A \in Seq(Cluster) /\ B \in Seq(Cluster) /\ U \in [Slot -> Seq(Cluster)] /\ Apart3(A, cs, B)
        /\ d.prev = (<<Log>> \o A)[Len(<<Log>> \o A)] /\ d.succ = HeadOr(B, TAIL)
    BY <1>5, <1>6, <1>10, <1>18
  <2>2. \E e : Trail(CutFat(b, d), <<Log>> \o A, e)
    BY <1>5, <1>7
  <2>3. Trail(CutFat(b, d), cs, d.succ) /\ Trail(CutFat(b, d), B, TAIL)
    BY <1>6, <1>7, <1>8
  <2>4. \A s \in Slot : /\ Trail(CutFat(b, d), U[s], TAIL) /\ Once(U[s])
                        /\ IF b.live[s] THEN CutStart(b, d, s) = HeadOr(U[s], TAIL) ELSE U[s] = <<>>
                        /\ ToSet(U[s]) \cap ToSet(A) = {} /\ ToSet(U[s]) \cap ToSet(cs) = {}
                        /\ ToSet(U[s]) \cap ToSet(B) = {}
    BY <1>7, <1>15
  <2>5. \A c \in Cluster : CutFat(b, d)[c] # FREE =>
          c \in ToSet(A) \/ c \in ToSet(cs) \/ c \in ToSet(B) \/ \E s \in Slot : c \in ToSet(U[s])
    BY <1>7, <1>17
  <2>6. QED BY <1>16, <2>1, <2>2, <2>3, <2>4, <2>5 DEF Strung
<1>20. Aside(d, cs)
  <2>1. d.prev \notin ToSet(cs)
    <3>1. d.prev \in {Log} \cup ToSet(A)
      <4> DEFINE p == <<Log>> \o A
      <4>1. ToSet(p) = {Log} \cup ToSet(A) /\ p[Len(p)] \in ToSet(p)
        BY <1>5, PrevIs
      <4>2. QED BY <1>5, <4>1
    <3>2. ToSet(cs) \subseteq Cluster /\ Log \notin Cluster
      BY <1>8, SetIs, RfsAssumption
    <3>3. ToSet(A) \cap ToSet(cs) = {}
      BY <1>10 DEF Apart3
    <3>4. QED BY <3>1, <3>2, <3>3
  <2>2. SourceSpots(d) = {<<"fat", d.prev>>}
    BY <1>2 DEF SourceSpots, CutSpots
  <2>3. <<"fat", d.prev>> \notin Freed(ToSet(cs))
    BY <2>1 DEF Freed
  <2>4. QED BY <2>2, <2>3 DEF Aside
<1>21. CutTo(d, C, U)
  BY <1>2, <1>13 DEF CutTo
<1>22. QED BY <1>19, <1>20, <1>21 DEF cs

\* What a truncation keeps of a chain.
LEMMA KeptIs ==
  ASSUME NEW p \in Seq(Cluster), Once(p), NEW n \in 0..Len(p), NEW x,
         n = 0 => x = TAIL, n # 0 => x = p[n]
  PROVE  Kept(p, x) = Begin(p, n)
<1> DEFINE I == {i \in 1..Len(p) : p[i] = x}
           k == SelectInSeq(p, LAMBDA c : c = x)
<1>1. k = IF I # {} THEN CHOOSE i \in I : \A j \in I : i <= j ELSE 0
  BY DEF SelectInSeq, Min
<1>2. CASE n = 0
  <2>1. x \notin Cluster
    BY <1>2, RfsAssumption
  <2>2. I = {}
    BY <2>1
  <2>3. k = n
    BY <1>1, <1>2, <2>2
  <2>4. QED BY <2>3 DEF Kept, Begin
<1>3. CASE n # 0
  <2>1. n \in 1..Len(p) /\ p[n] = x
    BY <1>3
  <2>2. I = {n}
    BY <2>1 DEF Once
  <2>3. n <= n
    BY <2>1
  <2>4. k = n
    BY <1>1, <2>2, <2>3
  <2>5. QED BY <2>4 DEF Kept, Begin
<1>4. QED BY <1>2, <1>3

LEMMA KeptTwice ==
  ASSUME NEW p \in Seq(Cluster), Once(p), NEW n \in 0..Len(p), NEW x,
         n = 0 => x = TAIL, n # 0 => x = p[n], NEW u, u = Begin(p, n)
  PROVE  Kept(u, x) = u /\ Once(u)
<1>1. u \in Seq(Cluster) /\ Len(u) = n /\ \A i \in 1..n : u[i] = p[i]
  BY BeginIs
<1>2. Once(u)
  <2>1. ASSUME NEW i \in 1..Len(u), NEW j \in 1..Len(u), u[i] = u[j] PROVE i = j
    <3>1. i \in 1..Len(p) /\ j \in 1..Len(p) /\ p[i] = p[j]
      BY <1>1, <2>1
    <3>2. QED BY <3>1 DEF Once
  <2>2. QED BY <2>1 DEF Once
<1>3. n \in 0..Len(u) /\ (n # 0 => x = u[n])
  BY <1>1
<1>4. Kept(u, x) = Begin(u, n)
  BY <1>1, <1>2, <1>3, KeptIs
<1>5. Begin(u, Len(u)) = u
  BY <1>1, BeginAll
<1>6. QED BY <1>1, <1>2, <1>4, <1>5

\* A truncation of the chain p of an inode in u to n clusters.
CutAt(r, u, p, n, d) ==
  /\ d \in Places /\ d.trunc = TRUE /\ d.slot = u /\ d.prev = SegEnd(r) /\ d.succ = TAIL
  /\ d.newlast = IF n = 0 THEN TAIL ELSE p[n]
CutParts(p, n, d) ==
  /\ \A x : <<"fat", x>> \in CutSpots(d) <=> n # 0 /\ x = p[n]
  /\ \A s \in Slot : <<"start", s>> \in CutSpots(d) <=> n = 0 /\ s = d.slot
LEMMA CutSpotsAre ==
  ASSUME NEW r, NEW u \in Slot, NEW p \in Seq(Cluster), NEW n \in 0..Len(p), NEW d, CutAt(r, u, p, n, d)
  PROVE  CutParts(p, n, d)
<1>1. d \in Places /\ d.trunc = TRUE /\ d.slot = u /\ d.newlast = IF n = 0 THEN TAIL ELSE p[n]
  BY DEF CutAt
<1>2. u # None
  BY RfsAssumption
<1>3. n # 0 => p[n] # TAIL
  <2>1. n # 0 => p[n] \in Cluster
    OBVIOUS
  <2>2. QED BY <2>1, RfsAssumption
<1>4. /\ \A x : <<"fat", x>> \in CutSpots(d) <=> d.trunc /\ d.newlast # TAIL /\ x = d.newlast
      /\ \A x : <<"start", x>> \in CutSpots(d) <=>
                  d.trunc /\ d.newlast = TAIL /\ d.slot # None /\ x = d.slot
  BY <1>1, SourceIs
<1>5. QED BY <1>1, <1>2, <1>3, <1>4 DEF CutParts

\* The chains of the entries, that of u cut.
CutHeads(C, u, keep) == [s \in Slot |-> IF s = u THEN keep ELSE C[s]]
LEMMA CutStrung ==
  ASSUME NEW b \in Volume, NEW r \in Rams, NEW K, Shape(b, r, K), NEW C, ChainSet(b, r, K, C),
         NEW f \in File, NEW u \in Slot, Owns(r.ino, f, u),
         NEW n \in 0..Len(K[f]), n # Len(K[f]),
         NEW d, CutAt(r, u, K[f], n, d), NEW cs, cs = Left(K[f], n), NEW keep, keep = Begin(K[f], n),
         NEW U, U = CutHeads(C, u, keep)
  PROVE  /\ \E A, B : Strung(b, d, cs, A, B, U)
         /\ Aside(d, cs) /\ CutTo(d, C, U)
<1> DEFINE p == K[f]
           m == Len(r.segs)
<1>1. /\ p \in Seq(Cluster) /\ Once(p) /\ Trail(b.fat, p, TAIL) /\ r.ino[f].start = HeadOr(p, TAIL)
      /\ r.ino[f].st = "alloc"
  BY DEF Shape, Owns
<1>2. /\ d \in Places /\ d.trunc = TRUE /\ d.slot = u /\ d.prev = SegEnd(r) /\ d.succ = TAIL
      /\ d.newlast = (IF n = 0 THEN TAIL ELSE p[n])
  BY DEF CutAt
<1>3. CutParts(p, n, d)
  BY <1>1, CutSpotsAre
<1>4. /\ \A x : <<"fat", x>> \in CutSpots(d) <=> n # 0 /\ x = p[n]
      /\ \A s \in Slot : <<"start", s>> \in CutSpots(d) <=> n = 0 /\ s = u
  BY <1>2, <1>3 DEF CutParts
<1>5. LeftOf(p, n, cs)
  BY <1>1, LeftIs
<1>6. /\ cs \in Seq(Cluster) /\ Once(cs) /\ ToSet(cs) \subseteq ToSet(p) /\ Trail(b.fat, cs, TAIL)
      /\ \A x \in ToSet(p) : x \in Taken(p, n) \/ x \in ToSet(cs)
      /\ Taken(p, n) \cap ToSet(cs) = {}
  BY <1>1, <1>5 DEF LeftOf
<1>7. keep \in Seq(Cluster) /\ Len(keep) = n /\ (\A i \in 1..n : keep[i] = p[i]) /\ ToSet(keep) = Taken(p, n)
  BY <1>1, BeginIs DEF Taken
<1>8. Kept(p, d.newlast) = keep /\ Kept(keep, d.newlast) = keep /\ Once(keep)
  BY <1>1, <1>2, KeptIs, KeptTwice
<1>9. ToSet(keep) \subseteq ToSet(p) /\ (n # 0 => p[n] \in ToSet(keep) /\ p[n] \in ToSet(p))
  <2>1. Taken(p, n) \subseteq ToSet(p) /\ \A x : x \in Taken(p, n) <=> \E i \in 1..n : p[i] = x
    BY <1>1, TakenIs
  <2>2. n # 0 => n \in 1..n
    OBVIOUS
  <2>3. QED BY <1>7, <2>1, <2>2
<1>10. m \in Nat /\ m \in 0..m
  BY SegFacts
<1>11. PICK A : FrontOf(b, r, K, m, A)
  BY <1>10, FrontIs
<1>12. /\ A \in Seq(Cluster) /\ Once(A) /\ Trail(b.fat, <<Log>> \o A, TAIL)
       /\ (<<Log>> \o A)[Len(<<Log>> \o A)] = d.prev
       /\ \A x : x \in ToSet(A) <=> \E j \in 1..m : x \in ToSet(K[r.segs[j]])
  <2>1. SegNext(r, m) = TAIL /\ SegLast(r, m) = SegEnd(r)
    BY <1>10 DEF SegNext, SegEnd
  <2>2. QED BY <1>2, <1>11, <2>1 DEF FrontOf
<1>13. /\ C \in Chains /\ SoundBy(b, C) /\ C[u] = p
       /\ \A x : x \in ToSet(C[None]) <=> \E g \in File : r.ino[g].st = "free" /\ x \in ToSet(K[g])
  BY DEF ChainSet
<1> HIDE DEF p, m
<1>14. \A s \in Slot : s \in Slot \cup {None} /\ s # None
  BY RfsAssumption
<1>15. U[u] = keep /\ \A s \in Slot : s # u => U[s] = C[s]
  BY DEF CutHeads
<1>16. \A s \in Slot : ToSet(U[s]) \subseteq ToSet(C[s])
  BY <1>9, <1>13, <1>15
<1>17. /\ \A s, t \in Slot : s # t => ToSet(C[s]) \cap ToSet(C[t]) = {}
       /\ \A s \in Slot : ToSet(C[s]) \cap ToSet(C[None]) = {}
  BY <1>13, <1>14 DEF SoundBy
<1>18. ToSet(A) \subseteq ToSet(C[None])
  <2>1. ASSUME NEW x, x \in ToSet(A) PROVE x \in ToSet(C[None])
    <3>1. PICK j \in 1..m : x \in ToSet(K[r.segs[j]])
      BY <1>12, <2>1
    <3>2. r.segs[j] \in File /\ r.ino[r.segs[j]].st = "free"
      BY SegFacts DEF m
    <3>3. QED BY <1>13, <3>1, <3>2
  <2>2. QED BY <2>1
<1>19. \A s \in Slot : ToSet(U[s]) \cap ToSet(A) = {} /\ ToSet(U[s]) \cap ToSet(cs) = {}
  <2>1. ASSUME NEW s \in Slot PROVE ToSet(U[s]) \cap ToSet(A) = {}
    BY <1>16, <1>17, <1>18
  <2>2. ASSUME NEW s \in Slot PROVE ToSet(U[s]) \cap ToSet(cs) = {}
    <3>1. CASE s = u
      BY <1>6, <1>7, <1>15, <3>1
    <3>2. CASE s # u
      BY <1>6, <1>13, <1>15, <1>17, <3>2
    <3>3. QED BY <3>1, <3>2
  <2>3. QED BY <2>1, <2>2
<1>20. \A s, t \in Slot : s # t => ToSet(U[s]) \cap ToSet(U[t]) = {}
  BY <1>16, <1>17
<1>21. /\ ToSet(A) \subseteq Cluster /\ ToSet(cs) \subseteq Cluster /\ ToSet(p) \subseteq Cluster
       /\ Cluster \subseteq FatIndex /\ Log \in FatIndex /\ Log \notin Cluster
       /\ \A s \in Slot : C[s] \in Seq(Cluster) /\ ToSet(C[s]) \subseteq Cluster
  <2>1. \A s \in Slot : C[s] \in Seq(Cluster)
    BY <1>13, <1>14 DEF Chains
  <2>2. Cluster \subseteq FatIndex /\ Log \in FatIndex /\ Log \notin Cluster
    BY RfsAssumption DEF FatIndex
  <2>3. QED BY <1>1, <1>6, <1>12, <2>1, <2>2, SetIs DEF p
<1> DEFINE cut == CutFat(b, d)
<1>22. \A x \in FatIndex : cut[x] = IF n # 0 /\ x = p[n] THEN TAIL ELSE b.fat[x]
  BY <1>4 DEF CutFat
<1> HIDE DEF cut
<1>23. SameOn(b.fat, cut, ToSet(cs)) /\ SameOn(b.fat, cut, {Log} \cup ToSet(A))
       /\ \A s \in Slot : s # u => SameOn(b.fat, cut, ToSet(C[s]))
  <2>1. ASSUME NEW x \in ToSet(cs) PROVE cut[x] = b.fat[x]
    <3>1. n = 0 \/ x # p[n]
      BY <1>6, <1>7, <1>9
    <3>2. QED BY <1>21, <1>22, <3>1
  <2>2. ASSUME NEW x \in {Log} \cup ToSet(A) PROVE cut[x] = b.fat[x]
    <3>1. n = 0 \/ x # p[n]
      BY <1>9, <1>13, <1>17, <1>18, <1>21
    <3>2. QED BY <1>21, <1>22, <3>1
  <2>3. ASSUME NEW s \in Slot, s # u, NEW x \in ToSet(C[s]) PROVE cut[x] = b.fat[x]
    <3>1. n = 0 \/ x # p[n]
      BY <1>9, <1>13, <1>17, <2>3
    <3>2. QED BY <1>21, <1>22, <3>1
  <2>4. QED BY <2>1, <2>2, <2>3 DEF SameOn
<1>24. Trail(cut, cs, TAIL)
  BY <1>6, <1>23, TrailSame
<1>25. Trail(cut, <<Log>> \o A, TAIL)
  <2> DEFINE a == <<Log>> \o A
  <2>1. a \in Seq(FatIndex) /\ ToSet(a) = {Log} \cup ToSet(A) /\ Trail(b.fat, a, TAIL)
    BY <1>12, PrevIs
  <2> HIDE DEF a
  <2>2. Trail(cut, a, TAIL)
    BY <1>23, <2>1, TrailSame
  <2>3. QED BY <2>2 DEF a
<1>26. Trail(cut, keep, TAIL)
  <2>1. CASE n = 0
    <3>1. keep = <<>>
      BY <1>7, <2>1
    <3>2. QED BY <3>1, TrailNone
  <2>2. CASE n # 0
    <3>1. keep # <<>> /\ keep[Len(keep)] = p[n] /\ p[n] \in FatIndex
      BY <1>7, <1>9, <1>21, <2>2
    <3>2. \A i, j \in 1..Len(keep) : j = i + 1 => b.fat[keep[i]] = keep[j]
      <4>1. ASSUME NEW i \in 1..Len(keep), NEW j \in 1..Len(keep), j = i + 1 PROVE b.fat[keep[i]] = keep[j]
        <5>1. i \in 1..Len(p) /\ j \in 1..Len(p) /\ keep[i] = p[i] /\ keep[j] = p[j]
          BY <1>7 DEF p
        <5>2. QED BY <1>1, <4>1, <5>1 DEF Trail, p
      <4>2. QED BY <4>1
    <3>3. Trail(b.fat, keep, b.fat[p[n]])
      BY <3>1, <3>2 DEF Trail
    <3>4. SameOn(b.fat, cut, ToSet(keep) \ {keep[Len(keep)]}) /\ cut[keep[Len(keep)]] = TAIL
      <4>1. ASSUME NEW x \in ToSet(keep) \ {keep[Len(keep)]} PROVE cut[x] = b.fat[x]
        BY <1>9, <1>21, <1>22, <3>1
      <4>2. QED BY <1>22, <2>2, <3>1, <4>1 DEF SameOn
    <3>5. QED BY <1>7, <1>8, <3>1, <3>3, <3>4, TrailTurns
  <2>3. QED BY <2>1, <2>2
<1>27. b.live[u]
  BY DEF Shape
<1>28. ASSUME NEW s \in Slot
       PROVE  /\ Trail(cut, U[s], TAIL) /\ Once(U[s])
              /\ IF b.live[s] THEN CutStart(b, d, s) = HeadOr(U[s], TAIL) ELSE U[s] = <<>>
  <2>1. CASE s = u
    <3>1. Trail(cut, U[s], TAIL) /\ Once(U[s])
      BY <1>8, <1>15, <1>26, <2>1
    <3>2. CutStart(b, d, s) = HeadOr(keep, TAIL)
      <4>1. CASE n = 0
        <5>1. keep = <<>>
          BY <1>7, <4>1
        <5>2. QED BY <1>4, <2>1, <4>1, <5>1 DEF CutStart, HeadOr
      <4>2. CASE n # 0
        <5>1. keep # <<>> /\ keep[1] = p[1] /\ p # <<>>
          BY <1>7, <4>2 DEF p
        <5>2. CutStart(b, d, s) = b.start[s]
          BY <1>4, <4>2 DEF CutStart
        <5>3. b.start[u] = HeadOr(C[u], TAIL)
          BY <1>13, <1>27 DEF SoundBy
        <5>4. QED BY <1>13, <2>1, <5>1, <5>2, <5>3 DEF HeadOr
      <4>3. QED BY <4>1, <4>2
    <3>3. QED BY <1>15, <1>27, <2>1, <3>1, <3>2
  <2>2. CASE s # u
    <3>1. /\ Trail(b.fat, C[s], TAIL) /\ Once(C[s])
          /\ IF b.live[s] THEN b.start[s] = HeadOr(C[s], TAIL) ELSE C[s] = <<>>
      BY <1>13, <1>14 DEF SoundBy
    <3>2. CutStart(b, d, s) = b.start[s]
      BY <1>4, <2>2 DEF CutStart
    <3>3. Trail(cut, C[s], TAIL)
      <4>1. C[s] \in Seq(Cluster) /\ SameOn(b.fat, cut, ToSet(C[s]))
        BY <1>21, <1>23, <2>2
      <4>2. QED BY <3>1, <4>1, TrailSame
    <3>4. QED BY <1>15, <2>2, <3>1, <3>2, <3>3
  <2>3. QED BY <2>1, <2>2
<1>29. ASSUME NEW c \in Cluster, cut[c] # FREE
       PROVE  c \in ToSet(A) \/ c \in ToSet(cs) \/ \E s \in Slot : c \in ToSet(U[s])
  <2>1. CASE n # 0 /\ c = p[n]
    BY <1>7, <1>9, <1>15, <2>1
  <2>2. CASE ~(n # 0 /\ c = p[n])
    <3>1. b.fat[c] # FREE
      BY <1>21, <1>22, <1>29, <2>2
    <3>2. CASE \E s \in Slot : c \in ToSet(C[s])
      <4>1. PICK s \in Slot : c \in ToSet(C[s])
        BY <3>2
      <4>2. CASE s = u
        BY <1>6, <1>7, <1>13, <1>15, <4>1, <4>2
      <4>3. CASE s # u
        BY <1>15, <4>1, <4>3
      <4>4. QED BY <4>2, <4>3
    <3>3. CASE \E j \in 1..Len(r.segs) : c \in ToSet(K[r.segs[j]])
      BY <1>12, <3>3 DEF m
    <3>4. QED BY <3>1, <3>2, <3>3, ChainHolder
  <2>3. QED BY <2>1, <2>2
<1>30. U \in [Slot -> Seq(Cluster)]
  <2>1. \A s \in Slot : U[s] \in Seq(Cluster)
    BY <1>7, <1>15, <1>21
  <2>2. QED BY <2>1 DEF CutHeads
<1>32. Strung(b, d, cs, A, <<>>, U)
  <2>0. <<>> \in Seq(Cluster) /\ ToSet(<<>>) = {} /\ Once(<<>>) /\ HeadOr(<<>>, TAIL) = TAIL
        /\ Trail(CutFat(b, d), <<>>, TAIL)
    BY TrailNone
  <2>1. Apart3(A, cs, <<>>)
    <3>1. ToSet(A) \cap ToSet(cs) = {}
      BY <1>6, <1>13, <1>17, <1>18
    <3>2. QED BY <1>6, <1>12, <2>0, <3>1 DEF Apart3
  <2>2. /\ A \in Seq(Cluster) /\ U \in [Slot -> Seq(Cluster)]
        /\ d.prev = (<<Log>> \o A)[Len(<<Log>> \o A)] /\ d.succ = HeadOr(<<>>, TAIL)
    BY <1>2, <1>12, <1>30, <2>0
  <2>3. \E e : Trail(CutFat(b, d), <<Log>> \o A, e)
    BY <1>25 DEF cut
  <2>4. Trail(CutFat(b, d), cs, d.succ)
    BY <1>2, <1>24 DEF cut
  <2>5. \A s \in Slot : /\ Trail(CutFat(b, d), U[s], TAIL) /\ Once(U[s])
                        /\ IF b.live[s] THEN CutStart(b, d, s) = HeadOr(U[s], TAIL) ELSE U[s] = <<>>
                        /\ ToSet(U[s]) \cap ToSet(A) = {} /\ ToSet(U[s]) \cap ToSet(cs) = {}
                        /\ ToSet(U[s]) \cap ToSet(<<>>) = {}
    <3>1. \A s \in Slot : /\ Trail(CutFat(b, d), U[s], TAIL) /\ Once(U[s])
                          /\ IF b.live[s] THEN CutStart(b, d, s) = HeadOr(U[s], TAIL) ELSE U[s] = <<>>
      BY <1>28 DEF cut
    <3>2. QED BY <1>19, <2>0, <3>1
  <2>6. \A c \in Cluster : CutFat(b, d)[c] # FREE =>
          c \in ToSet(A) \/ c \in ToSet(cs) \/ c \in ToSet(<<>>) \/ \E s \in Slot : c \in ToSet(U[s])
    BY <1>29 DEF cut
  <2>7. QED BY <1>20, <2>0, <2>1, <2>2, <2>3, <2>4, <2>5, <2>6 DEF Strung
<1>33. Aside(d, cs)
  <2>1. d.prev \notin ToSet(cs)
    <3>1. d.prev \in {Log} \cup ToSet(A)
      <4> DEFINE a == <<Log>> \o A
      <4>1. ToSet(a) = {Log} \cup ToSet(A) /\ a[Len(a)] \in ToSet(a)
        BY <1>12, PrevIs
      <4>2. QED BY <1>12, <4>1
    <3>2. QED BY <1>6, <1>13, <1>17, <1>18, <1>21, <3>1
  <2>2. n # 0 => p[n] \notin ToSet(cs)
    BY <1>6, <1>7, <1>9
  <2>3. ASSUME NEW x \in SourceSpots(d), x \in Freed(ToSet(cs)) PROVE FALSE
    <3>1. PICK c \in ToSet(cs) : x = <<"fat", c>>
      BY <2>3 DEF Freed
    <3>2. c = d.prev \/ <<"fat", c>> \in CutSpots(d)
      BY <1>2, <2>3, <3>1, SourceIs
    <3>3. QED BY <1>4, <2>1, <2>2, <3>1, <3>2
  <2>4. QED BY <2>3 DEF Aside
<1>34. CutTo(d, C, U)
  <2>1. u # None
    BY <1>14
  <2>2. ASSUME NEW s \in Slot
        PROVE  IF d.trunc /\ d.slot # None /\ s = d.slot THEN U[s] = Kept(C[s], d.newlast) ELSE U[s] = C[s]
    BY <1>2, <1>8, <1>13, <1>15, <2>1
  <2>3. Kept(U[d.slot], d.newlast) = U[d.slot]
    BY <1>2, <1>8, <1>15
  <2>4. QED BY <2>2, <2>3 DEF CutTo
<1>35. QED BY <1>32, <1>33, <1>34
-----------------------------------------------------------------------------
(***************************************************************************)
(* rfs_delete_inode and rfs_truncate.                                      *)
(***************************************************************************)
\* What a deallocation starts from.
FreshAs(c, K) ==
  /\ Shape(c.base, c.ram, K) /\ OwnersFixed(c) /\ c.base.fat = c.vol.fat
  /\ \A f \in File, s \in Slot : Owns(c.ram.ino, f, s) => c.base.start[s] = c.ram.ino[f].start

LEMMA FreshShape ==
  ASSUME NEW c, NEW K, Fresh(c, K)
  PROVE  FreshAs(c, K)
<1>1. /\ c.vol \in Volume /\ c.base \in Volume /\ c.ram \in Rams /\ Shape(c.vol, c.ram, K)
      /\ \A x \in FatIndex : c.base.fat[x] = c.vol.fat[x]
      /\ \A s \in Slot : c.base.live[s] = c.vol.live[s]
      /\ \A f \in File, s \in Slot : Owns(c.ram.ino, f, s) =>
           /\ s \in c.fixed /\ c.base.start[s] = c.ram.ino[f].start
  BY FreshBase
<1>2. /\ c.vol.fat \in [FatIndex -> FatVal] /\ c.base.fat \in [FatIndex -> FatVal]
      /\ c.vol.live \in [Slot -> BOOLEAN] /\ c.base.live \in [Slot -> BOOLEAN]
  BY <1>1, VolumeFields DEF FatMap
<1>3. c.base.fat = c.vol.fat
  BY <1>1, <1>2
<1>4. c.base.live = c.vol.live
  BY <1>1, <1>2
<1>5. Shape(c.base, c.ram, K)
  BY <1>1, <1>3, <1>4, ShapeSame
<1>6. OwnersFixed(c)
  BY <1>1 DEF OwnersFixed
<1>7. QED BY <1>1, <1>3, <1>5, <1>6 DEF FreshAs

LEMMA FreshGroup ==
  ASSUME NEW c, NEW K, Fresh(c, K), NEW d, NEW cs
  PROVE  AtGroup(c, c.base, d, cs, 0)
<1>1. Sane(c) /\ c.log = <<>> /\ c.mask = {}
  BY FreshBase DEF Fresh
<1>2. QED BY <1>1 DEF AtGroup, NoGroup, Base, Mask

\* Every chain leads somewhere.
LEMMA ShapeTrail ==
  ASSUME NEW v, NEW r \in Rams, NEW K, Shape(v, r, K), NEW f \in File
  PROVE  /\ \E e : Trail(v.fat, K[f], e)
         /\ K[f] \in Seq(Cluster) /\ Once(K[f]) /\ r.ino[f].start = HeadOr(K[f], TAIL)
         /\ K[f] # <<>> => r.ino[f].last = K[f][Len(K[f])]
<1>1. /\ K[f] \in Seq(Cluster) /\ Once(K[f]) /\ r.ino[f].start = HeadOr(K[f], TAIL)
      /\ K[f] # <<>> => r.ino[f].last = K[f][Len(K[f])]
      /\ r.ino[f].st = "none" => K[f] = <<>>
      /\ r.ino[f].st = "alloc" => Trail(v.fat, K[f], TAIL)
      /\ \A k \in 1..Len(r.segs) : Trail(v.fat, K[r.segs[k]], SegNext(r, k))
  BY DEF Shape
<1>2. CASE K[f] = <<>>
  BY <1>1, <1>2, TrailNone
<1>3. CASE K[f] # <<>>
  <2>1. r.ino[f].start # TAIL
    BY <1>3, ShapeUsed DEF Used
  <2>2. CASE r.ino[f].st = "free"
    <3>1. SegIndex(r, f) \in 1..Len(r.segs) /\ r.segs[SegIndex(r, f)] = f
      BY <2>1, <2>2, SegPlace
    <3>2. QED BY <1>1, <3>1
  <2>3. CASE r.ino[f].st = "alloc"
    BY <1>1, <2>3
  <2>4. r.ino[f].st \in {"none", "alloc", "free"}
    BY RamFields DEF Inodes
  <2>5. QED BY <1>1, <1>3, <2>2, <2>3, <2>4
<1>4. QED BY <1>2, <1>3

LEMMA ShapeChain ==
  ASSUME cache \in Volume, NEW v, v.fat = cache.fat, NEW r \in Rams, r.ino = ram.ino,
         NEW K, Shape(v, r, K), NEW f \in File
  PROVE  ChainOf(f) = K[f]
<1>1. PICK e : Trail(cache.fat, K[f], e)
  BY ShapeTrail
<1>2. /\ K[f] \in Seq(Cluster) /\ Once(K[f]) /\ ram.ino[f].start = HeadOr(K[f], TAIL)
      /\ K[f] # <<>> => ram.ino[f].last = K[f][Len(K[f])]
  BY ShapeTrail
<1>3. QED BY <1>1, <1>2, ChainOfTrail

\* A mark at which some inodes go out of use.
LEMMA MarkSheds ==
  ASSUME NEW c, Sane(c), c.clean, c.log # <<>>, Sound(c.vol),
         \A s \in Slot : c.vol.live[s] => s \in c.fixed,
         NEW q \in Rams,
         \A f \in File, s \in Slot : Owns(q.ino, f, s) =>
           Owns(c.ram.ino, f, s) /\ q.ino[f].start = c.ram.ino[f].start,
         NEW e, e = Point(c.vol, <<>>, q, c.vol, {}, c.fixed, FALSE)
  PROVE  Sane(e) /\ Goes(c, <<Mark(q)>>, e)
<1>1. /\ e.vol = c.vol /\ e.log = <<>> /\ e.ram = q /\ e.base = c.vol /\ e.mask = {}
      /\ e.fixed = c.fixed /\ e.clean = FALSE
  BY DEF Point
<1>2. /\ c.vol \in Volume /\ <<>> \in Seq(RecSet) /\ c.fixed \subseteq Slot
      /\ \A f \in File, u \in c.fixed : Owns(c.ram.ino, f, u) => c.vol.start[u] = c.ram.ino[f].start
  BY DEF Sane
<1>3. Agree(c.vol, c.vol, {}) /\ Restores(<<>>, c.vol, {})
  BY <1>2, RestoresNone DEF Agree
<1>4. \A f \in File, u \in e.fixed : Owns(e.ram.ino, f, u) => e.vol.start[u] = e.ram.ino[f].start
  <2>1. ASSUME NEW f \in File, NEW u \in e.fixed, Owns(e.ram.ino, f, u)
        PROVE  e.vol.start[u] = e.ram.ino[f].start
    <3>1. u \in c.fixed /\ u \in Slot /\ Owns(q.ino, f, u)
      BY <1>1, <1>2, <2>1
    <3>2. Owns(c.ram.ino, f, u) /\ q.ino[f].start = c.ram.ino[f].start
      BY <3>1
    <3>3. c.vol.start[u] = c.ram.ino[f].start
      BY <1>2, <3>1, <3>2
    <3>4. e.vol.start[u] = c.vol.start[u] /\ e.ram.ino[f].start = q.ino[f].start
      BY <1>1
    <3>5. QED BY <3>2, <3>3, <3>4
  <2>2. QED BY <2>1
<1>5. \A s \in Slot : e.base.live[s] => s \in e.fixed
  BY <1>1
<1>6. e.clean \in BOOLEAN /\ ~e.clean
  BY <1>1
<1>7. Sane(e)
  BY <1>1, <1>2, <1>3, <1>4, <1>5, <1>6 DEF Sane
<1>8. MarkTo(c, Mark(q), e)
  BY <1>1 DEF MarkTo, Mark
<1>9. Reach(c, <<Mark(q)>>, e)
  BY <1>7, <1>8, ReachOne DEF StepTo
<1>10. Mark(q) \in StepSet
  BY StepTypes DEF StepSet
<1>11. QED BY <1>7, <1>9, <1>10, OneType DEF Goes
\* The inode f goes out of use, and out of the candidate list.
GoneInode(r, f) ==
  [ino |-> [r.ino EXCEPT ![f] = NoInode],
   segs |-> IF r.ino[f].start = TAIL THEN r.segs ELSE RemoveAt(r.segs, SegIndex(r, f)),
   writer |-> r.writer, pre |-> r.pre]
GoneBy(r, f, q) ==
  /\ q \in Rams /\ \A g \in File : g # f => q.ino[g] = r.ino[g]
  /\ q.ino[f] = NoInode /\ q.writer = r.writer /\ q.pre = r.pre
  /\ q.segs = IF r.ino[f].start = TAIL THEN r.segs ELSE RemoveAt(r.segs, SegIndex(r, f))

LEMMA GoneFacts ==
  ASSUME NEW r \in Rams, NEW f \in File, r.ino[f].st = "free", NEW q, q = GoneInode(r, f)
  PROVE  GoneBy(r, f, q)
<1>1. q \in Rams
  BY GoneType DEF GoneInode
<1>2. r.ino \in [File -> Inodes]
  BY RamFields
<1>3. q.ino = [r.ino EXCEPT ![f] = NoInode] /\ q.writer = r.writer /\ q.pre = r.pre
      /\ q.segs = IF r.ino[f].start = TAIL THEN r.segs ELSE RemoveAt(r.segs, SegIndex(r, f))
  BY DEF GoneInode
<1>4. QED BY <1>1, <1>2, <1>3 DEF GoneBy

LEMMA GoneOwns ==
  ASSUME NEW r \in Rams, NEW f \in File, r.ino[f].st = "free", NEW q, GoneBy(r, f, q)
  PROVE  /\ \A g \in File, s \in Slot : Owns(q.ino, g, s) <=> Owns(r.ino, g, s)
         /\ \A g \in File, s \in Slot : Owns(q.ino, g, s) => q.ino[g].start = r.ino[g].start
<1>1. q.ino[f].st = "none" /\ \A g \in File : g # f => q.ino[g] = r.ino[g]
  BY DEF GoneBy, NoInode
<1>2. ASSUME NEW g \in File, NEW s \in Slot
      PROVE  /\ Owns(q.ino, g, s) <=> Owns(r.ino, g, s)
             /\ Owns(q.ino, g, s) => q.ino[g].start = r.ino[g].start
  BY <1>1 DEF Owns
<1>3. QED BY <1>2

\* A list without its k-th element.
LEMMA RemoveIs ==
  ASSUME NEW S, NEW p \in Seq(S), NEW k \in 1..Len(p), NEW q, q = RemoveAt(p, k)
  PROVE  /\ q \in Seq(S) /\ Len(q) = Len(p) - 1
         /\ \A j \in 1..Len(q) : q[j] = IF j < k THEN p[j] ELSE p[j + 1]
<1>1. q = SubSeq(p, 1, k - 1) \o SubSeq(p, k + 1, Len(p))
  BY DEF RemoveAt
<1> DEFINE a == SubSeq(p, 1, k - 1)
           b == SubSeq(p, k + 1, Len(p))
<1>2. Len(p) \in Nat /\ k \in Nat /\ k >= 1 /\ k <= Len(p)
  OBVIOUS
<1>3. a \in Seq(S) /\ Len(a) = k - 1 /\ \A i \in 1..(k - 1) : a[i] = p[i]
  BY <1>2, SubSeqProperties
<1>4. b \in Seq(S) /\ Len(b) = Len(p) - k /\ \A i \in 1..(Len(p) - k) : b[i] = p[k + i]
  BY <1>2, SubSeqProperties
<1>0. q = a \o b
  BY <1>1
<1> HIDE DEF a, b
<1>5. q \in Seq(S) /\ Len(q) = Len(p) - 1
  <2>1. q \in Seq(S) /\ Len(q) = Len(a) + Len(b)
    BY <1>0, <1>3, <1>4, ConcatProperties
  <2>2. (k - 1) + (Len(p) - k) = Len(p) - 1
    BY <1>2
  <2>3. QED BY <1>3, <1>4, <2>1, <2>2
<1>6. ASSUME NEW j \in 1..Len(q)
      PROVE  q[j] = IF j < k THEN p[j] ELSE p[j + 1]
  <2>1. q = a \o b
    BY <1>0
  <2>2. CASE j < k
    <3>1. q[j] = a[j] /\ j \in 1..(k - 1)
      BY <1>2, <1>3, <1>4, <1>5, <2>1, <2>2
    <3>2. QED BY <1>3, <2>2, <3>1
  <2>3. CASE ~(j < k)
    <3>1. q[j] = b[j - (k - 1)] /\ j - (k - 1) \in 1..(Len(p) - k) /\ k + (j - (k - 1)) = j + 1
      BY <1>2, <1>3, <1>4, <1>5, <2>1, <2>3
    <3>2. QED BY <1>4, <2>3, <3>1
  <2>4. QED BY <2>2, <2>3
<1>7. QED BY <1>5, <1>6
\* The candidate list without f.
GoneSegs(r, k, q) ==
  /\ Len(q.segs) = Len(r.segs) - 1
  /\ \A j \in 1..Len(q.segs) : \E i \in 1..Len(r.segs) :
       /\ q.segs[j] = r.segs[i] /\ i # k
       /\ SegNext(q, j) = IF i = k - 1 THEN SegNext(r, k) ELSE SegNext(r, i)
  /\ SegNext(q, 0) = IF k = 1 THEN SegNext(r, 1) ELSE SegNext(r, 0)

LEMMA GoneSegsAre ==
  ASSUME NEW r \in Rams, NEW f \in File, r.ino[f].st = "free", r.ino[f].start # TAIL,
         NEW q, GoneBy(r, f, q), NEW k, k = SegIndex(r, f)
  PROVE  GoneSegs(r, k, q)
<1> DEFINE n == Len(r.segs)
<1>1. k \in 1..n /\ r.segs[k] = f
  BY SegPlace
<1>2. r.segs \in Seq(File) /\ n \in Nat /\ \A i, j \in 1..n : r.segs[i] = r.segs[j] => i = j
  BY SegFacts
<1>3. q.segs = RemoveAt(r.segs, k) /\ \A g \in File : g # f => q.ino[g] = r.ino[g]
  BY DEF GoneBy
<1>4. /\ q.segs \in Seq(File) /\ Len(q.segs) = n - 1
      /\ \A j \in 1..Len(q.segs) : q.segs[j] = IF j < k THEN r.segs[j] ELSE r.segs[j + 1]
  <2> HIDE DEF n
  <2>1. r.segs \in Seq(File) /\ k \in 1..Len(r.segs) /\ q.segs = RemoveAt(r.segs, k)
    BY <1>1, <1>2, <1>3 DEF n
  <2> DEFINE s == q.segs
  <2>2. /\ s \in Seq(File) /\ Len(s) = Len(r.segs) - 1
        /\ \A j \in 1..Len(s) : s[j] = IF j < k THEN r.segs[j] ELSE r.segs[j + 1]
    <3> HIDE DEF s
    <3>1. s = RemoveAt(r.segs, k)
      BY <2>1 DEF s
    <3>2. QED BY <2>1, <3>1, RemoveIs
  <2>3. QED BY <2>2 DEF n
<1> HIDE DEF n
<1>5. k \in Nat /\ k >= 1 /\ k <= n
  BY <1>1, <1>2
<1>6. ASSUME NEW j \in 0..(n - 1)
      PROVE  SegNext(q, j) = IF j < k - 1 THEN SegNext(r, j) ELSE SegNext(r, j + 1)
  <2>1. j \in Nat /\ j <= n - 1
    BY <1>2
  <2> DEFINE a == j + 1
             b == a + 1
  <2>2. a \in Nat /\ b \in Nat /\ a = j + 1 /\ b = j + 2 /\ a >= 1
    BY <2>1
  <2>3. CASE j = n - 1
    <3>1. ~(j < n - 1) /\ ~(j < k - 1) /\ ~(a < n)
      BY <1>2, <1>5, <2>1, <2>2, <2>3
    <3>2. SegNext(q, j) = TAIL
      BY <1>4, <3>1 DEF SegNext
    <3>3. SegNext(r, a) = TAIL
      BY <3>1 DEF SegNext, n
    <3>4. QED BY <3>1, <3>2, <3>3
  <2>4. CASE j # n - 1
    <3>1. j < n - 1 /\ a \in 1..(n - 1)
      BY <1>2, <2>1, <2>2, <2>4
    <3>2. SegNext(q, j) = q.ino[q.segs[a]].start
      BY <1>4, <3>1 DEF SegNext, SegStart
    <3>3. CASE j < k - 1
      <4>1. a < k /\ j < n /\ a \in 1..n
        BY <1>2, <1>5, <2>1, <2>2, <3>1, <3>3
      <4>2. q.segs[a] = r.segs[a]
        BY <1>4, <3>1, <4>1
      <4>3. r.segs[a] # f /\ r.segs[a] \in File
        BY <1>1, <1>2, <1>5, <4>1 DEF n
      <4>4. SegNext(r, j) = r.ino[r.segs[a]].start
        BY <4>1 DEF SegNext, SegStart, n
      <4>5. QED BY <1>3, <3>2, <3>3, <4>2, <4>3, <4>4
    <3>4. CASE ~(j < k - 1)
      <4>1. ~(a < k) /\ a < n /\ b \in 1..n /\ b # k
        BY <1>2, <1>5, <2>1, <2>2, <3>1, <3>4
      <4>2. q.segs[a] = r.segs[b]
        BY <1>4, <3>1, <4>1
      <4>3. r.segs[b] # f /\ r.segs[b] \in File
        BY <1>1, <1>2, <1>5, <4>1 DEF n
      <4>4. SegNext(r, a) = r.ino[r.segs[b]].start
        BY <4>1 DEF SegNext, SegStart, n
      <4>5. QED BY <1>3, <3>2, <3>4, <4>2, <4>3, <4>4
    <3>5. QED BY <3>3, <3>4
  <2>5. QED BY <2>3, <2>4
<1>7. ASSUME NEW j \in 1..Len(q.segs)
      PROVE  \E i \in 1..Len(r.segs) :
               /\ q.segs[j] = r.segs[i] /\ i # k
               /\ SegNext(q, j) = IF i = k - 1 THEN SegNext(r, k) ELSE SegNext(r, i)
  <2>1. j \in Nat /\ j >= 1 /\ j <= n - 1 /\ j \in 0..(n - 1)
    BY <1>2, <1>4
  <2>2. SegNext(q, j) = IF j < k - 1 THEN SegNext(r, j) ELSE SegNext(r, j + 1)
    BY <1>6, <2>1
  <2> DEFINE a == j + 1
  <2>3. a \in Nat /\ a = j + 1
    BY <2>1
  <2>4. q.segs[j] = IF j < k THEN r.segs[j] ELSE r.segs[a]
    BY <1>4
  <2> HIDE DEF a
  <2>5. CASE j < k
    <3>1. j \in 1..n /\ j # k /\ (~(j < k - 1) => j = k - 1) /\ (j < k - 1 => j # k - 1)
      BY <1>2, <1>5, <2>1, <2>5
    <3>2. j = k - 1 => SegNext(q, j) = SegNext(r, k)
      <4>1. j = k - 1 => ~(j < k - 1) /\ j + 1 = k
        BY <1>5, <2>1
      <4>2. QED BY <2>2, <4>1
    <3>3. j # k - 1 => SegNext(q, j) = SegNext(r, j)
      BY <2>2, <3>1
    <3>4. QED BY <2>4, <2>5, <3>1, <3>2, <3>3 DEF n
  <2>6. CASE ~(j < k)
    <3>1. a \in 1..n /\ a # k /\ a # k - 1 /\ ~(j < k - 1)
      BY <1>2, <1>5, <2>1, <2>3, <2>6
    <3>2. SegNext(q, j) = SegNext(r, a)
      BY <2>2, <2>3, <3>1
    <3>3. QED BY <2>4, <2>6, <3>1, <3>2 DEF n
  <2>7. QED BY <2>5, <2>6
<1>8. SegNext(q, 0) = IF k = 1 THEN SegNext(r, 1) ELSE SegNext(r, 0)
  <2>1. 0 \in 0..(n - 1) /\ (k = 1 => ~(0 < k - 1)) /\ (k # 1 => 0 < k - 1)
    BY <1>2, <1>5
  <2>2. SegNext(q, 0) = IF 0 < k - 1 THEN SegNext(r, 0) ELSE SegNext(r, 0 + 1)
    BY <1>6, <2>1
  <2>3. 0 + 1 = 1
    OBVIOUS
  <2>4. QED BY <2>1, <2>2, <2>3
<1>9. Len(q.segs) = Len(r.segs) - 1
  BY <1>4 DEF n
<1>10. QED BY <1>7, <1>8, <1>9 DEF GoneSegs
\* The volume without the chain of f.
GoneWas(v, r, K, f, w) ==
  /\ w.live = v.live
  /\ \A x \in FatIndex : w.fat[x] = IF x \in ToSet(K[f]) THEN FREE
                                    ELSE IF x = SegLast(r, SegIndex(r, f) - 1)
                                    THEN SegNext(r, SegIndex(r, f)) ELSE v.fat[x]

\* The cluster in front of the k-th segment.
BeforeSeg(r, K, k) ==
  LET z == SegLast(r, k - 1)
  IN IF k = 1 THEN z = Log
     ELSE /\ k - 1 \in 1..Len(r.segs) /\ K[r.segs[k - 1]] # <<>>
          /\ z = K[r.segs[k - 1]][Len(K[r.segs[k - 1]])] /\ z \in ToSet(K[r.segs[k - 1]])

LEMMA BeforeSegIs ==
  ASSUME NEW v, NEW r \in Rams, NEW K, Shape(v, r, K), NEW k \in 1..Len(r.segs)
  PROVE  BeforeSeg(r, K, k)
<1>1. k \in Nat /\ k >= 1 /\ k <= Len(r.segs) /\ Len(r.segs) \in Nat
  BY SegFacts
<1>2. CASE k = 1
  <2>1. k - 1 = 0
    BY <1>2
  <2>2. SegLast(r, k - 1) = Log
    BY <2>1 DEF SegLast
  <2>3. QED BY <1>2, <2>2 DEF BeforeSeg
<1>3. CASE k # 1
  <2> DEFINE j == k - 1
  <2>1. j \in 1..Len(r.segs)
    BY <1>1, <1>3
  <2> HIDE DEF j
  <2>2. SegHeadBy(v, r, K, j)
    BY <2>1, SegHeads
  <2>3. K[r.segs[j]] # <<>> /\ SegLast(r, j) = K[r.segs[j]][Len(K[r.segs[j]])]
        /\ SegLast(r, j) \in ToSet(K[r.segs[j]])
    BY <2>2 DEF SegHeadBy
  <2>4. QED BY <1>3, <2>1, <2>3 DEF BeforeSeg, j
<1>4. QED BY <1>2, <1>3

LEMMA GoneTrails ==
  ASSUME NEW v, NEW r \in Rams, NEW K, Shape(v, r, K), NEW f \in File,
         r.ino[f].st = "free", r.ino[f].start # TAIL, NEW q, GoneBy(r, f, q),
         NEW w, GoneWas(v, r, K, f, w)
  PROVE  /\ w.fat[Log] = SegNext(q, 0)
         /\ \A j \in 1..Len(q.segs) : Trail(w.fat, K[q.segs[j]], SegNext(q, j)) /\ q.segs[j] # f
         /\ \A g \in File : g # f /\ r.ino[g].st = "alloc" => SameOn(v.fat, w.fat, ToSet(K[g]))
         /\ \A c \in Cluster : w.fat[c] # FREE => v.fat[c] # FREE /\ c \notin ToSet(K[f])
<1> DEFINE k == SegIndex(r, f)
           z == SegLast(r, k - 1)
<1>1. k \in 1..Len(r.segs) /\ r.segs[k] = f /\ r.segs \in Seq(File)
  BY SegPlace, SegFacts
<1>2. GoneSegs(r, k, q)
  BY GoneSegsAre
<1>3. BeforeSeg(r, K, k)
  BY <1>1, BeforeSegIs
<1>4. \A x \in FatIndex : w.fat[x] = IF x \in ToSet(K[f]) THEN FREE
                                     ELSE IF x = z THEN SegNext(r, k) ELSE v.fat[x]
  BY DEF GoneWas
<1>5. /\ \A g \in File : K[g] \in Seq(Cluster) /\ Once(K[g])
      /\ \A j \in 1..Len(r.segs) : Trail(v.fat, K[r.segs[j]], SegNext(r, j))
      /\ \A g, h \in File : g # h => ToSet(K[g]) \cap ToSet(K[h]) = {}
      /\ v.fat[Log] = SegNext(r, 0)
  BY DEF Shape
<1>6. \A g \in File : ToSet(K[g]) \subseteq Cluster
  BY <1>5, SetIs
<1>7. \A i, j \in 1..Len(r.segs) : r.segs[i] = r.segs[j] => i = j
  BY SegFacts
<1>8. k = 1 => z = Log
  BY <1>3 DEF BeforeSeg
<1>9. k # 1 => /\ k - 1 \in 1..Len(r.segs) /\ K[r.segs[k - 1]] # <<>>
               /\ z = K[r.segs[k - 1]][Len(K[r.segs[k - 1]])] /\ z \in ToSet(K[r.segs[k - 1]])
  BY <1>3 DEF BeforeSeg
<1>10. k \in Nat /\ k >= 1
  BY <1>1, SegFacts
<1> HIDE DEF k, z
<1>11. \A g \in File : g # f /\ (k # 1 => g # r.segs[k - 1]) => SameOn(v.fat, w.fat, ToSet(K[g]))
  <2>1. ASSUME NEW g \in File, g # f, k # 1 => g # r.segs[k - 1], NEW x \in ToSet(K[g])
        PROVE  w.fat[x] = v.fat[x]
    <3>1. x \in Cluster /\ x \in FatIndex /\ x # Log
      BY <1>6, <2>1, ConstantFacts, RfsAssumption
    <3>2. x \notin ToSet(K[f])
      BY <1>5, <2>1
    <3>3. x # z
      <4>1. CASE k = 1
        BY <1>8, <3>1, <4>1
      <4>2. CASE k # 1
        <5>1. z \in ToSet(K[r.segs[k - 1]]) /\ r.segs[k - 1] \in File /\ g # r.segs[k - 1]
          BY <1>1, <1>9, <2>1, <4>2
        <5>2. QED BY <1>5, <2>1, <5>1
      <4>3. QED BY <4>1, <4>2
    <3>4. QED BY <1>4, <3>1, <3>2, <3>3
  <2>2. QED BY <2>1 DEF SameOn
<1>12. w.fat[Log] = SegNext(q, 0)
  <2>1. Log \in FatIndex /\ Log \notin Cluster /\ Log \notin ToSet(K[f])
    BY <1>6, ConstantFacts, RfsAssumption
  <2>2. SegNext(q, 0) = IF k = 1 THEN SegNext(r, 1) ELSE SegNext(r, 0)
    BY <1>2 DEF GoneSegs
  <2>3. CASE k = 1
    BY <1>4, <1>8, <2>1, <2>2, <2>3
  <2>4. CASE k # 1
    <3>1. z \in Cluster
      BY <1>1, <1>6, <1>9, <2>4
    <3>2. QED BY <1>4, <1>5, <2>1, <2>2, <2>4, <3>1
  <2>5. QED BY <2>3, <2>4
<1>13. ASSUME NEW j \in 1..Len(q.segs)
       PROVE  Trail(w.fat, K[q.segs[j]], SegNext(q, j)) /\ q.segs[j] # f
  <2>1. PICK i \in 1..Len(r.segs) :
          /\ q.segs[j] = r.segs[i] /\ i # k
          /\ SegNext(q, j) = IF i = k - 1 THEN SegNext(r, k) ELSE SegNext(r, i)
    BY <1>2 DEF GoneSegs
  <2> DEFINE g == r.segs[i]
  <2>2. g \in File /\ g # f
    BY <1>1, <1>7, <2>1
  <2>3. K[g] \in Seq(Cluster) /\ Once(K[g]) /\ Trail(v.fat, K[g], SegNext(r, i))
    BY <1>5, <2>2
  <2>4. CASE i = k - 1
    <3>1. k # 1
      BY <1>10, <2>1, <2>4
    <3>2. g = r.segs[k - 1] /\ SegNext(q, j) = SegNext(r, k)
      BY <2>1, <2>4
    <3>3. K[g] # <<>> /\ z = K[g][Len(K[g])] /\ z \in ToSet(K[g])
      BY <1>9, <3>1, <3>2
    <3>4. z \in FatIndex /\ z \notin ToSet(K[f])
      BY <1>5, <1>6, <2>2, <3>3, ConstantFacts
    <3>5. w.fat[K[g][Len(K[g])]] = SegNext(q, j)
      BY <1>4, <3>2, <3>3, <3>4
    <3>6. SameOn(v.fat, w.fat, ToSet(K[g]) \ {K[g][Len(K[g])]})
      <4>1. ASSUME NEW x \in ToSet(K[g]), x # z
            PROVE  w.fat[x] = v.fat[x]
        <5>1. x \in FatIndex
          BY <1>6, <2>2, ConstantFacts
        <5>2. x \notin ToSet(K[f])
          BY <1>5, <2>2
        <5>3. QED BY <1>4, <4>1, <5>1, <5>2
      <4>2. QED BY <3>3, <4>1 DEF SameOn
    <3> DEFINE p == K[g]
               e1 == SegNext(r, i)
               e2 == SegNext(q, j)
    <3>7. p \in Seq(Cluster) /\ Once(p) /\ Trail(v.fat, p, e1) /\ p # <<>> /\ w.fat[p[Len(p)]] = e2
          /\ SameOn(v.fat, w.fat, ToSet(p) \ {p[Len(p)]})
      BY <2>3, <3>3, <3>5, <3>6
    <3> HIDE DEF p, e1, e2
    <3>8. Trail(w.fat, p, e2)
      BY <3>7, TrailTurns
    <3>9. QED BY <2>1, <2>2, <3>8 DEF p, e2
  <2>5. CASE i # k - 1
    <3>1. k # 1 => g # r.segs[k - 1]
      BY <1>7, <1>9, <2>1, <2>5
    <3>2. SameOn(v.fat, w.fat, ToSet(K[g]))
      BY <1>11, <2>2, <3>1
    <3>3. Trail(w.fat, K[g], SegNext(r, i))
      BY <2>3, <3>2, TrailSame
    <3>4. QED BY <2>1, <2>2, <2>5, <3>3
  <2>6. QED BY <2>4, <2>5
<1>14. \A g \in File : g # f /\ r.ino[g].st = "alloc" => SameOn(v.fat, w.fat, ToSet(K[g]))
  <2>1. ASSUME NEW g \in File, g # f, r.ino[g].st = "alloc"
        PROVE  SameOn(v.fat, w.fat, ToSet(K[g]))
    <3>1. k # 1 => g # r.segs[k - 1]
      BY <1>9, <2>1, SegFacts
    <3>2. QED BY <1>11, <2>1, <3>1
  <2>2. QED BY <2>1
<1>15. ASSUME NEW c \in Cluster, w.fat[c] # FREE
       PROVE  v.fat[c] # FREE /\ c \notin ToSet(K[f])
  <2>1. c \in FatIndex /\ c \notin ToSet(K[f])
    BY <1>4, <1>15, ConstantFacts
  <2>2. CASE c = z
    <3>1. c # Log /\ k # 1
      BY <1>8, <2>2, RfsAssumption
    <3>2. r.segs[k - 1] \in File /\ c \in ToSet(K[r.segs[k - 1]])
      BY <1>1, <1>9, <2>2, <3>1
    <3>3. Used(v, r, K, r.segs[k - 1])
      BY <3>2, ShapeUsed
    <3>4. QED BY <2>1, <3>2, <3>3 DEF Used
  <2>3. CASE c # z
    BY <1>4, <1>15, <2>1, <2>3
  <2>4. QED BY <2>1, <2>2, <2>3
<1>16. QED BY <1>12, <1>13, <1>14, <1>15
LEMMA GoneShape ==
  ASSUME NEW v, NEW r \in Rams, NEW K, Shape(v, r, K), NEW f \in File,
         r.ino[f].st = "free", r.ino[f].start # TAIL, NEW q, GoneBy(r, f, q),
         NEW w, GoneWas(v, r, K, f, w)
  PROVE  Shape(w, q, Put(K, f, <<>>))
<1> DEFINE L == Put(K, f, <<>>)
<1>1. /\ w.fat[Log] = SegNext(q, 0)
      /\ \A j \in 1..Len(q.segs) : Trail(w.fat, K[q.segs[j]], SegNext(q, j)) /\ q.segs[j] # f
      /\ \A g \in File : g # f /\ r.ino[g].st = "alloc" => SameOn(v.fat, w.fat, ToSet(K[g]))
      /\ \A c \in Cluster : w.fat[c] # FREE => v.fat[c] # FREE /\ c \notin ToSet(K[f])
  BY GoneTrails
<1>2. /\ K \in [File -> Seq(Cluster)] /\ Distinct(r.ino)
      /\ \A s \in Slot : v.live[s] <=> \E g \in File : Owns(r.ino, g, s)
  BY DEF Shape
<1>3. /\ q \in Rams /\ \A g \in File : g # f => q.ino[g] = r.ino[g]
      /\ q.ino[f] = NoInode /\ q.segs \in Seq(File)
  BY RamFields DEF GoneBy
<1>4. \A g \in File, s \in Slot : Owns(q.ino, g, s) <=> Owns(r.ino, g, s)
  BY GoneOwns
<1>5. <<>> \in Seq(Cluster)
  OBVIOUS
<1>6. L \in [File -> Seq(Cluster)] /\ L[f] = <<>> /\ \A g \in File : g # f => L[g] = K[g]
  BY <1>2, <1>5 DEF Put
<1> HIDE DEF L
<1>7. Distinct(q.ino)
  BY <1>2, <1>4 DEF Distinct
<1>8. \A s \in Slot : w.live[s] <=> \E g \in File : Owns(q.ino, g, s)
  BY <1>2, <1>4 DEF GoneWas
<1>9. q.ino[f].start = TAIL /\ q.ino[f].st = "none"
  BY <1>3 DEF NoInode
<1>10. Once(L[f]) /\ HeadOr(L[f], TAIL) = TAIL /\ ToSet(L[f]) = {}
  BY <1>6, TrailNone
<1>11. \A j \in 1..Len(q.segs) : Trail(w.fat, L[q.segs[j]], SegNext(q, j))
  <2>1. ASSUME NEW j \in 1..Len(q.segs)
        PROVE  Trail(w.fat, L[q.segs[j]], SegNext(q, j))
    <3>1. q.segs[j] \in File /\ q.segs[j] # f
      BY <1>1, <1>3
    <3>2. QED BY <1>1, <1>6, <3>1
  <2>2. QED BY <2>1
<1>12. \A g \in File : g # f => ToSet(L[f]) \cap ToSet(K[g]) = {}
  BY <1>10
<1>13. Changes(v, r, K, f, w, q, L)
  BY <1>1, <1>3, <1>6, <1>7, <1>8, <1>9, <1>10, <1>11, <1>12 DEF Changes
<1>14. Shape(w, q, L)
  BY <1>3, <1>13, ShapeChange
<1>15. QED BY <1>14 DEF L

\* The end of the chain in front of the released one.
UnlinkStep(d) == <<Fat(d.prev, d.succ)>>
LEMMA UnlinkFat ==
  ASSUME NEW c, Sane(c), NEW d \in Places, SourceSpots(d) \subseteq c.mask
  PROVE  \E e : /\ Sane(e) /\ Goes(c, UnlinkStep(d), e)
                /\ e.log = c.log /\ e.ram = c.ram /\ e.base = c.base /\ e.mask = c.mask
                /\ e.fixed = c.fixed /\ e.vol.fat = Put(c.vol.fat, d.prev, d.succ)
                /\ e.vol.live = c.vol.live /\ e.vol.start = c.vol.start
<1> DEFINE s == Fat(d.prev, d.succ)
           e == Edited(c, <<s>>)
<1>1. d.prev \in FatIndex /\ d.succ \in FatVal
  BY DEF Places, FatVal
<1>2. s \in Edits
  BY <1>1, EditIntro
<1>3. <<"fat", d.prev>> \in c.mask
  BY <1>1, SourceIs
<1>4. Lets(c, s) <=> <<"fat", d.prev>> \in c.mask \/ d.succ = c.base.fat[d.prev]
  BY <1>1, LetsBy
<1>5. Suits(c, s)
  BY SuitsBy
<1>6. s.op # "start"
  BY DEF Fat
<1>7. c.vol \in Volume
  BY DEF Sane
<1>8. /\ Apply(c.vol, s).fat = [c.vol.fat EXCEPT ![d.prev] = d.succ]
      /\ Apply(c.vol, s).live = c.vol.live /\ Apply(c.vol, s).start = c.vol.start
  BY <1>1, <1>7, ApplyFat
<1> HIDE DEF s
<1>9. Puts(c, <<s>>) /\ AllSuit(c, <<s>>)
  BY <1>3, <1>4, <1>5, PutsParts
<1>10. <<s>> \in Seq(Edits) /\ <<s>> # <<>>
  BY <1>2, OneType
<1>11. Sane(e) /\ Goes(c, <<s>>, e)
  BY <1>9, <1>10, GoesEdits
<1>12. e.vol = Apply(c.vol, s) /\ e.fixed = c.fixed \cup {}
  BY <1>2, <1>6, EditedOne
<1>13. e.log = c.log /\ e.ram = c.ram /\ e.base = c.base /\ e.mask = c.mask
  BY EditedPoint
<1> HIDE DEF e
<1>14. QED BY <1>8, <1>11, <1>12, <1>13 DEF UnlinkStep, s, Put

\* The flush and the mark of a deletion.
LEMMA GoneEnds ==
  ASSUME NEW c, Sane(c), c.log # <<>>, OwnersFixed(c), NEW f \in File, c.ram.ino[f].st = "free",
         NEW q, GoneBy(c.ram, f, q), q.writer = None, q.pre = <<>>, NEW L, Shape(c.vol, q, L)
  PROVE  \E e : Fresh(e, L) /\ Goes(c, LogEnd(q, None), e)
<1>1. c.ram \in Rams /\ c.vol \in Volume /\ q \in Rams
  BY DEF Sane, GoneBy
<1>2. /\ \A g \in File, s \in Slot : Owns(q.ino, g, s) <=> Owns(c.ram.ino, g, s)
      /\ \A g \in File, s \in Slot : Owns(q.ino, g, s) => q.ino[g].start = c.ram.ino[g].start
  BY <1>1, GoneOwns
<1>3. \A g \in File, s \in Slot : Owns(c.ram.ino, g, s) => s \in c.fixed
  BY DEF OwnersFixed
<1> DEFINE a == Point(c.vol, c.log, c.ram, c.base, c.mask, c.fixed, TRUE)
           e == Point(c.vol, <<>>, q, c.vol, {}, c.fixed, FALSE)
<1>4. Sane(a) /\ Reach(c, <<Flush>>, a)
  BY <1>3, FlushReach
<1>5. a.vol = c.vol /\ a.log = c.log /\ a.ram = c.ram /\ a.fixed = c.fixed /\ a.clean
  BY DEF Point
<1>6. /\ e.vol = c.vol /\ e.log = <<>> /\ e.ram = q /\ e.base = c.vol /\ e.mask = {}
      /\ e.fixed = c.fixed
  BY DEF Point
<1> HIDE DEF a
<1>7. e = Point(a.vol, <<>>, q, a.vol, {}, a.fixed, FALSE)
  BY <1>5
<1> HIDE DEF e
<1>8. Sound(a.vol)
  <2>1. \A g \in File, s \in Slot : Owns(q.ino, g, s) => c.vol.start[s] = q.ino[g].start
    <3>1. \A g \in File, s \in c.fixed : Owns(c.ram.ino, g, s) => c.vol.start[s] = c.ram.ino[g].start
      BY DEF Sane
    <3>2. ASSUME NEW g \in File, NEW s \in Slot, Owns(q.ino, g, s)
          PROVE  c.vol.start[s] = q.ino[g].start
      <4>1. Owns(c.ram.ino, g, s) /\ q.ino[g].start = c.ram.ino[g].start
        BY <1>2, <3>2
      <4>2. s \in c.fixed
        BY <1>3, <4>1
      <4>3. c.vol.start[s] = c.ram.ino[g].start
        BY <3>1, <4>1, <4>2
      <4>4. QED BY <4>1, <4>3
    <3>3. QED BY <3>2
  <2>2. QED BY <1>1, <1>5, <2>1, ShapeSound
<1>9. \A s \in Slot : a.vol.live[s] => s \in a.fixed
  <2>1. \A s \in Slot : c.vol.live[s] <=> \E g \in File : Owns(q.ino, g, s)
    BY DEF Shape
  <2>2. QED BY <1>2, <1>3, <1>5, <2>1
<1>10. \A g \in File, s \in Slot : Owns(q.ino, g, s) =>
          Owns(a.ram.ino, g, s) /\ q.ino[g].start = a.ram.ino[g].start
  BY <1>2, <1>5
<1>11. Sane(e) /\ Goes(a, <<Mark(q)>>, e)
  BY <1>1, <1>4, <1>5, <1>7, <1>8, <1>9, <1>10, MarkSheds
<1>12. Goes(c, <<Flush>>, a)
  <2>1. Flush \in StepSet
    BY StepTypes DEF StepSet, DataSteps
  <2>2. QED BY <1>4, <2>1, OneType DEF Goes
<1>13. Goes(c, <<>>, c)
  BY GoesNone
<1>14. LogEnd(q, None) = (<<>> \o <<Flush>>) \o <<Mark(q)>>
  <2>1. Released(q) = q
    BY <1>1, ReleasedType, RamFields
  <2>2. MetaCommit(q, None) = <<>> \o <<Flush>>
    BY DEF MetaCommit, If
  <2>3. QED BY <2>1, <2>2 DEF LogEnd
<1>15. Goes(c, <<>> \o <<Flush>>, a)
  BY <1>12, <1>13, GoesConcat
<1>16. Goes(c, LogEnd(q, None), e)
  BY <1>11, <1>14, <1>15, GoesConcat
<1>17. Rest(e, L)
  <2>1. Shape(e.vol, e.ram, L)
    BY <1>6
  <2>2. \A g \in File, s \in Slot : Owns(e.ram.ino, g, s) => s \in e.fixed
    BY <1>2, <1>3, <1>6
  <2>3. e.ram.writer = None /\ e.ram.pre = <<>> /\ e.log = <<>> /\ e.mask = {}
    BY <1>6
  <2>4. QED BY <2>1, <2>2, <2>3 DEF Rest
<1>18. e.ram.writer = None
  BY <1>6
<1>19. QED BY <1>11, <1>16, <1>17, <1>18 DEF Fresh
\* Where the chain of the unlinked inode f hangs.
ParkPlace(r, f) ==
  [trunc |-> FALSE, slot |-> None, newlast |-> TAIL,
   prev |-> SegLast(r, SegIndex(r, f) - 1), succ |-> SegNext(r, SegIndex(r, f))]

LEMMA ParkPlaceIs ==
  ASSUME NEW r \in Rams, NEW f \in File, r.ino[f].st = "free", r.ino[f].start # TAIL,
         NEW d, d = ParkPlace(r, f)
  PROVE  ParkedAt(r, f, d)
<1> DEFINE k == SegIndex(r, f)
<1>1. k \in 1..Len(r.segs) /\ Len(r.segs) \in Nat
  BY SegPlace, SegFacts
<1>2. Listed(r)
  BY RamsListed
<1> HIDE DEF k
<1>3. k - 1 \in 0..Len(r.segs) /\ k \in 0..Len(r.segs)
  BY <1>1
<1>4. SegLast(r, k - 1) \in FatIndex /\ SegNext(r, k) \in Cluster \cup {TAIL}
  BY <1>2, <1>3, SegTypes
<1>5. d = [trunc |-> FALSE, slot |-> None, newlast |-> TAIL, prev |-> SegLast(r, k - 1), succ |-> SegNext(r, k)]
  BY DEF ParkPlace, k
<1>6. d \in Places /\ d.trunc = FALSE /\ d.prev = SegLast(r, k - 1) /\ d.succ = SegNext(r, k)
  BY <1>4, <1>5 DEF Places
<1>7. QED BY <1>6 DEF ParkedAt, k

LEMMA DelInodeIs ==
  ASSUME NEW r \in Rams, r = Released(ram), NEW f \in File, NEW q, q = GoneInode(r, f),
         NEW d, d = ParkPlace(r, f)
  PROVE  /\ r.ino[f].start = TAIL => DelInodeSteps(f) = CommitDeferred(ram) \o <<Ram(q)>>
         /\ r.ino[f].start # TAIL =>
              DelInodeSteps(f)
              = ((CommitDeferred(ram) \o FreeChain(d, ChainOf(f))) \o UnlinkStep(d)) \o LogEnd(q, None)
<1> DEFINE n == [r.ino EXCEPT ![f] = NoInode]
           k == SegIndex(r, f)
           y == RemoveAt(r.segs, k)
           g1 == [r EXCEPT !.ino[f] = NoInode]
           g2 == [r EXCEPT !.ino[f] = NoInode, !.segs = RemoveAt(@, k)]
<1>1. r \in RamShape /\ NoInode \in Inodes /\ r.ino \in [File -> Inodes]
  BY RamFields DEF Rams, NoInode, Inodes
<1>2. n \in [File -> Inodes]
  BY <1>1
<1>3. g1 = [ino |-> n, segs |-> r.segs, writer |-> r.writer, pre |-> r.pre]
  <2>1. g1 = [r EXCEPT !.ino = n]
    OBVIOUS
  <2> HIDE DEF n, g1
  <2>2. QED BY <1>1, <2>1, SetFields
<1>4. g2 = [ino |-> n, segs |-> y, writer |-> r.writer, pre |-> r.pre]
  <2>1. g2 = [[r EXCEPT !.ino = n] EXCEPT !.segs = y]
    BY <1>1
  <2> HIDE DEF n, y, g2
  <2>2. QED BY <1>1, <1>2, <2>1, SetInoSegs
<1>5. r.ino[f].start = TAIL => q = g1
  <2>1. r.ino[f].start = TAIL => q = [ino |-> n, segs |-> r.segs, writer |-> r.writer, pre |-> r.pre]
    BY DEF GoneInode
  <2> HIDE DEF n, g1
  <2>2. QED BY <1>3, <2>1
<1>6. r.ino[f].start # TAIL => q = g2
  <2>1. r.ino[f].start # TAIL => q = [ino |-> n, segs |-> y, writer |-> r.writer, pre |-> r.pre]
    BY DEF GoneInode
  <2> HIDE DEF n, y, g2
  <2>2. QED BY <1>4, <2>1
<1>7. d = [trunc |-> FALSE, slot |-> None, newlast |-> TAIL, prev |-> SegLast(r, k - 1), succ |-> SegNext(r, k)]
  BY DEF ParkPlace
<1>8. DelInodeSteps(f) =
        IF r.ino[f].start = TAIL THEN CommitDeferred(ram) \o <<Ram(g1)>>
        ELSE CommitDeferred(ram) \o FreeChain(d, ChainOf(f)) \o <<Fat(d.prev, d.succ)>> \o LogEnd(g2, None)
  BY <1>7 DEF DelInodeSteps
<1> HIDE DEF n, k, y, g1, g2
<1>9. QED BY <1>5, <1>6, <1>8 DEF UnlinkStep

\* The chain of an unlinked inode, deallocated.
LEMMA ParkGoes ==
  ASSUME NEW c, NEW K, Fresh(c, K), NEW f \in File, c.ram.ino[f].st = "free", c.ram.ino[f].start # TAIL,
         NEW d, d = ParkPlace(c.ram, f)
  PROVE  /\ \E e : DoneTo(c, c.base, d, K[f], Len(K[f]), e) /\ Goes(c, FreeChain(d, K[f]), e)
         /\ K[f] \in Seq(Cluster) /\ K[f] # <<>> /\ Aside(d, K[f]) /\ ParkedAt(c.ram, f, d)
<1> DEFINE b == c.base
           r == c.ram
<1>1. b \in Volume /\ r \in Rams
  BY FreshBase
<1>2. /\ Shape(b, r, K) /\ OwnersFixed(c)
      /\ \A g \in File, s \in Slot : Owns(r.ino, g, s) => b.start[s] = r.ino[g].start
  BY FreshShape DEF FreshAs
<1>3. AtGroup(c, b, d, K[f], 0)
  BY FreshGroup
<1>4. ParkedAt(r, f, d)
  BY <1>1, ParkPlaceIs
<1> HIDE DEF b, r
<1>5. PICK C : ChainSet(b, r, K, C)
  BY <1>1, <1>2, ChainSetIs
<1>6. C \in Chains /\ SoundBy(b, C)
  BY <1>5 DEF ChainSet
<1> DEFINE U == [s \in Slot |-> C[s]]
           cs == K[f]
<1>7. cs \in Seq(Cluster) /\ cs # <<>>
  <2>1. Used(b, r, K, f)
    BY <1>1, <1>2, ShapeUsed
  <2>2. QED BY <2>1 DEF Used, r
<1>8. r.ino[f].st = "free" /\ r.ino[f].start # TAIL
  BY DEF r
<1>9. /\ \E A, B : Strung(b, d, cs, A, B, U)
      /\ Aside(d, cs) /\ CutTo(d, C, U)
  BY <1>1, <1>2, <1>4, <1>5, <1>8, ParkedStrung
<1>10. d \in Places
  BY <1>4 DEF ParkedAt
<1> HIDE DEF U, cs
<1>11. Deallocates(b, d, cs)
  BY <1>1, <1>6, <1>7, <1>9, <1>10, DeallocatesBy
<1>12. AtGroup(c, b, d, cs, 0)
  BY <1>3 DEF cs
<1>13. \E e : DoneTo(c, b, d, cs, Len(cs), e) /\ Goes(c, FreeChain(d, cs), e)
  BY <1>2, <1>7, <1>11, <1>12, ChainGoes
<1>14. QED BY <1>4, <1>7, <1>9, <1>13 DEF b, r, cs
LEMMA TakenAll ==
  ASSUME NEW cs \in Seq(Cluster)
  PROVE  Taken(cs, Len(cs)) = ToSet(cs)
<1>1. Begin(cs, Len(cs)) = cs
  BY BeginAll
<1>2. QED BY <1>1 DEF Taken

\* The deletion of an inode that has clusters, up to its last flush.
LEMMA ParkUnlinks ==
  ASSUME NEW c, NEW K, Fresh(c, K), NEW f \in File, c.ram.ino[f].st = "free", c.ram.ino[f].start # TAIL,
         NEW d, d = ParkPlace(c.ram, f)
  PROVE  \E e1, e2 : /\ Goes(c, FreeChain(d, K[f]), e1) /\ Goes(e1, UnlinkStep(d), e2)
                     /\ Sane(e2) /\ e2.log # <<>> /\ e2.ram = c.ram /\ OwnersFixed(e2)
                     /\ GoneWas(c.vol, c.ram, K, f, e2.vol)
<1> DEFINE cs == K[f]
           r == c.ram
<1>1. /\ \E e : DoneTo(c, c.base, d, cs, Len(cs), e) /\ Goes(c, FreeChain(d, cs), e)
      /\ cs \in Seq(Cluster) /\ cs # <<>> /\ Aside(d, cs) /\ ParkedAt(r, f, d)
  BY ParkGoes
<1> HIDE DEF cs
<1>2. PICK e1 : DoneTo(c, c.base, d, cs, Len(cs), e1) /\ Goes(c, FreeChain(d, cs), e1)
  BY <1>1
<1>3. Len(cs) # 0 /\ Taken(cs, Len(cs)) = ToSet(cs)
  BY <1>1, TakenAll
<1>4. /\ Sane(e1) /\ e1.ram = r /\ e1.fixed = c.fixed
      /\ e1.vol.live = c.vol.live /\ e1.vol.fat = FreedFat(c.vol.fat, ToSet(cs))
      /\ SourceSpots(d) \subseteq e1.mask /\ e1.log # <<>>
  BY <1>2, <1>3 DEF DoneTo
<1>5. d \in Places
  BY <1>1 DEF ParkedAt
<1>6. PICK e2 : /\ Sane(e2) /\ Goes(e1, UnlinkStep(d), e2)
                /\ e2.log = e1.log /\ e2.ram = e1.ram /\ e2.fixed = e1.fixed
                /\ e2.vol.fat = Put(e1.vol.fat, d.prev, d.succ)
                /\ e2.vol.live = e1.vol.live
  BY <1>4, <1>5, UnlinkFat
<1>7. OwnersFixed(e2)
  <2>1. OwnersFixed(c)
    BY FreshShape DEF FreshAs
  <2>2. QED BY <1>4, <1>6, <2>1 DEF OwnersFixed
<1>8. GoneWas(c.vol, r, K, f, e2.vol)
  <2>1. d.prev = SegLast(r, SegIndex(r, f) - 1) /\ d.succ = SegNext(r, SegIndex(r, f))
    BY <1>1 DEF ParkedAt
  <2>2. d.prev \notin ToSet(cs)
    <3>1. ASSUME d.prev \in ToSet(cs) PROVE FALSE
      <4>1. <<"fat", d.prev>> \in SourceSpots(d)
        BY <1>5, SourceIs
      <4>2. <<"fat", d.prev>> \in Freed(ToSet(cs))
        BY <3>1 DEF Freed
      <4>3. QED BY <1>1, <4>1, <4>2 DEF Aside
    <3>2. QED BY <3>1
  <2> DEFINE z == d.prev
             x2 == d.succ
             Z == ToSet(cs)
             fat == c.vol.fat
             g == FreedFat(fat, Z)
  <2>3. g \in [FatIndex -> {IF x \in Z THEN FREE ELSE fat[x] : x \in FatIndex}]
    BY DEF FreedFat
  <2>4. \A x \in FatIndex : g[x] = IF x \in Z THEN FREE ELSE fat[x]
    BY DEF FreedFat
  <2>5. e2.vol.fat = [g EXCEPT ![z] = x2]
    BY <1>4, <1>6 DEF Put
  <2> HIDE DEF g, z, x2, Z, fat
  <2>6. \A x \in FatIndex : e2.vol.fat[x] = IF x = z THEN x2 ELSE g[x]
    BY <2>3, <2>5
  <2>7. z \notin Z
    BY <2>2 DEF z, Z
  <2>8. \A x \in FatIndex : e2.vol.fat[x] = IF x \in Z THEN FREE ELSE IF x = z THEN x2 ELSE fat[x]
    BY <2>4, <2>6, <2>7
  <2>9. e2.vol.live = c.vol.live
    BY <1>4, <1>6
  <2>10. Z = ToSet(K[f]) /\ z = SegLast(r, SegIndex(r, f) - 1) /\ x2 = SegNext(r, SegIndex(r, f))
         /\ fat = c.vol.fat
    BY <2>1 DEF Z, z, x2, fat, cs
  <2> HIDE DEF r
  <2>11. QED BY <2>8, <2>9, <2>10 DEF GoneWas
<1>9. QED BY <1>2, <1>4, <1>6, <1>7, <1>8 DEF cs

\* rfs_delete_inode
LEMMA DelInodeReaches ==
  ASSUME NEW c0, NEW K, Stands(c0, K), NEW f \in File, ram.ino[f].st = "free"
  PROVE  Done(c0, DelInodeSteps(f))
<1>1. PICK c : /\ Fresh(c, K) /\ Goes(c0, CommitDeferred(ram), c) /\ c.ram = Released(ram)
               /\ c.vol.fat = cache.fat /\ c.vol.live = cache.live
               /\ ram \in Rams /\ Released(ram) \in Rams
               /\ Released(ram).ino = ram.ino /\ Released(ram).segs = ram.segs
  BY StandsFresh
<1> DEFINE r == c.ram
           q == GoneInode(r, f)
           d == ParkPlace(r, f)
<1>2. /\ c.vol \in Volume /\ r \in Rams /\ Shape(c.vol, r, K) /\ Sane(c) /\ r.ino[f].st = "free"
      /\ r.writer = None /\ r.pre = <<>> /\ c.log = <<>> /\ c.mask = {}
  BY <1>1, FreshBase DEF Fresh
<1>3. GoneBy(r, f, q)
  BY <1>2, GoneFacts
<1>4. q \in Rams /\ q.writer = None /\ q.pre = <<>>
  BY <1>2, <1>3 DEF GoneBy
<1>5. /\ r.ino[f].start = TAIL => DelInodeSteps(f) = CommitDeferred(ram) \o <<Ram(q)>>
      /\ r.ino[f].start # TAIL =>
           DelInodeSteps(f)
           = ((CommitDeferred(ram) \o FreeChain(d, ChainOf(f))) \o UnlinkStep(d)) \o LogEnd(q, None)
  BY <1>1, <1>2, DelInodeIs
<1> HIDE DEF q, r
<1>6. CASE r.ino[f].start = TAIL
  <2>1. /\ \A g \in File, s \in Slot : Owns(q.ino, g, s) <=> Owns(r.ino, g, s)
        /\ \A g \in File, s \in Slot : Owns(q.ino, g, s) => q.ino[g].start = r.ino[g].start
    BY <1>2, <1>3, GoneOwns
  <2>2. c.fixed \in SUBSET c.fixed
    OBVIOUS
  <2>3. \A s \in Slot : c.base.live[s] /\ <<"start", s>> \notin c.mask => s \in c.fixed
    BY <1>2 DEF Sane
  <2>4. \A g \in File, s \in c.fixed : Owns(q.ino, g, s) => c.vol.start[s] = q.ino[g].start
    <3>1. /\ c.fixed \subseteq Slot
          /\ \A g \in File, s \in c.fixed : Owns(r.ino, g, s) => c.vol.start[s] = r.ino[g].start
      BY <1>2 DEF Sane, r
    <3>2. ASSUME NEW g \in File, NEW s \in c.fixed, Owns(q.ino, g, s)
          PROVE  c.vol.start[s] = q.ino[g].start
      <4>1. s \in Slot
        BY <3>1
      <4>2. Owns(r.ino, g, s) /\ q.ino[g].start = r.ino[g].start
        BY <2>1, <3>2, <4>1
      <4>3. c.vol.start[s] = r.ino[g].start
        BY <3>1, <4>2
      <4>4. QED BY <4>2, <4>3
    <3>3. QED BY <3>2
  <2> DEFINE e == Turned(c, q, c.fixed)
  <2>5. Sane(e) /\ Goes(c, <<Ram(q)>>, e)
    BY <1>2, <1>4, <2>2, <2>3, <2>4, GoesRam
  <2>6. e.vol = c.vol /\ e.log = c.log /\ e.ram = q /\ e.mask = c.mask /\ e.fixed = c.fixed
    BY DEF Turned, Point
  <2> HIDE DEF e
  <2>7. Shape(e.vol, q, K)
    <3> DEFINE L == K
    <3>1. /\ K \in [File -> Seq(Cluster)] /\ Distinct(r.ino)
          /\ \A s \in Slot : c.vol.live[s] <=> \E g \in File : Owns(r.ino, g, s)
          /\ c.vol.fat[Log] = SegNext(r, 0)
          /\ \A k \in 1..Len(r.segs) : Trail(c.vol.fat, K[r.segs[k]], SegNext(r, k))
          /\ \A g, h \in File : g # h => ToSet(K[g]) \cap ToSet(K[h]) = {}
      BY <1>2 DEF Shape
    <3>2. K[f] = <<>>
      <4>1. Used(c.vol, r, K, f)
        BY <1>2, ShapeUsed
      <4>2. QED BY <1>6, <4>1 DEF Used
    <3>3. q.segs = r.segs /\ q.ino[f] = NoInode /\ \A g \in File : g # f => q.ino[g] = r.ino[g]
      BY <1>3, <1>6 DEF GoneBy
    <3>4. q.ino[f].start = TAIL /\ q.ino[f].st = "none"
      BY <3>3 DEF NoInode
    <3>5. Distinct(q.ino) /\ \A s \in Slot : c.vol.live[s] <=> \E g \in File : Owns(q.ino, g, s)
      BY <2>1, <3>1 DEF Distinct
    <3>6. Once(K[f]) /\ HeadOr(K[f], TAIL) = TAIL /\ ToSet(K[f]) = {}
      BY <3>2, TrailNone
    <3>7. /\ c.vol.fat[Log] = SegNext(q, 0)
          /\ \A k \in 1..Len(q.segs) : Trail(c.vol.fat, K[q.segs[k]], SegNext(q, k))
      <4>1. \A k \in 1..Len(r.segs) : q.ino[r.segs[k]] = r.ino[r.segs[k]]
        <5>1. \A k \in 1..Len(r.segs) : r.segs[k] \in File /\ r.segs[k] # f
          BY <1>2, <1>6, SegFacts
        <5>2. QED BY <3>3, <5>1
      <4>2. \A k \in 1..Len(r.segs) : SameOn(c.vol.fat, c.vol.fat, ToSet(K[r.segs[k]]))
        BY DEF SameOn
      <4>3. QED BY <1>2, <3>3, <4>1, <4>2, SegsKeep
    <3>8. \A x \in Cluster : c.vol.fat[x] # FREE => x \notin ToSet(K[f])
      BY <3>6
    <3>9. \A g \in File : g # f /\ r.ino[g].st = "alloc" => SameOn(c.vol.fat, c.vol.fat, ToSet(K[g]))
      BY DEF SameOn
    <3>10. Changes(c.vol, r, K, f, c.vol, q, K)
      BY <3>1, <3>2, <3>3, <3>4, <3>5, <3>6, <3>7, <3>8, <3>9 DEF Changes
    <3>11. Shape(c.vol, q, K)
      BY <1>2, <1>4, <3>10, ShapeChange
    <3>12. QED BY <2>6, <3>11
  <2>8. Fresh(e, K)
    <3>1. \A g \in File, s \in Slot : Owns(r.ino, g, s) => s \in c.fixed
      BY <1>1, FreshBase DEF r
    <3>2. \A g \in File, s \in Slot : Owns(e.ram.ino, g, s) => s \in e.fixed
      BY <2>1, <2>6, <3>1
    <3>3. QED BY <1>2, <1>4, <2>5, <2>6, <2>7, <3>2 DEF Fresh, Rest
  <2>9. Goes(c0, DelInodeSteps(f), e)
    BY <1>1, <1>5, <1>6, <2>5, GoesConcat
  <2>10. QED BY <2>8, <2>9, FreshDone
<1>7. CASE r.ino[f].start # TAIL
  <2>1. ChainOf(f) = K[f]
    <3>1. cache \in Volume
      BY DEF Stands
    <3>2. r.ino = ram.ino
      BY <1>1 DEF r
    <3>3. QED BY <1>1, <1>2, <3>1, <3>2, ShapeChain
  <2>2. PICK e1, e2 : /\ Goes(c, FreeChain(d, K[f]), e1) /\ Goes(e1, UnlinkStep(d), e2)
                      /\ Sane(e2) /\ e2.log # <<>> /\ e2.ram = r /\ OwnersFixed(e2)
                      /\ GoneWas(c.vol, r, K, f, e2.vol)
    BY <1>1, <1>2, <1>7, ParkUnlinks DEF r
  <2> DEFINE L == Put(K, f, <<>>)
  <2>3. Shape(e2.vol, q, L)
    BY <1>2, <1>3, <1>7, <2>2, GoneShape
  <2> HIDE DEF L, d
  <2>4. PICK e3 : Fresh(e3, L) /\ Goes(e2, LogEnd(q, None), e3)
    BY <1>2, <1>3, <1>4, <2>2, <2>3, GoneEnds
  <2>5. Goes(c0, CommitDeferred(ram) \o FreeChain(d, ChainOf(f)), e1)
    BY <1>1, <2>1, <2>2, GoesConcat
  <2>6. Goes(c0, (CommitDeferred(ram) \o FreeChain(d, ChainOf(f))) \o UnlinkStep(d), e2)
    BY <2>2, <2>5, GoesConcat
  <2>7. Goes(c0, DelInodeSteps(f), e3)
    BY <1>5, <1>7, <2>4, <2>6, GoesConcat
  <2>8. QED BY <2>4, <2>7, FreshDone
<1>8. QED BY <1>6, <1>7
\* The in-core state once the chain of f ends at z.
CutBy(r, f, z, q) ==
  /\ q \in Rams /\ \A g \in File : g # f => q.ino[g] = r.ino[g]
  /\ q.ino[f].st = "alloc" /\ q.ino[f].slot = r.ino[f].slot /\ q.ino[f].last = z
  /\ q.ino[f].start = (IF z = TAIL THEN TAIL ELSE r.ino[f].start)
  /\ q.segs = r.segs /\ q.writer = r.writer /\ q.pre = r.pre

LEMMA CutFacts ==
  ASSUME NEW r \in Rams, NEW f \in File, r.ino[f].st = "alloc", r.ino[f].start # TAIL,
         NEW z \in Cluster \cup {TAIL}, NEW q, q = Cut(r, f, z)
  PROVE  CutBy(r, f, z, q)
<1> DEFINE i == CutInode(r, f, z)
<1>1. q \in Rams
  BY CutType
<1>2. i.st = "alloc" /\ i.slot = r.ino[f].slot /\ i.start = IF z = TAIL THEN TAIL ELSE r.ino[f].start
  BY CutShape
<1>3. i.last = z
  <2>1. r.ino[f] \in Inodes
    BY RamFields
  <2> DEFINE j == r.ino[f]
             a == [j EXCEPT !.last = z]
  <2>2. a = [st |-> j.st, slot |-> j.slot, start |-> j.start, last |-> z]
    BY <2>1 DEF Inodes
  <2> HIDE DEF a
  <2>3. [a EXCEPT !.start = IF z = TAIL THEN TAIL ELSE j.start].last = z
    BY <2>2
  <2>4. i = [a EXCEPT !.start = IF z = TAIL THEN TAIL ELSE j.start]
    BY DEF CutInode, a
  <2>5. QED BY <2>3, <2>4
<1> HIDE DEF i
<1>4. r.ino \in [File -> Inodes]
  BY RamFields
<1>5. q.ino = [r.ino EXCEPT ![f] = i] /\ q.segs = r.segs /\ q.writer = r.writer /\ q.pre = r.pre
  BY DEF Cut, i
<1>6. q.ino[f] = i /\ \A g \in File : g # f => q.ino[g] = r.ino[g]
  BY <1>4, <1>5
<1>7. QED BY <1>1, <1>2, <1>3, <1>5, <1>6 DEF CutBy

\* The volume once the chain p of f is cut to n clusters.
CutWas(v, r, p, n, w) ==
  /\ w.live = v.live
  /\ \A x \in FatIndex : w.fat[x] = IF x \in ToSet(Left(p, n)) THEN FREE
                                    ELSE IF x = SegEnd(r) \/ (n # 0 /\ x = p[n]) THEN TAIL
                                    ELSE v.fat[x]

CutKeep(p, n, keep) ==
  /\ keep \in Seq(Cluster) /\ Len(keep) = n /\ Once(keep) /\ ToSet(keep) \subseteq ToSet(p)
  /\ ToSet(keep) \cap ToSet(Left(p, n)) = {}
  /\ \A x \in ToSet(p) : x \in ToSet(keep) \/ x \in ToSet(Left(p, n))
  /\ ToSet(Left(p, n)) \subseteq ToSet(p)
  /\ \A i \in 1..n : keep[i] = p[i] /\ p[i] \in ToSet(keep)

LEMMA CutKeepIs ==
  ASSUME NEW p \in Seq(Cluster), Once(p), NEW n \in 0..Len(p), NEW keep, keep = Begin(p, n)
  PROVE  CutKeep(p, n, keep)
<1> DEFINE l == Left(p, n)
<1>1. LeftOf(p, n, l)
  BY LeftIs
<1> HIDE DEF l
<1>2. /\ \A x : x \in ToSet(l) <=> x \in ToSet(p) /\ \E i \in (n + 1)..Len(p) : p[i] = x
      /\ \A x \in ToSet(p) : x \in Taken(p, n) \/ x \in ToSet(l)
      /\ Taken(p, n) \cap ToSet(l) = {}
  BY <1>1 DEF LeftOf
<1>3. Taken(p, n) = ToSet(keep) /\ Taken(p, n) \subseteq ToSet(p)
      /\ \A x : x \in Taken(p, n) <=> \E i \in 1..n : p[i] = x
  BY TakenIs DEF Taken
<1>4. keep \in Seq(Cluster) /\ Len(keep) = n /\ \A i \in 1..n : keep[i] = p[i]
  BY BeginIs
<1>5. Once(keep)
  <2>1. 1..n \subseteq 1..Len(p)
    OBVIOUS
  <2>2. QED BY <1>4, <2>1 DEF Once
<1>6. QED BY <1>2, <1>3, <1>4, <1>5 DEF CutKeep, l

LEMMA CutTrail ==
  ASSUME NEW fat, NEW new, NEW p \in Seq(Cluster), Once(p), Trail(fat, p, TAIL), NEW n \in 1..Len(p),
         new[p[n]] = TAIL, \A i \in 1..n : i # n => new[p[i]] = fat[p[i]],
         NEW keep, CutKeep(p, n, keep)
  PROVE  Trail(new, keep, TAIL)
<1>1. Len(keep) = n /\ \A i \in 1..n : keep[i] = p[i]
  BY DEF CutKeep
<1>2. n \in Nat /\ n <= Len(p) /\ Len(p) \in Nat
  OBVIOUS
<1>3. ASSUME NEW i \in 1..n, NEW j \in 1..n
      PROVE  /\ j = i + 1 => new[keep[i]] = keep[j]
             /\ i = n => new[keep[i]] = TAIL
  <2>1. i \in 1..Len(p) /\ j \in 1..Len(p) /\ (j = i + 1 => i # n)
    BY <1>2
  <2>2. j = i + 1 => fat[p[i]] = p[j]
    BY <2>1 DEF Trail
  <2>3. keep[i] = p[i] /\ keep[j] = p[j]
    BY <1>1
  <2>4. QED BY <2>1, <2>2, <2>3
<1>4. QED BY <1>1, <1>3 DEF Trail

\* What of a volume a cut leaves.
CutRest(v, r, K, f, n, w, keep) ==
  /\ \A x \in FatIndex : x \notin ToSet(K[f]) => w.fat[x] = v.fat[x]
  /\ Trail(w.fat, keep, TAIL)
  /\ \A c \in Cluster : w.fat[c] # FREE /\ c \notin ToSet(keep) => v.fat[c] # FREE /\ c \notin ToSet(K[f])

LEMMA CutRestIs ==
  ASSUME NEW v, NEW r \in Rams, NEW K, Shape(v, r, K), NEW f \in File, r.ino[f].st = "alloc",
         NEW n \in 0..Len(K[f]), NEW w, CutWas(v, r, K[f], n, w), NEW keep, keep = Begin(K[f], n)
  PROVE  CutRest(v, r, K, f, n, w, keep)
<1> DEFINE p == K[f]
           l == Left(p, n)
           z == SegEnd(r)
<1>1. p \in Seq(Cluster) /\ Once(p) /\ Trail(v.fat, p, TAIL)
  BY DEF Shape
<1>2. EndBy(v, r, K)
  BY SegEndFacts
<1>3. z \in FatIndex /\ v.fat[z] = TAIL /\ z \notin ToSet(p)
  <2>1. r.ino[f].st # "free"
    OBVIOUS
  <2>2. QED BY <1>2, <2>1 DEF EndBy
<1>4. \A x \in FatIndex : w.fat[x] = IF x \in ToSet(l) THEN FREE
                                     ELSE IF x = z \/ (n # 0 /\ x = p[n]) THEN TAIL ELSE v.fat[x]
  BY DEF CutWas
<1>5. n \in 0..Len(p) /\ keep = Begin(p, n)
  OBVIOUS
<1> HIDE DEF p, z
<1>6. CutKeep(p, n, keep)
  BY <1>1, <1>5, CutKeepIs
<1> HIDE DEF l
<1>7. /\ ToSet(keep) \subseteq ToSet(p) /\ ToSet(keep) \cap ToSet(l) = {}
      /\ \A x \in ToSet(p) : x \in ToSet(keep) \/ x \in ToSet(l)
      /\ ToSet(l) \subseteq ToSet(p) /\ keep \in Seq(Cluster) /\ Len(keep) = n
      /\ \A i \in 1..n : keep[i] = p[i] /\ p[i] \in ToSet(keep)
  BY <1>6 DEF CutKeep, l
<1>8. n # 0 => n \in 1..Len(p) /\ n \in 1..n
  BY <1>1, <1>5
<1>9. ASSUME NEW x \in FatIndex, x \notin ToSet(p)
      PROVE  w.fat[x] = v.fat[x]
  <2>1. x \notin ToSet(l)
    BY <1>7, <1>9
  <2>2. n # 0 => x # p[n]
    BY <1>7, <1>8, <1>9
  <2>3. QED BY <1>3, <1>4, <2>1, <2>2
<1>10. Trail(w.fat, keep, TAIL)
  <2>1. CASE n = 0
    <3>1. keep = <<>>
      BY <1>7, <2>1
    <3>2. QED BY <3>1, TrailNone
  <2>2. CASE n # 0
    <3>1. \A i \in 1..n : p[i] \in FatIndex /\ p[i] \notin ToSet(l) /\ p[i] # z /\ p[i] \in ToSet(p)
      <4>1. ToSet(p) \subseteq Cluster
        BY <1>1, SetIs
      <4>2. QED BY <1>3, <1>7, <4>1, ConstantFacts
    <3>2. w.fat[p[n]] = TAIL
      BY <1>4, <1>8, <2>2, <3>1
    <3>3. ASSUME NEW i \in 1..n, i # n
          PROVE  w.fat[p[i]] = v.fat[p[i]]
      <4>1. i \in 1..Len(p)
        BY <1>8, <2>2
      <4>2. p[i] # p[n]
        BY <1>1, <1>8, <2>2, <3>3, <4>1 DEF Once
      <4>3. QED BY <1>4, <3>1, <4>2
    <3>4. QED BY <1>1, <1>6, <1>8, <2>2, <3>2, <3>3, CutTrail
  <2>3. QED BY <2>1, <2>2
<1>11. ASSUME NEW c \in Cluster, w.fat[c] # FREE, c \notin ToSet(keep)
       PROVE  v.fat[c] # FREE /\ c \notin ToSet(p)
  <2>1. c \in FatIndex
    BY ConstantFacts
  <2>2. c \notin ToSet(l)
    BY <1>4, <1>11, <2>1
  <2>3. c \notin ToSet(p)
    BY <1>7, <1>11, <2>2
  <2>4. QED BY <1>9, <1>11, <2>1, <2>3
<1>12. QED BY <1>9, <1>10, <1>11 DEF CutRest, p
LEMMA ShortShape ==
  ASSUME NEW v, NEW r \in Rams, NEW K, Shape(v, r, K), NEW f \in File, r.ino[f].st = "alloc",
         NEW n \in 0..Len(K[f]), n # Len(K[f]), NEW w, CutWas(v, r, K[f], n, w),
         NEW z, n = 0 => z = TAIL, n # 0 => z = K[f][n], NEW q, CutBy(r, f, z, q)
  PROVE  Shape(w, q, Put(K, f, Begin(K[f], n)))
<1> DEFINE p == K[f]
           keep == Begin(p, n)
           L == Put(K, f, keep)
<1>1. /\ K \in [File -> Seq(Cluster)] /\ Distinct(r.ino)
      /\ \A s \in Slot : v.live[s] <=> \E g \in File : Owns(r.ino, g, s)
      /\ v.fat[Log] = SegNext(r, 0)
      /\ r.ino[f].start = HeadOr(p, TAIL) /\ Once(p)
      /\ \A g, h \in File : g # h => ToSet(K[g]) \cap ToSet(K[h]) = {}
  BY DEF Shape
<1>2. p \in Seq(Cluster) /\ ToSet(p) \subseteq Cluster /\ Len(p) \in Nat
  <2>1. K[f] \in Seq(Cluster)
    BY <1>1
  <2>2. QED BY <2>1, SetIs
<1>3. CutRest(v, r, K, f, n, w, keep)
  BY CutRestIs
<1>4. CutKeep(p, n, keep)
  BY <1>1, <1>2, CutKeepIs
<1> HIDE DEF keep, p
<1>5. /\ keep \in Seq(Cluster) /\ Len(keep) = n /\ Once(keep) /\ ToSet(keep) \subseteq ToSet(p)
      /\ \A i \in 1..n : keep[i] = p[i] /\ p[i] \in ToSet(keep)
  BY <1>4 DEF CutKeep
<1>6. /\ \A x \in FatIndex : x \notin ToSet(p) => w.fat[x] = v.fat[x]
      /\ Trail(w.fat, keep, TAIL)
      /\ \A c \in Cluster : w.fat[c] # FREE /\ c \notin ToSet(keep) => v.fat[c] # FREE /\ c \notin ToSet(p)
  BY <1>3 DEF CutRest, p
<1>7. L \in [File -> Seq(Cluster)] /\ L[f] = keep /\ \A g \in File : g # f => L[g] = K[g]
  BY <1>1, <1>5 DEF Put
<1> HIDE DEF L
<1>8. /\ q \in Rams /\ \A g \in File : g # f => q.ino[g] = r.ino[g]
      /\ q.ino[f].st = "alloc" /\ q.ino[f].slot = r.ino[f].slot /\ q.ino[f].last = z
      /\ q.ino[f].start = (IF z = TAIL THEN TAIL ELSE r.ino[f].start)
      /\ q.segs = r.segs
  BY DEF CutBy
<1>9. \A g \in File, s \in Slot : Owns(q.ino, g, s) <=> Owns(r.ino, g, s)
  BY <1>8 DEF Owns
<1>10. Distinct(q.ino)
  BY <1>1, <1>9 DEF Distinct
<1>11. \A s \in Slot : w.live[s] <=> \E g \in File : Owns(q.ino, g, s)
  BY <1>1, <1>9 DEF CutWas
<1>12. /\ q.ino[f].start = HeadOr(keep, TAIL)
       /\ keep # <<>> => q.ino[f].last = keep[Len(keep)]
  <2>1. CASE n = 0
    <3>1. z = TAIL /\ keep = <<>>
      BY <1>5, <2>1
    <3>2. QED BY <1>8, <3>1 DEF HeadOr
  <2>2. CASE n # 0
    <3>1. n \in 1..Len(p) /\ 1 \in 1..n /\ n \in 1..n /\ 1 \in 1..Len(p) /\ z = p[n]
      BY <1>2, <2>2 DEF p
    <3>2. p[n] \in Cluster
      BY <1>2, <3>1
    <3>3. z # TAIL
      BY <3>1, <3>2, ConstantFacts DEF FatIndex
    <3>4. keep # <<>> /\ p # <<>>
      <4>1. keep = <<>> => Len(keep) = 0
        OBVIOUS
      <4>2. p = <<>> => Len(p) = 0
        OBVIOUS
      <4>3. QED BY <1>5, <2>2, <3>1, <4>1, <4>2
    <3>5. keep[1] = p[1] /\ keep[n] = p[n]
      BY <1>5, <3>1
    <3>6. QED BY <1>1, <1>5, <1>8, <3>1, <3>3, <3>4, <3>5 DEF HeadOr
  <2>3. QED BY <2>1, <2>2
<1>13. \A g \in File : g # f => SameOn(v.fat, w.fat, ToSet(K[g]))
  <2>1. ASSUME NEW g \in File, g # f, NEW x \in ToSet(K[g])
        PROVE  w.fat[x] = v.fat[x]
    <3>1. K[g] \in Seq(Cluster)
      BY <1>1
    <3>2. ToSet(K[g]) \subseteq Cluster
      BY <3>1, SetIs
    <3>3. x \in FatIndex
      BY <2>1, <3>2 DEF FatIndex
    <3>4. x \notin ToSet(p)
      BY <1>1, <2>1 DEF p
    <3>5. QED BY <1>6, <3>3, <3>4
  <2>2. QED BY <2>1 DEF SameOn
<1>14. /\ w.fat[Log] = SegNext(q, 0)
       /\ \A k \in 1..Len(q.segs) : Trail(w.fat, L[q.segs[k]], SegNext(q, k))
  <2>1. \A k \in 1..Len(r.segs) : r.segs[k] \in File /\ r.segs[k] # f
    <3>1. \A k \in 1..Len(r.segs) : r.segs[k] \in File /\ r.ino[r.segs[k]].st = "free"
      BY SegFacts
    <3>2. QED BY <3>1
  <2>2. \A k \in 1..Len(r.segs) : q.ino[r.segs[k]] = r.ino[r.segs[k]]
    BY <1>8, <2>1
  <2>3. \A k \in 1..Len(r.segs) : /\ L[r.segs[k]] = K[r.segs[k]]
                                  /\ SameOn(v.fat, w.fat, ToSet(K[r.segs[k]]))
    BY <1>7, <1>13, <2>1
  <2>4. w.fat[Log] = v.fat[Log]
    <3>1. Log \in FatIndex /\ Log \notin ToSet(p)
      BY <1>2, RfsAssumption DEF FatIndex
    <3>2. QED BY <1>6, <3>1
  <2>5. QED BY <1>8, <2>2, <2>3, <2>4, SegsKeep
<1>15. \A g \in File : g # f => ToSet(keep) \cap ToSet(K[g]) = {}
  <2>1. ASSUME NEW g \in File, g # f
        PROVE  ToSet(keep) \cap ToSet(K[g]) = {}
    <3>1. ToSet(p) \cap ToSet(K[g]) = {}
      BY <1>1, <2>1 DEF p
    <3>2. QED BY <1>5, <3>1
  <2>2. QED BY <2>1
<1>16. Changes(v, r, K, f, w, q, L)
  <2>1. q.ino[f].st # "none"
    BY <1>8
  <2>2. \A c \in Cluster : w.fat[c] # FREE /\ c \notin ToSet(L[f]) => v.fat[c] # FREE /\ c \notin ToSet(K[f])
    BY <1>6, <1>7 DEF p
  <2>3. QED BY <1>5, <1>6, <1>7, <1>8, <1>10, <1>11, <1>12, <1>13, <1>14, <1>15, <2>1, <2>2 DEF Changes
<1>17. Shape(w, q, L)
  BY <1>8, <1>16, ShapeChange
<1>18. QED BY <1>17 DEF L, keep, p
\* One FAT entry is written.
LEMMA FatGoes ==
  ASSUME NEW c, Sane(c), NEW i \in FatIndex, NEW x \in FatVal, <<"fat", i>> \in c.mask
  PROVE  \E e : /\ Sane(e) /\ Goes(c, <<Fat(i, x)>>, e)
                /\ e.log = c.log /\ e.ram = c.ram /\ e.base = c.base /\ e.mask = c.mask
                /\ e.fixed = c.fixed /\ e.vol.fat = Put(c.vol.fat, i, x)
                /\ e.vol.live = c.vol.live /\ e.vol.start = c.vol.start
<1> DEFINE s == Fat(i, x)
           e == Edited(c, <<s>>)
<1>2. s \in Edits
  BY EditIntro
<1>4. Lets(c, s) <=> <<"fat", i>> \in c.mask \/ x = c.base.fat[i]
  BY LetsBy
<1>5. Suits(c, s)
  BY SuitsBy
<1>6. s.op # "start"
  BY DEF Fat
<1>7. c.vol \in Volume
  BY DEF Sane
<1>8. /\ Apply(c.vol, s).fat = [c.vol.fat EXCEPT ![i] = x]
      /\ Apply(c.vol, s).live = c.vol.live /\ Apply(c.vol, s).start = c.vol.start
  BY <1>7, ApplyFat
<1> HIDE DEF s
<1>9. Puts(c, <<s>>) /\ AllSuit(c, <<s>>)
  BY <1>4, <1>5, PutsParts
<1>10. <<s>> \in Seq(Edits) /\ <<s>> # <<>>
  BY <1>2, OneType
<1>11. Sane(e) /\ Goes(c, <<s>>, e)
  BY <1>9, <1>10, GoesEdits
<1>12. e.vol = Apply(c.vol, s) /\ e.fixed = c.fixed \cup {}
  BY <1>2, <1>6, EditedOne
<1>13. e.log = c.log /\ e.ram = c.ram /\ e.base = c.base /\ e.mask = c.mask
  BY EditedPoint
<1> HIDE DEF e
<1>14. QED BY <1>8, <1>11, <1>12, <1>13 DEF s, Put
\* Where a truncation of f to its cluster z takes place.
CutPlace(r, f, z) ==
  [trunc |-> TRUE, slot |-> r.ino[f].slot, newlast |-> z, prev |-> SegEnd(r), succ |-> TAIL]
EndStep(n, z) == If(n > 0, <<Fat(z, TAIL)>>)
CutRam(r, f, n, z) == [r EXCEPT !.ino[f].last = z, !.ino[f].start = IF n = 0 THEN TAIL ELSE @]
LEMMA CutRamIs ==
  ASSUME NEW r \in Rams, NEW f \in File, NEW n, NEW z, z = TAIL <=> n = 0
  PROVE  CutRam(r, f, n, z) = Cut(r, f, z)
<1> DEFINE o == [r.ino EXCEPT ![f] = CutInode(r, f, z)]
           cut == [r EXCEPT !.ino[f].last = z,
                            !.ino[f].start = IF n = 0 THEN TAIL ELSE @]
<1>1. r \in RamShape
  BY DEF Rams
<1>2. (n = 0) = (z = TAIL)
  OBVIOUS
<1>3. cut = [r EXCEPT !.ino = o]
  BY <1>2 DEF CutInode
<1> HIDE DEF o, cut
<1>4. cut = [ino |-> o, segs |-> r.segs, writer |-> r.writer, pre |-> r.pre]
  BY <1>1, <1>3, SetFields
<1>5. QED BY <1>4 DEF Cut, o, cut, CutRam
EndAt(cs, n) == IF n = 0 THEN TAIL ELSE cs[n]
\* The steps of a truncation, and what they are made of.
TruncateFrom(r, f, n, cs, z, q, d) ==
  /\ r = Released(ram) /\ cs = ChainOf(f) /\ z = EndAt(cs, n) /\ (z = TAIL <=> n = 0)
  /\ q = Cut(r, f, z) /\ d = CutPlace(r, f, z)
TruncatesAs(f, n, cs, z, q, d) ==
  TruncateSteps(f, n)
  = ((((CommitDeferred(ram) \o FreeChain(d, Left(cs, n))) \o UnlinkStep(d)) \o EndStep(n, z))
       \o <<Ram(q)>>) \o LogEnd(q, f)
LEMMA TruncateIs ==
  ASSUME NEW r \in Rams, NEW f \in File, NEW n \in Nat, NEW cs, NEW z, NEW q, NEW d,
         TruncateFrom(r, f, n, cs, z, q, d)
  PROVE  TruncatesAs(f, n, cs, z, q, d)
<1> DEFINE cut == CutRam(r, f, n, z)
<1>1. /\ r = Released(ram) /\ cs = ChainOf(f) /\ z = EndAt(cs, n) /\ (z = TAIL <=> n = 0)
      /\ q = Cut(r, f, z) /\ d = CutPlace(r, f, z)
  BY DEF TruncateFrom
<1>2. cut = q
  BY <1>1, CutRamIs
<1>3. d = [trunc |-> TRUE, slot |-> r.ino[f].slot, newlast |-> z, prev |-> SegEnd(r), succ |-> TAIL]
      /\ d.prev = SegEnd(r) /\ d.succ = TAIL
  BY <1>1 DEF CutPlace
<1>4. TruncateSteps(f, n) =
        CommitDeferred(ram) \o FreeChain(d, SubSeq(cs, n + 1, Len(cs)))
          \o <<Fat(d.prev, TAIL)>> \o If(n > 0, <<Fat(z, TAIL)>>)
          \o <<Ram(cut)>> \o LogEnd(cut, f)
  BY <1>1, <1>3 DEF TruncateSteps, CutRam, EndAt
<1> HIDE DEF cut
<1>5. QED BY <1>2, <1>3, <1>4 DEF EndStep, UnlinkStep, Left, Piece, TruncatesAs
\* The cluster z the chain of f is cut to, n of them.
CutLast(K, f, n, z) ==
  /\ n \in 0..Len(K[f]) /\ n # Len(K[f]) /\ z = IF n = 0 THEN TAIL ELSE K[f][n]
LEMMA CutLastIs ==
  ASSUME NEW K, NEW f, K[f] \in Seq(Cluster), NEW n, NEW z, CutLast(K, f, n, z)
  PROVE  /\ z \in Cluster \cup {TAIL} /\ (z = TAIL <=> n = 0)
         /\ n \in Nat /\ n \in 0..Len(K[f]) /\ n # Len(K[f])
         /\ (n = 0 => z = TAIL) /\ (n # 0 => z = K[f][n] /\ z \in Cluster)
<1>1. n \in 0..Len(K[f]) /\ n # Len(K[f]) /\ z = IF n = 0 THEN TAIL ELSE K[f][n]
  BY DEF CutLast
<1>2. n # 0 => z = K[f][n] /\ z \in Cluster
  <2>1. n # 0 => n \in 1..Len(K[f])
    BY <1>1
  <2>2. QED BY <1>1, <2>1
<1>3. QED BY <1>1, <1>2, ConstantFacts DEF FatIndex
LEMMA CutPlaceIs ==
  ASSUME NEW r \in Rams, NEW f \in File, NEW u, u = r.ino[f].slot, u \in Slot \cup {None},
         NEW K, K[f] \in Seq(Cluster), NEW n, NEW z,
         CutLast(K, f, n, z), NEW d, d = CutPlace(r, f, z)
  PROVE  CutAt(r, u, K[f], n, d)
<1>1. z \in Cluster \cup {TAIL} /\ z = IF n = 0 THEN TAIL ELSE K[f][n]
  BY CutLastIs DEF CutLast
<1>2. SegEnd(r) \in FatIndex
  BY RamsListed, SegTypes
<1>3. /\ d.trunc = TRUE /\ d.slot = u /\ d.prev = SegEnd(r) /\ d.succ = TAIL /\ d.newlast = z
  BY DEF CutPlace
<1>4. d \in Places
  BY <1>1, <1>2 DEF Places, CutPlace, FatIndex
<1>5. QED BY <1>1, <1>3, <1>4 DEF CutAt
LEMMA LeftSome ==
  ASSUME NEW p \in Seq(Cluster), NEW n \in 0..Len(p), n # Len(p), NEW cs, cs = Left(p, n)
  PROVE  cs \in Seq(Cluster) /\ cs # <<>>
<1>1. LeftOf(p, n, cs)
  BY LeftIs
<1>2. cs \in Seq(Cluster) /\ \A x : x \in ToSet(cs) <=> x \in ToSet(p) /\ \E i \in (n + 1)..Len(p) : p[i] = x
  BY <1>1 DEF LeftOf
<1>3. Len(p) \in Nat /\ n \in Nat
  OBVIOUS
<1>4. Len(p) \in (n + 1)..Len(p) /\ Len(p) \in 1..Len(p)
  BY <1>3
<1>5. p[Len(p)] \in ToSet(p)
  BY <1>4, SetIs
<1>6. ToSet(cs) # {}
  BY <1>2, <1>4, <1>5
<1>7. QED BY <1>2, <1>6, SetIs
\* The rest of the chain, deallocated.
LEMMA CutGoes ==
  ASSUME NEW c, NEW K, Fresh(c, K), NEW f \in File, NEW u \in Slot, Owns(c.ram.ino, f, u),
         NEW n, NEW z, CutLast(K, f, n, z),
         NEW d, d = CutPlace(c.ram, f, z), NEW cs, cs = Left(K[f], n)
  PROVE  /\ \E e : DoneTo(c, c.base, d, cs, Len(cs), e) /\ Goes(c, FreeChain(d, cs), e)
         /\ cs \in Seq(Cluster) /\ cs # <<>> /\ Aside(d, cs) /\ CutAt(c.ram, u, K[f], n, d)
<1> DEFINE b == c.base
           r == c.ram
<1>1. b \in Volume /\ r \in Rams
  BY FreshBase
<1>2. /\ Shape(b, r, K) /\ OwnersFixed(c)
      /\ \A g \in File, s \in Slot : Owns(r.ino, g, s) => b.start[s] = r.ino[g].start
  BY FreshShape DEF FreshAs
<1>3. AtGroup(c, b, d, cs, 0)
  BY FreshGroup
<1>4. K[f] \in Seq(Cluster)
  BY <1>1, <1>2, ShapeTrail
<1>5. n \in 0..Len(K[f]) /\ n # Len(K[f])
  BY DEF CutLast
<1>6. u = r.ino[f].slot
  BY DEF Owns
<1>7. CutAt(r, u, K[f], n, d)
  BY <1>1, <1>4, <1>6, CutPlaceIs
<1>8. cs \in Seq(Cluster) /\ cs # <<>>
  BY <1>4, <1>5, LeftSome
<1>9. Owns(r.ino, f, u)
  OBVIOUS
<1> HIDE DEF b, r
<1>10. PICK C : ChainSet(b, r, K, C)
  BY <1>1, <1>2, ChainSetIs
<1>11. C \in Chains /\ SoundBy(b, C)
  BY <1>10 DEF ChainSet
<1> DEFINE keep == Begin(K[f], n)
           U == CutHeads(C, u, keep)
<1>a. keep = Begin(K[f], n)
  OBVIOUS
<1> HIDE DEF keep
<1>b. U = CutHeads(C, u, keep)
  OBVIOUS
<1> HIDE DEF U
<1>12. /\ \E A, B : Strung(b, d, cs, A, B, U)
       /\ Aside(d, cs) /\ CutTo(d, C, U)
  BY <1>1, <1>2, <1>5, <1>7, <1>9, <1>10, <1>a, <1>b, CutStrung
<1>13. d \in Places
  BY <1>7 DEF CutAt
<1>14. Deallocates(b, d, cs)
  BY <1>1, <1>8, <1>11, <1>12, <1>13, DeallocatesBy
<1>15. \E e : DoneTo(c, b, d, cs, Len(cs), e) /\ Goes(c, FreeChain(d, cs), e)
  BY <1>2, <1>3, <1>8, <1>14, ChainGoes DEF b
<1>16. QED BY <1>7, <1>8, <1>12, <1>15 DEF b, r
\* A FAT with the clusters Z free, then one entry and perhaps another one TAIL.
LEMMA CutFats ==
  ASSUME NEW fat \in FatMap, NEW Z \in SUBSET Cluster, NEW e \in FatIndex, e \notin Z,
         NEW b \in BOOLEAN, NEW y, b => y \in FatIndex /\ y \notin Z,
         NEW g, g = Put(FreedFat(fat, Z), e, TAIL),
         NEW h, h = IF b THEN Put(g, y, TAIL) ELSE g
  PROVE  \A x \in FatIndex : h[x] = IF x \in Z THEN FREE
                                    ELSE IF x = e \/ (b /\ x = y) THEN TAIL ELSE fat[x]
<1> DEFINE k == FreedFat(fat, Z)
<1>1. k = [x \in FatIndex |-> IF x \in Z THEN FREE ELSE fat[x]]
  BY DEF FreedFat
<1>2. g = [k EXCEPT ![e] = TAIL]
  BY DEF Put
<1> HIDE DEF k
<1>3. \A x \in FatIndex : k[x] = IF x \in Z THEN FREE ELSE fat[x]
  BY <1>1
<1>4. \A x \in FatIndex : g[x] = IF x = e THEN TAIL ELSE k[x]
  BY <1>1, <1>2
<1>5. DOMAIN g = FatIndex
  BY <1>1, <1>2
<1>6. CASE b
  <2>1. h = [g EXCEPT ![y] = TAIL]
    BY <1>6 DEF Put
  <2>2. g = [x \in FatIndex |-> g[x]]
    BY <1>1, <1>2
  <2>3. \A x \in FatIndex : h[x] = IF x = y THEN TAIL ELSE g[x]
    BY <2>1, <2>2
  <2>4. QED BY <1>3, <1>4, <1>6, <2>3
<1>7. CASE ~b
  BY <1>3, <1>4, <1>7
<1>8. QED BY <1>6, <1>7
\* The truncation up to the change of the inode.
LEMMA CutUnlinks ==
  ASSUME NEW c, NEW K, Fresh(c, K), NEW f \in File, NEW u \in Slot, Owns(c.ram.ino, f, u),
         NEW n, NEW z, CutLast(K, f, n, z),
         NEW d, d = CutPlace(c.ram, f, z), NEW cs, cs = Left(K[f], n)
  PROVE  \E e1, e2, e3 :
           /\ Goes(c, FreeChain(d, cs), e1) /\ Goes(e1, UnlinkStep(d), e2) /\ Goes(e2, EndStep(n, z), e3)
           /\ Sane(e3) /\ e3.log # <<>> /\ e3.ram = c.ram /\ e3.fixed = c.fixed
           /\ e3.vol.start = c.vol.start /\ SourceSpots(d) \subseteq e3.mask
           /\ CutWas(c.vol, c.ram, K[f], n, e3.vol)
<1> DEFINE r == c.ram
           Z == ToSet(cs)
<1>1. /\ \E e : DoneTo(c, c.base, d, cs, Len(cs), e) /\ Goes(c, FreeChain(d, cs), e)
      /\ cs \in Seq(Cluster) /\ cs # <<>> /\ Aside(d, cs) /\ CutAt(r, u, K[f], n, d)
  BY CutGoes
<1>2. PICK e1 : DoneTo(c, c.base, d, cs, Len(cs), e1) /\ Goes(c, FreeChain(d, cs), e1)
  BY <1>1
<1>3. Len(cs) # 0 /\ Taken(cs, Len(cs)) = ToSet(cs) /\ Z \in SUBSET Cluster
  BY <1>1, TakenAll, SetIs
<1>4. /\ Sane(e1) /\ e1.ram = r /\ e1.fixed = c.fixed
      /\ e1.vol.live = c.vol.live /\ e1.vol.start = c.vol.start /\ e1.vol.fat = FreedFat(c.vol.fat, Z)
      /\ SourceSpots(d) \subseteq e1.mask /\ e1.log # <<>>
  BY <1>2, <1>3 DEF DoneTo
<1>5. /\ d \in Places /\ d.trunc = TRUE /\ d.slot = u /\ d.prev = SegEnd(r) /\ d.succ = TAIL
      /\ d.newlast = IF n = 0 THEN TAIL ELSE K[f][n]
  BY <1>1 DEF CutAt
<1>6. PICK e2 : /\ Sane(e2) /\ Goes(e1, UnlinkStep(d), e2)
                /\ e2.log = e1.log /\ e2.ram = e1.ram /\ e2.fixed = e1.fixed /\ e2.mask = e1.mask
                /\ e2.vol.fat = Put(e1.vol.fat, d.prev, d.succ)
                /\ e2.vol.live = e1.vol.live /\ e2.vol.start = e1.vol.start
  BY <1>4, <1>5, UnlinkFat
<1>7. c.vol \in Volume /\ c.ram \in Rams /\ Shape(c.vol, c.ram, K)
  BY FreshBase
<1>8. K[f] \in Seq(Cluster)
  BY <1>7, ShapeTrail
<1>9. /\ z \in Cluster \cup {TAIL} /\ (z = TAIL <=> n = 0)
      /\ n \in Nat /\ (n # 0 => z = K[f][n] /\ z \in Cluster) /\ (n = 0 => z = TAIL)
  BY <1>8, CutLastIs
<1>10. d.newlast = z /\ (n # 0 => <<"fat", z>> \in SourceSpots(d))
  <2>1. d.newlast = z
    BY <1>5, <1>9
  <2>2. ASSUME n # 0 PROVE <<"fat", z>> \in SourceSpots(d)
    <3>1. d.trunc /\ d.newlast # TAIL /\ z = d.newlast
      BY <1>5, <1>9, <2>1, <2>2
    <3>2. <<"fat", z>> \in CutSpots(d)
      BY <1>5, <3>1, SourceIs
    <3>3. QED BY <1>5, <3>2, SourceIs
  <2>3. QED BY <2>1, <2>2
<1>11. d.prev \notin Z /\ (n # 0 => z \notin Z) /\ d.prev \in FatIndex
  <2>1. <<"fat", d.prev>> \in SourceSpots(d)
    BY <1>5, SourceIs
  <2>2. ASSUME NEW x \in Z, <<"fat", x>> \in SourceSpots(d) PROVE FALSE
    <3>1. <<"fat", x>> \in Freed(ToSet(cs))
      BY <2>2 DEF Freed
    <3>2. QED BY <1>1, <2>2, <3>1 DEF Aside
  <2>3. d.prev \in FatIndex
    BY <1>5 DEF Places
  <2>4. QED BY <1>10, <2>1, <2>2, <2>3
<1>12. PICK e3 : /\ Sane(e3) /\ Goes(e2, EndStep(n, z), e3)
                 /\ e3.log = e2.log /\ e3.ram = e2.ram /\ e3.mask = e2.mask /\ e3.fixed = e2.fixed
                 /\ e3.vol.fat = (IF n # 0 THEN Put(e2.vol.fat, z, TAIL) ELSE e2.vol.fat)
                 /\ e3.vol.live = e2.vol.live /\ e3.vol.start = e2.vol.start
  <2>1. CASE n = 0
    <3>1. EndStep(n, z) = <<>>
      BY <2>1 DEF EndStep, If
    <3>2. Goes(e2, EndStep(n, z), e2)
      BY <1>6, <3>1, GoesNone
    <3>3. QED BY <1>6, <2>1, <3>2
  <2>2. CASE n # 0
    <3>1. z \in FatIndex /\ TAIL \in FatVal
      BY <1>9, <2>2 DEF FatIndex, FatVal
    <3>2. <<"fat", z>> \in e2.mask
      BY <1>4, <1>6, <1>10, <2>2
    <3>3. PICK e : /\ Sane(e) /\ Goes(e2, <<Fat(z, TAIL)>>, e)
                   /\ e.log = e2.log /\ e.ram = e2.ram /\ e.mask = e2.mask
                   /\ e.fixed = e2.fixed /\ e.vol.fat = Put(e2.vol.fat, z, TAIL)
                   /\ e.vol.live = e2.vol.live /\ e.vol.start = e2.vol.start
      BY <1>6, <3>1, <3>2, FatGoes
    <3>4. EndStep(n, z) = <<Fat(z, TAIL)>>
      BY <1>9, <2>2 DEF EndStep, If
    <3>5. QED BY <2>2, <3>3, <3>4
  <2>3. QED BY <2>1, <2>2
<1>13. CutWas(c.vol, r, K[f], n, e3.vol)
  <2> DEFINE fat == c.vol.fat
             e == SegEnd(r)
             g == e2.vol.fat
             h == e3.vol.fat
             b == n # 0
  <2>1. fat \in FatMap /\ e \in FatIndex /\ e \notin Z /\ b \in BOOLEAN
    BY <1>5, <1>7, <1>11, VolumeFields
  <2>2. b => z \in FatIndex /\ z \notin Z
    BY <1>9, <1>11 DEF FatIndex
  <2>3. g = Put(FreedFat(fat, Z), e, TAIL)
    BY <1>4, <1>5, <1>6
  <2>4. h = IF b THEN Put(g, z, TAIL) ELSE g
    BY <1>12
  <2>5. b <=> n # 0
    OBVIOUS
  <2>6. fat = c.vol.fat /\ e = SegEnd(r) /\ h = e3.vol.fat
    OBVIOUS
  <2>7. e3.vol.live = c.vol.live
    BY <1>4, <1>6, <1>12
  <2>8. Z = ToSet(Left(K[f], n)) /\ Z \in SUBSET Cluster
    BY <1>3
  <2> HIDE DEF fat, e, g, h, b, Z
  <2>9. \A x \in FatIndex : h[x] = IF x \in Z THEN FREE
                                   ELSE IF x = e \/ (b /\ x = z) THEN TAIL ELSE fat[x]
    BY <2>1, <2>2, <2>3, <2>4, <2>8, CutFats
  <2>10. ASSUME NEW x \in FatIndex
         PROVE  h[x] = IF x \in Z THEN FREE
                       ELSE IF x = e \/ (n # 0 /\ x = K[f][n]) THEN TAIL ELSE fat[x]
    <3>1. (b /\ x = z) <=> (n # 0 /\ x = K[f][n])
      BY <1>9, <2>5
    <3>2. QED BY <2>9, <3>1
  <2> HIDE DEF r
  <2>11. QED BY <2>6, <2>7, <2>8, <2>10 DEF CutWas
<1>14. QED BY <1>2, <1>4, <1>6, <1>12, <1>13
\* rfs_truncate backward, also run by a lookup.
LEMMA TruncateReaches ==
  ASSUME NEW c0, NEW K, Stands(c0, K), NEW f \in File, ram.ino[f].st = "alloc",
         NEW n \in Nat, n < Len(ChainOf(f))
  PROVE  Done(c0, TruncateSteps(f, n))
<1>1. PICK c : /\ Fresh(c, K) /\ Goes(c0, CommitDeferred(ram), c) /\ c.ram = Released(ram)
               /\ c.vol.fat = cache.fat /\ c.vol.live = cache.live
               /\ ram \in Rams /\ Released(ram) \in Rams
               /\ Released(ram).ino = ram.ino /\ Released(ram).segs = ram.segs
  BY StandsFresh
<1> DEFINE r == c.ram
           cs == ChainOf(f)
           z == IF n = 0 THEN TAIL ELSE cs[n]
           q == Cut(r, f, z)
           d == CutPlace(r, f, z)
           u == r.ino[f].slot
           rest == Left(cs, n)
           L == Put(K, f, Begin(K[f], n))
<1>2. /\ c.vol \in Volume /\ r \in Rams /\ Shape(c.vol, r, K) /\ Sane(c) /\ r.ino[f].st = "alloc"
      /\ r.writer = None /\ r.pre = <<>> /\ c.log = <<>> /\ c.mask = {} /\ r = Released(ram)
  BY <1>1, FreshBase DEF Fresh
<1>3. cs = K[f]
  <2>1. cache \in Volume
    BY DEF Stands
  <2>2. r.ino = ram.ino
    BY <1>1 DEF r
  <2>3. QED BY <1>1, <1>2, <2>1, <2>2, ShapeChain
<1> HIDE DEF cs, r
<1>4. K[f] \in Seq(Cluster) /\ n \in 0..Len(K[f]) /\ n # Len(K[f]) /\ Len(K[f]) \in Nat /\ K[f] # <<>>
  <2>1. K[f] \in Seq(Cluster)
    BY <1>2, ShapeTrail
  <2>2. n < Len(K[f])
    BY <1>3 DEF cs
  <2>3. Len(K[f]) \in Nat /\ (K[f] = <<>> => Len(K[f]) = 0)
    BY <2>1
  <2>4. QED BY <2>1, <2>2, <2>3
<1>5. CutLast(K, f, n, z)
  BY <1>3, <1>4 DEF CutLast
<1> HIDE DEF z
<1>6. /\ z \in Cluster \cup {TAIL} /\ (z = TAIL <=> n = 0)
      /\ (n = 0 => z = TAIL) /\ (n # 0 => z = K[f][n] /\ z \in Cluster)
  BY <1>4, <1>5, CutLastIs
<1>7. u \in Slot /\ Owns(r.ino, f, u)
  <2>1. InodeOK(r.ino[f])
    BY <1>2, RamFields
  <2>2. QED BY <1>2, <2>1 DEF InodeOK, Owns
<1>8. r.ino[f].start # TAIL
  <2>1. Used(c.vol, r, K, f)
    BY <1>2, ShapeUsed
  <2>2. QED BY <1>4, <2>1 DEF Used
<1>9. CutBy(r, f, z, q)
  BY <1>2, <1>6, <1>8, CutFacts
<1>10. TruncateSteps(f, n)
       = ((((CommitDeferred(ram) \o FreeChain(d, rest)) \o UnlinkStep(d)) \o EndStep(n, z))
            \o <<Ram(q)>>) \o LogEnd(q, f)
  <2>1. cs = ChainOf(f) /\ z = EndAt(cs, n)
    BY DEF cs, z, EndAt
  <2>2. q = Cut(r, f, z) /\ d = CutPlace(r, f, z) /\ rest = Left(cs, n)
    OBVIOUS
  <2> HIDE DEF q, d, rest
  <2>3. (z = TAIL <=> n = 0) /\ r \in Rams /\ r = Released(ram)
    BY <1>2, <1>6
  <2>4. TruncateFrom(r, f, n, cs, z, q, d)
    BY <2>1, <2>2, <2>3 DEF TruncateFrom
  <2>5. TruncatesAs(f, n, cs, z, q, d)
    BY <2>3, <2>4, TruncateIs
  <2>6. QED BY <2>2, <2>5 DEF TruncatesAs
<1> HIDE DEF q, u
<1>11. d = CutPlace(r, f, z) /\ rest = Left(K[f], n)
  BY <1>3
<1> HIDE DEF d, rest
<1>12. PICK e1, e2, e3 :
           /\ Goes(c, FreeChain(d, rest), e1) /\ Goes(e1, UnlinkStep(d), e2) /\ Goes(e2, EndStep(n, z), e3)
           /\ Sane(e3) /\ e3.log # <<>> /\ e3.ram = r /\ e3.fixed = c.fixed
           /\ e3.vol.start = c.vol.start /\ SourceSpots(d) \subseteq e3.mask
           /\ CutWas(c.vol, r, K[f], n, e3.vol)
  BY <1>1, <1>5, <1>7, <1>11, CutUnlinks DEF r
<1>13. Shape(e3.vol, q, L)
  BY <1>2, <1>4, <1>6, <1>9, <1>12, ShortShape
<1> HIDE DEF L
<1>14. /\ q \in Rams /\ \A g \in File : g # f => q.ino[g] = r.ino[g]
       /\ q.ino[f].st = "alloc" /\ q.ino[f].slot = u
       /\ q.ino[f].start = (IF z = TAIL THEN TAIL ELSE r.ino[f].start)
       /\ q.writer = r.writer /\ q.pre = r.pre
  BY <1>9 DEF CutBy, u
<1>15. \A g \in File, s \in Slot : Owns(q.ino, g, s) <=> Owns(r.ino, g, s)
  BY <1>2, <1>14 DEF Owns, u
<1>16. \A g \in File, s \in Slot : Owns(r.ino, g, s) => s \in c.fixed
  BY <1>1, FreshBase DEF r
<1>17. Distinct(r.ino)
  BY <1>2 DEF Shape
<1> DEFINE x == IF n = 0 THEN c.fixed \ {u} ELSE c.fixed
           e4 == Turned(e3, q, x)
<1>18. n = 0 => <<"start", u>> \in e3.mask
  <2>1. ASSUME n = 0 PROVE <<"start", u>> \in SourceSpots(d)
    <3>1. CutAt(r, u, K[f], n, d)
      BY <1>2, <1>4, <1>5, <1>7, <1>11, CutPlaceIs DEF u
    <3>2. CutParts(K[f], n, d)
      BY <1>4, <1>7, <3>1, CutSpotsAre
    <3>3. d.slot = u /\ d \in Places
      BY <3>1 DEF CutAt
    <3>4. <<"start", u>> \in CutSpots(d)
      BY <1>7, <2>1, <3>2, <3>3 DEF CutParts
    <3>5. QED BY <3>3, <3>4, SourceIs
  <2>2. QED BY <1>12, <2>1
<1>19. x \in SUBSET e3.fixed
  BY <1>12
<1>20. /\ e3.fixed \subseteq Slot
       /\ \A s \in Slot : e3.base.live[s] /\ <<"start", s>> \notin e3.mask => s \in e3.fixed
       /\ \A g \in File, s \in e3.fixed : Owns(e3.ram.ino, g, s) => e3.vol.start[s] = e3.ram.ino[g].start
  BY <1>12 DEF Sane
<1>21. \A s \in Slot : e3.base.live[s] /\ <<"start", s>> \notin e3.mask => s \in x
  BY <1>12, <1>18, <1>20
<1>22. \A g \in File, s \in x : Owns(q.ino, g, s) => e3.vol.start[s] = q.ino[g].start
  <2>1. ASSUME NEW g \in File, NEW s \in x, Owns(q.ino, g, s)
        PROVE  e3.vol.start[s] = q.ino[g].start
    <3>1. s \in e3.fixed /\ s \in Slot
      BY <1>19, <1>20
    <3>2. Owns(r.ino, g, s)
      BY <1>15, <2>1, <3>1
    <3>3. e3.vol.start[s] = r.ino[g].start
      BY <1>12, <1>20, <3>1, <3>2
    <3>4. CASE g # f
      BY <1>14, <3>3, <3>4
    <3>5. CASE g = f
      <4>1. s = u
        BY <3>2, <3>5 DEF Owns, u
      <4>2. n # 0
        <5>1. ASSUME n = 0 PROVE FALSE
          BY <2>1, <4>1, <5>1
        <5>2. QED BY <5>1
      <4>3. q.ino[f].start = r.ino[f].start
        BY <1>6, <1>14, <4>2
      <4>4. QED BY <3>3, <3>5, <4>3
    <3>6. QED BY <3>4, <3>5
  <2>2. QED BY <2>1
<1>23. \A g \in File, s \in Slot : Owns(q.ino, g, s) /\ g # f => s \in x
  <2>1. ASSUME NEW g \in File, NEW s \in Slot, Owns(q.ino, g, s), g # f
        PROVE  s \in c.fixed /\ s # u
    <3>1. Owns(r.ino, g, s)
      BY <1>15, <2>1
    <3>2. QED BY <1>7, <1>16, <1>17, <2>1, <3>1 DEF Distinct
  <2>2. QED BY <2>1
<1> HIDE DEF x
<1>24. Sane(e4) /\ Goes(e3, <<Ram(q)>>, e4)
  BY <1>12, <1>14, <1>19, <1>21, <1>22, GoesRam
<1>25. e4.vol = e3.vol /\ e4.log = e3.log /\ e4.ram = q /\ e4.fixed = x
  BY DEF Turned, Point
<1> HIDE DEF e4
<1>26. e4.log # <<>> /\ Shape(e4.vol, e4.ram, L)
       /\ \A g \in File, s \in Slot : Owns(e4.ram.ino, g, s) /\ g # f => s \in e4.fixed
  BY <1>12, <1>13, <1>23, <1>25
<1>27. f \in File \cup {None}
  OBVIOUS
<1>28. PICK e5 : Fresh(e5, L) /\ Goes(e4, LogEnd(e4.ram, f), e5)
  BY <1>24, <1>26, <1>27, GoesLogEnd
<1>29. Goes(e4, LogEnd(q, f), e5)
  BY <1>25, <1>28
<1>30. Goes(c0, CommitDeferred(ram) \o FreeChain(d, rest), e1)
  BY <1>1, <1>12, GoesConcat
<1>31. Goes(c0, (CommitDeferred(ram) \o FreeChain(d, rest)) \o UnlinkStep(d), e2)
  BY <1>12, <1>30, GoesConcat
<1>32. Goes(c0, ((CommitDeferred(ram) \o FreeChain(d, rest)) \o UnlinkStep(d)) \o EndStep(n, z), e3)
  BY <1>12, <1>31, GoesConcat
<1>33. Goes(c0, (((CommitDeferred(ram) \o FreeChain(d, rest)) \o UnlinkStep(d)) \o EndStep(n, z)) \o <<Ram(q)>>, e4)
  BY <1>24, <1>32, GoesConcat
<1>34. Goes(c0, TruncateSteps(f, n), e5)
  BY <1>10, <1>29, <1>33, GoesConcat
<1>35. QED BY <1>28, <1>34, FreshDone
-----------------------------------------------------------------------------
(***************************************************************************)
(* The mount.                                                              *)
(***************************************************************************)
\* The place where rfs_fill_inode cuts the chain of the log file.
OrphanPlace == [trunc |-> TRUE, slot |-> None, newlast |-> Log, prev |-> Log, succ |-> TAIL]

LEMMA OrphanPlaceIs ==
  /\ OrphanPlace \in Places /\ OrphanPlace.prev = Log /\ OrphanPlace.succ = TAIL
  /\ OrphanPlace.trunc = TRUE /\ OrphanPlace.slot = None
  /\ SourceSpots(OrphanPlace) = {<<"fat", Log>>} /\ CutSpots(OrphanPlace) = {<<"fat", Log>>}
<1> DEFINE d == OrphanPlace
<1>1. /\ d.prev = Log /\ d.succ = TAIL /\ d.trunc = TRUE /\ d.slot = None /\ d.newlast = Log
  BY DEF OrphanPlace
<1>2. Log \in FatIndex /\ Log # TAIL
  BY ConstantFacts
<1>3. d \in Places
  BY <1>2 DEF OrphanPlace, Places
<1>4. CutSpots(d) = {<<"fat", Log>>}
  BY <1>1, <1>2 DEF CutSpots
<1>5. SourceSpots(d) = {<<"fat", Log>>}
  BY <1>1, <1>4 DEF SourceSpots
<1>6. QED BY <1>1, <1>3, <1>4, <1>5

\* The chain behind the log file, as the walk from it finds it.
LEMMA LogChain ==
  ASSUME NEW v, v.fat \in FatMap, NEW p \in Seq(Cluster), Trail(v.fat, p, TAIL), Once(p),
         v.fat[Log] = HeadOr(p, TAIL)
  PROVE  /\ Tail(ChainFrom(v.fat, Log)) = p
         /\ v.fat[Log] = TAIL <=> p = <<>>
<1> DEFINE a == <<Log>>
           w == a \o p
<1>1. w \in Seq(FatIndex) /\ w # <<>> /\ Once(w) /\ w[1] = Log
  BY PrevIs
<1>2. p \in Seq(FatIndex) /\ a \in Seq(FatIndex)
  <2>1. Cluster \subseteq FatIndex /\ Log \in FatIndex
    BY ConstantFacts
  <2>2. QED BY <2>1, OneType
<1>3. Trail(v.fat, w, TAIL)
  <2>1. Trail(v.fat, a, HeadOr(p, TAIL))
    BY TrailOne
  <2> HIDE DEF a
  <2>2. QED BY <1>2, <2>1, TrailConcat
<1>4. \A i \in 2..Len(w) : w[i] \in Cluster
  <2>1. \A i \in 1..Len(p) : p[i] \in Cluster
    OBVIOUS
  <2>2. Len(a) = 1 /\ Len(w) = 1 + Len(p) /\ \A i \in 2..Len(w) : w[i] = p[i - 1] /\ i - 1 \in 1..Len(p)
    OBVIOUS
  <2>3. QED BY <2>1, <2>2
<1>5. Tail(w) = p
  <2>1. Len(w) = 1 + Len(p) /\ \A i \in 1..Len(p) : w[i + 1] = p[i]
    OBVIOUS
  <2> HIDE DEF w
  <2>2. Len(Tail(w)) = Len(p) /\ Tail(w) \in Seq(FatIndex) /\ \A i \in 1..Len(p) : Tail(w)[i] = w[i + 1]
    BY <1>1, <2>1
  <2>3. QED BY <1>2, <2>1, <2>2
<1> HIDE DEF w
<1>6. w \in Path /\ TAIL \notin Cluster
  BY <1>1, RfsAssumption DEF Path
<1>7. ChainFrom(v.fat, w[1]) = w
  BY <1>1, <1>3, <1>4, <1>6, ChainBegins
<1>8. Tail(ChainFrom(v.fat, Log)) = p
  BY <1>1, <1>5, <1>7
<1>9. v.fat[Log] = TAIL <=> p = <<>>
  <2>1. p # <<>> => p[1] \in Cluster
    <3>1. p # <<>> => Len(p) # 0 /\ Len(p) \in Nat
      OBVIOUS
    <3>2. QED BY <3>1
  <2>2. QED BY <2>1, RfsAssumption DEF HeadOr
<1>10. QED BY <1>8, <1>9

\* The chains of the entries alone.
Ending(C) == [s \in Slot |-> C[s]]

LEMMA OrphanStrung ==
  ASSUME NEW b \in Volume, NEW C \in Chains, SoundBy(b, C), NEW d, d = OrphanPlace,
         NEW U, U = Ending(C)
  PROVE  /\ Strung(b, d, C[None], <<>>, <<>>, U)
         /\ Aside(d, C[None]) /\ CutTo(d, C, U)
<1> DEFINE cs == C[None]
           g == CutFat(b, d)
<1>1. /\ d \in Places /\ d.prev = Log /\ d.succ = TAIL /\ d.trunc = TRUE /\ d.slot = None
      /\ SourceSpots(d) = {<<"fat", Log>>} /\ CutSpots(d) = {<<"fat", Log>>}
  BY OrphanPlaceIs
<1>2. \A s \in Slot : s \in Slot \cup {None} /\ s # None /\ U[s] = C[s]
  BY RfsAssumption DEF Ending
<1>3. cs \in Seq(Cluster) /\ \A s \in Slot : U[s] \in Seq(Cluster)
  BY <1>2 DEF Chains
<1>4. U \in [Slot -> Seq(Cluster)]
  <2>1. U = [s \in Slot |-> U[s]]
    BY <1>2 DEF Ending
  <2>2. QED BY <1>3, <2>1
<1>5. \A s \in Slot : CutStart(b, d, s) = b.start[s]
  BY <1>1 DEF CutStart
<1>6. \A x \in FatIndex : g[x] = IF x = Log THEN TAIL ELSE b.fat[x]
  BY <1>1 DEF CutFat
<1>7. Cluster \subseteq FatIndex /\ Log \in FatIndex /\ Log \notin Cluster
  BY ConstantFacts, RfsAssumption
<1> HIDE DEF g, cs
<1>8. ASSUME NEW p \in Seq(Cluster), Trail(b.fat, p, TAIL)
      PROVE  Trail(g, p, TAIL)
  <2>1. ToSet(p) \subseteq Cluster
    BY SetIs
  <2>2. SameOn(b.fat, g, ToSet(p))
    BY <1>6, <1>7, <2>1 DEF SameOn
  <2>3. QED BY <1>8, <2>2, TrailSame
<1>9. /\ Trail(b.fat, cs, TAIL) /\ Once(cs)
      /\ \A s \in Slot : Trail(b.fat, U[s], TAIL) /\ Once(U[s])
  BY <1>2 DEF SoundBy, cs
<1>10. Apart3(<<>>, cs, <<>>)
  BY <1>9, TrailNone DEF Apart3
<1>11. \E e : Trail(g, <<Log>> \o <<>>, e)
  <2>1. <<Log>> \o <<>> = <<Log>>
    OBVIOUS
  <2>2. Trail(g, <<Log>>, g[Log])
    BY TrailOne
  <2>3. QED BY <2>1, <2>2
<1>12. d.prev = (<<Log>> \o <<>>)[Len(<<Log>> \o <<>>)] /\ d.succ = HeadOr(<<>>, TAIL)
  <2>1. <<Log>> \o <<>> = <<Log>> /\ Len(<<Log>>) = 1 /\ <<Log>>[1] = Log
    OBVIOUS
  <2>2. QED BY <1>1, <2>1 DEF HeadOr
<1>13. \A s \in Slot : /\ Trail(g, U[s], TAIL) /\ Once(U[s])
                       /\ IF b.live[s] THEN CutStart(b, d, s) = HeadOr(U[s], TAIL) ELSE U[s] = <<>>
                       /\ ToSet(U[s]) \cap ToSet(<<>>) = {} /\ ToSet(U[s]) \cap ToSet(cs) = {}
                       /\ ToSet(U[s]) \cap ToSet(<<>>) = {}
  <2>1. ASSUME NEW s \in Slot
        PROVE  /\ Trail(g, U[s], TAIL) /\ Once(U[s])
               /\ IF b.live[s] THEN CutStart(b, d, s) = HeadOr(U[s], TAIL) ELSE U[s] = <<>>
    <3>1. IF b.live[s] THEN b.start[s] = HeadOr(U[s], TAIL) ELSE U[s] = <<>>
      BY <1>2 DEF SoundBy
    <3>2. QED BY <1>3, <1>5, <1>8, <1>9, <3>1
  <2>2. \A s \in Slot : ToSet(U[s]) \cap ToSet(cs) = {}
    BY <1>2 DEF SoundBy, cs
  <2>3. QED BY <2>1, <2>2, TrailNone
<1>14. \A s, t \in Slot : s # t => ToSet(U[s]) \cap ToSet(U[t]) = {}
  BY <1>2 DEF SoundBy
<1>15. \A c \in Cluster : g[c] # FREE =>
         c \in ToSet(<<>>) \/ c \in ToSet(cs) \/ c \in ToSet(<<>>) \/ \E s \in Slot : c \in ToSet(U[s])
  <2>1. ASSUME NEW c \in Cluster, g[c] # FREE
        PROVE  c \in ToSet(cs) \/ \E s \in Slot : c \in ToSet(U[s])
    <3>1. b.fat[c] # FREE
      BY <1>6, <1>7, <2>1
    <3>2. PICK x \in Slot \cup {None} : c \in ToSet(C[x])
      BY <3>1 DEF SoundBy
    <3>3. QED BY <1>2, <3>2 DEF cs
  <2>2. QED BY <2>1
<1>16. Strung(b, d, cs, <<>>, <<>>, U)
  <2>1. <<>> \in Seq(Cluster)
    OBVIOUS
  <2>2. Trail(g, cs, d.succ) /\ Trail(g, <<>>, TAIL)
    BY <1>1, <1>3, <1>8, <1>9, TrailNone
  <2>3. QED BY <1>4, <1>10, <1>11, <1>12, <1>13, <1>14, <1>15, <2>1, <2>2 DEF Strung, g
<1>17. Aside(d, cs)
  <2>1. ToSet(cs) \subseteq Cluster
    BY <1>3, SetIs
  <2>2. <<"fat", Log>> \notin Freed(ToSet(cs))
    BY <1>7, <2>1, SpotNames
  <2>3. QED BY <1>1, <2>2 DEF Aside
<1>18. CutTo(d, C, U)
  BY <1>1, <1>2 DEF CutTo
<1>19. QED BY <1>16, <1>17, <1>18 DEF cs
\* A volume that agrees with a sound one where it tells the files is sound too.
LEMMA AgreeSound ==
  ASSUME NEW v \in Volume, NEW b \in Volume, NEW C \in Chains, SoundBy(b, C), Agree(v, b, {})
  PROVE  /\ SoundBy(v, C) /\ View(v) = View(b)
         /\ \A c \in FatIndex : v.fat[c] = b.fat[c]
         /\ \A s \in Slot : v.live[s] = b.live[s]
<1>1. /\ \A c \in FatIndex : v.fat[c] = b.fat[c]
      /\ \A s \in Slot : v.live[s] = b.live[s]
      /\ \A s \in Slot : b.live[s] => v.start[s] = b.start[s]
  BY AgreeIs
<1>2. v.fat = b.fat /\ v.live = b.live
  <2>1. v.fat \in FatMap /\ b.fat \in FatMap /\ v.live \in [Slot -> BOOLEAN] /\ b.live \in [Slot -> BOOLEAN]
    BY VolumeFields
  <2>2. QED BY <1>1, <2>1 DEF FatMap
<1>3. \A s \in Slot : IF v.live[s] THEN v.start[s] = HeadOr(C[s], TAIL) ELSE C[s] = <<>>
  BY <1>1 DEF SoundBy
<1>4. SoundBy(v, C)
  BY <1>2, <1>3 DEF SoundBy
<1>5. View(v) = [s \in {t \in Slot : v.live[t]} |-> C[s]]
  BY <1>4, ViewIs
<1>6. View(b) = [s \in {t \in Slot : b.live[t]} |-> C[s]]
  BY ViewIs
<1>7. QED BY <1>1, <1>2, <1>4, <1>5, <1>6

\* Freeing what hangs behind the log file leaves the chains of the entries.
Hangless(C) == [x \in Slot \cup {None} |-> IF x = None THEN <<>> ELSE C[x]]
LEMMA HanglessSound ==
  ASSUME NEW b \in Volume, NEW C \in Chains, SoundBy(b, C), NEW v \in Volume,
         v.fat = Put(FreedFat(b.fat, ToSet(C[None])), Log, TAIL), v.live = b.live,
         \A s \in Slot : b.live[s] => v.start[s] = b.start[s],
         NEW D, D = Hangless(C)
  PROVE  /\ D \in Chains /\ SoundBy(v, D) /\ View(v) = View(b) /\ v.fat[Log] = TAIL
<1>1. D[None] = <<>> /\ \A s \in Slot : s # None /\ s \in Slot \cup {None} /\ D[s] = C[s]
  BY RfsAssumption DEF Hangless
<1>2. D \in Chains
  <2>1. \A x \in Slot \cup {None} : C[x] \in Seq(Cluster)
    BY DEF Chains
  <2>2. <<>> \in Seq(Cluster)
    OBVIOUS
  <2>3. \A x \in Slot \cup {None} : IF x = None THEN D[x] = <<>> ELSE D[x] = C[x]
    BY <1>1
  <2>4. \A x \in Slot \cup {None} : D[x] \in Seq(Cluster)
    BY <2>1, <2>2, <2>3
  <2>5. QED BY <2>4 DEF Chains, Hangless
<1>3. Cluster \subseteq FatIndex /\ Log \in FatIndex /\ Log \notin Cluster
  BY ConstantFacts, RfsAssumption
<1>4. \A x \in FatIndex : v.fat[x] = IF x = Log THEN TAIL ELSE IF x \in ToSet(C[None]) THEN FREE ELSE b.fat[x]
  BY <1>3 DEF Put, FreedFat
<1>5. \A s \in Slot : C[s] \in Seq(Cluster) /\ Trail(b.fat, C[s], TAIL) /\ Once(C[s])
                      /\ ToSet(C[s]) \cap ToSet(C[None]) = {}
  BY <1>1 DEF SoundBy, Chains
<1>6. ASSUME NEW s \in Slot PROVE Trail(v.fat, D[s], TAIL) /\ Once(D[s])
  <2>1. ToSet(C[s]) \subseteq Cluster
    BY <1>5, SetIs
  <2>2. SameOn(b.fat, v.fat, ToSet(C[s]))
    BY <1>3, <1>4, <1>5, <2>1 DEF SameOn
  <2>3. Trail(v.fat, C[s], TAIL)
    BY <1>5, <2>2, TrailSame
  <2>4. QED BY <1>1, <1>5, <2>3
<1>7. Trail(v.fat, D[None], TAIL) /\ Once(D[None]) /\ ToSet(D[None]) = {} /\ HeadOr(D[None], TAIL) = TAIL
  BY <1>1, TrailNone
<1>8. \A x \in Slot \cup {None} : Trail(v.fat, D[x], TAIL) /\ Once(D[x])
  BY <1>6, <1>7
<1>9. \A x, y \in Slot \cup {None} : x # y => ToSet(D[x]) \cap ToSet(D[y]) = {}
  <2>1. \A s, t \in Slot : s # t => ToSet(D[s]) \cap ToSet(D[t]) = {}
    BY <1>1 DEF SoundBy
  <2>2. QED BY <1>7, <2>1
<1>10. \A s \in Slot : IF v.live[s] THEN v.start[s] = HeadOr(D[s], TAIL) ELSE D[s] = <<>>
  BY <1>1 DEF SoundBy
<1>11. v.fat[Log] = TAIL
  BY <1>3, <1>4
<1>12. \A c \in Cluster : v.fat[c] # FREE => \E x \in Slot \cup {None} : c \in ToSet(D[x])
  <2>1. ASSUME NEW c \in Cluster, v.fat[c] # FREE PROVE \E x \in Slot \cup {None} : c \in ToSet(D[x])
    <3>1. c \in FatIndex /\ c # Log
      BY <1>3
    <3>2. c \notin ToSet(C[None]) /\ b.fat[c] # FREE
      BY <1>4, <2>1, <3>1
    <3>3. PICK x \in Slot \cup {None} : c \in ToSet(C[x])
      BY <3>2 DEF SoundBy
    <3>4. QED BY <1>1, <3>2, <3>3
  <2>2. QED BY <2>1
<1>13. SoundBy(v, D)
  BY <1>7, <1>8, <1>9, <1>10, <1>11, <1>12 DEF SoundBy
<1>14. View(v) = [s \in {t \in Slot : v.live[t]} |-> D[s]]
  BY <1>2, <1>13, ViewIs
<1>15. View(b) = [s \in {t \in Slot : b.live[t]} |-> C[s]]
  BY ViewIs
<1>16. View(v) = View(b)
  BY <1>1, <1>14, <1>15
<1>17. QED BY <1>2, <1>11, <1>13, <1>16
\* The volume of a point where no record is in the log is its base.
LEMMA BareBase ==
  ASSUME NEW c, Sane(c), c.mask = {}
  PROVE  /\ c.vol \in Volume /\ c.base \in Volume /\ Agree(c.vol, c.base, {}) /\ Sound(c.base)
         /\ c.vol.fat = c.base.fat /\ c.vol.live = c.base.live
         /\ \A s \in Slot : c.base.live[s] => c.vol.start[s] = c.base.start[s]
         /\ \A s \in Slot : c.base.live[s] => s \in c.fixed
<1>1. c.vol \in Volume /\ c.base \in Volume /\ Agree(c.vol, c.base, {}) /\ Sound(c.base)
  BY DEF Sane
<1>2. /\ \A x \in FatIndex : c.vol.fat[x] = c.base.fat[x]
      /\ \A s \in Slot : c.vol.live[s] = c.base.live[s]
      /\ \A s \in Slot : c.base.live[s] => c.vol.start[s] = c.base.start[s]
  BY <1>1, AgreeIs
<1>3. /\ c.vol.fat \in FatMap /\ c.base.fat \in FatMap
      /\ c.vol.live \in [Slot -> BOOLEAN] /\ c.base.live \in [Slot -> BOOLEAN]
  BY <1>1, VolumeFields
<1>4. c.vol.fat = c.base.fat /\ c.vol.live = c.base.live
  BY <1>2, <1>3 DEF FatMap
<1>5. \A s \in Slot : c.base.live[s] => s \in c.fixed
  BY DEF Sane
<1>6. QED BY <1>1, <1>2, <1>4, <1>5

OrphanEnd == <<Fat(Log, TAIL), Flush, Mark(NoRam)>>
LEMMA OrphanStepsAre ==
  ASSUME NEW w, w.fat \in FatMap, NEW cs \in Seq(Cluster), Trail(w.fat, cs, TAIL), Once(cs),
         w.fat[Log] = HeadOr(cs, TAIL)
  PROVE  /\ cs = <<>> => OrphanSteps(w) = <<>>
         /\ cs # <<>> => OrphanSteps(w) = FreeChain(OrphanPlace, cs) \o OrphanEnd
<1>1. Tail(ChainFrom(w.fat, Log)) = cs /\ (w.fat[Log] = TAIL <=> cs = <<>>)
  BY LogChain
<1>2. QED BY <1>1 DEF OrphanSteps, OrphanPlace, OrphanEnd

\* What hangs behind the log file is freed.
OrphanDone(c, C, e) ==
  /\ Sane(e) /\ e.log = <<>> /\ e.ram = NoRam /\ e.mask = {} /\ e.vol.fat[Log] = TAIL
  /\ Hangless(C) \in Chains /\ SoundBy(e.vol, Hangless(C)) /\ View(e.vol) = View(c.base)
Bare(c) == Sane(c) /\ c.log = <<>> /\ c.mask = {} /\ c.ram = NoRam
LEMMA OrphanNone ==
  ASSUME NEW c, Bare(c), NEW C \in Chains, SoundBy(c.base, C), C[None] = <<>>
  PROVE  OrphanDone(c, C, c)
<1>1. c.vol \in Volume /\ c.base \in Volume /\ Agree(c.vol, c.base, {})
  BY BareBase DEF Bare
<1>2. SoundBy(c.vol, C) /\ View(c.vol) = View(c.base)
  BY <1>1, AgreeSound
<1>3. C \in [Slot \cup {None} -> Seq(Cluster)]
  BY DEF Chains
<1>4. C = [x \in Slot \cup {None} |-> C[x]]
  BY <1>3
<1>5. \A x \in Slot \cup {None} : (IF x = None THEN <<>> ELSE C[x]) = C[x]
  OBVIOUS
<1>6. Hangless(C) = C
  BY <1>4, <1>5 DEF Hangless
<1>7. c.vol.fat[Log] = TAIL
  BY <1>2 DEF SoundBy, HeadOr
<1>8. QED BY <1>2, <1>6, <1>7 DEF OrphanDone, Bare

LEMMA NoOwner ==
  ASSUME NEW c, c.ram = NoRam
  PROVE  OwnersFixed(c) /\ \A f \in File, s \in Slot : ~Owns(c.ram.ino, f, s)
<1>1. \A f \in File : c.ram.ino[f].st = "none"
  BY NoRamType
<1>2. \A f \in File, s \in Slot : ~Owns(c.ram.ino, f, s)
  BY <1>1 DEF Owns
<1>3. QED BY <1>2 DEF OwnersFixed

\* The chain, freed, and what ends the mount's transaction.
LEMMA OrphanFrees ==
  ASSUME NEW c, Bare(c), NEW C \in Chains, SoundBy(c.base, C), C[None] # <<>>
  PROVE  \E e : DoneTo(c, c.base, OrphanPlace, C[None], Len(C[None]), e)
                /\ Goes(c, FreeChain(OrphanPlace, C[None]), e)
<1> DEFINE b == c.base
<1> DEFINE cs == C[None]
<1> DEFINE U == Ending(C)
<1> DEFINE d == OrphanPlace
<1>1. Sane(c) /\ b \in Volume /\ cs \in Seq(Cluster) /\ cs # <<>> /\ d \in Places
  BY OrphanPlaceIs DEF Bare, Sane, Chains
<1>2. SoundBy(b, C)
  OBVIOUS
<1>3. /\ Strung(b, d, cs, <<>>, <<>>, U)
      /\ Aside(d, cs) /\ CutTo(d, C, U)
  BY <1>1, <1>2, OrphanStrung
<1>4. AtGroup(c, b, d, cs, 0)
  BY DEF AtGroup, Bare, NoGroup, Base, Mask
<1>5. OwnersFixed(c)
  BY NoOwner DEF Bare
<1> HIDE DEF b, cs, U, d
<1>6. Deallocates(b, d, cs)
  BY <1>1, <1>2, <1>3, DeallocatesBy
<1>7. \E e : DoneTo(c, b, d, cs, Len(cs), e) /\ Goes(c, FreeChain(d, cs), e)
  BY <1>1, <1>4, <1>5, <1>6, ChainGoes
<1>8. QED BY <1>7 DEF b, cs, d

LEMMA OrphanMarks ==
  ASSUME NEW c, Bare(c), NEW C \in Chains, SoundBy(c.base, C), C[None] # <<>>,
         NEW e, DoneTo(c, c.base, OrphanPlace, C[None], Len(C[None]), e)
  PROVE  \E o : OrphanDone(c, C, o) /\ Goes(e, OrphanEnd, o)
<1>1. C[None] \in Seq(Cluster)
  BY DEF Chains
<1>2. Len(C[None]) # 0 /\ Taken(C[None], Len(C[None])) = ToSet(C[None])
  <2>1. Taken(C[None], Len(C[None])) = ToSet(C[None])
    BY <1>1, TakenAll
  <2>2. Len(C[None]) # 0
    BY <1>1, EmptySeq
  <2>3. QED BY <2>1, <2>2
<1>3. /\ Sane(e) /\ e.ram = c.ram /\ e.fixed = c.fixed /\ e.vol.live = c.vol.live
      /\ e.vol.start = c.vol.start /\ e.vol.fat = FreedFat(c.vol.fat, ToSet(C[None]))
      /\ SourceSpots(OrphanPlace) \subseteq e.mask /\ e.log # <<>>
  BY <1>2 DEF DoneTo
<1>4. <<"fat", Log>> \in e.mask
  BY <1>3, OrphanPlaceIs
<1>5. Log \in FatIndex /\ TAIL \in FatVal
  BY DEF FatIndex, FatVal
<1>6. PICK e1 : /\ Sane(e1) /\ Goes(e, <<Fat(Log, TAIL)>>, e1)
                /\ e1.log = e.log /\ e1.ram = e.ram /\ e1.base = e.base /\ e1.mask = e.mask
                /\ e1.fixed = e.fixed /\ e1.vol.fat = Put(e.vol.fat, Log, TAIL)
                /\ e1.vol.live = e.vol.live /\ e1.vol.start = e.vol.start
  BY <1>3, <1>4, <1>5, FatGoes
<1> DEFINE e2 == Point(e1.vol, e1.log, e1.ram, e1.base, e1.mask, e1.fixed, TRUE)
<1>7. e1.ram = NoRam
  BY <1>3, <1>6 DEF Bare
<1>8. \A f \in File, s \in Slot : Owns(e1.ram.ino, f, s) => s \in e1.fixed
  BY <1>7, NoOwner
<1>9. Sane(e2) /\ Reach(e1, <<Flush>>, e2)
  BY <1>6, <1>8, FlushReach
<1>10. /\ e2.vol = e1.vol /\ e2.log = e.log /\ e2.ram = NoRam /\ e2.fixed = c.fixed /\ e2.clean = TRUE
  BY <1>3, <1>6, <1>7 DEF Point
<1> HIDE DEF e2
<1>11. /\ c.vol \in Volume /\ c.base \in Volume /\ c.vol.fat = c.base.fat /\ c.vol.live = c.base.live
       /\ \A s \in Slot : c.base.live[s] => c.vol.start[s] = c.base.start[s]
       /\ \A s \in Slot : c.base.live[s] => s \in c.fixed
  BY BareBase DEF Bare
<1>12. /\ e2.vol.fat = Put(FreedFat(c.base.fat, ToSet(C[None])), Log, TAIL)
       /\ e2.vol.live = c.base.live
       /\ \A s \in Slot : c.base.live[s] => e2.vol.start[s] = c.base.start[s]
       /\ e2.vol \in Volume
  BY <1>3, <1>6, <1>9, <1>10, <1>11 DEF Sane
<1> DEFINE D == Hangless(C)
<1>13. D = Hangless(C)
  OBVIOUS
<1> HIDE DEF D
<1>14. /\ D \in Chains /\ SoundBy(e2.vol, D) /\ View(e2.vol) = View(c.base) /\ e2.vol.fat[Log] = TAIL
  BY <1>11, <1>12, <1>13, HanglessSound
<1>15. Sound(e2.vol)
  BY <1>14 DEF Sound
<1>16. \A s \in Slot : e2.vol.live[s] => s \in e2.fixed
  BY <1>10, <1>11, <1>12
<1> DEFINE q == NoRam
<1>17. q \in Rams /\ q.ino = e2.ram.ino
  BY <1>10, NoRamType
<1> HIDE DEF q
<1> DEFINE o == Point(e2.vol, <<>>, q, e2.vol, {}, e2.fixed, FALSE)
<1>18. Sane(o) /\ Reach(e2, <<Mark(q)>>, o)
  BY <1>3, <1>9, <1>10, <1>15, <1>16, <1>17, MarkReach
<1>19. o.vol = e2.vol /\ o.log = <<>> /\ o.ram = q /\ o.mask = {}
  BY DEF Point
<1> HIDE DEF o
<1>20. OrphanDone(c, C, o)
  BY <1>13, <1>14, <1>18, <1>19 DEF OrphanDone, q
<1>21. Flush \in StepSet /\ Mark(q) \in StepSet
  <2>1. Flush \in FlushSteps /\ Mark(q) \in RamSteps(Rams)
    BY <1>17, StepTypes
  <2>2. QED BY <2>1 DEF StepSet, DataSteps
<1>22. Goes(e1, <<Flush>>, e2) /\ Goes(e2, <<Mark(q)>>, o)
  <2>1. <<Flush>> \in Seq(StepSet) /\ <<Mark(q)>> \in Seq(StepSet)
    BY <1>21, OneType
  <2>2. QED BY <2>1, <1>9, <1>18 DEF Goes
<1>23. Goes(e1, <<Flush>> \o <<Mark(q)>>, o)
  BY <1>22, GoesConcat
<1>24. Goes(e1, <<Flush, Mark(q)>>, o)
  <2>1. <<Flush, Mark(q)>> = <<Flush>> \o <<Mark(q)>>
    BY <1>21, TwoSplit
  <2>2. QED BY <2>1, <1>23
<1>25. Goes(e, <<Fat(Log, TAIL)>> \o <<Flush, Mark(q)>>, o)
  BY <1>6, <1>24, GoesConcat
<1>26. OrphanEnd = <<Fat(Log, TAIL)>> \o <<Flush, Mark(q)>>
  BY ThreeSplit DEF OrphanEnd, q
<1>27. QED BY <1>20, <1>25, <1>26

\* rfs_fill_inode on the log file
LEMMA OrphanGoes ==
  ASSUME NEW c, Bare(c), NEW C \in Chains, SoundBy(c.base, C), NEW w, w.fat = c.vol.fat
  PROVE  \E e : OrphanDone(c, C, e) /\ Goes(c, OrphanSteps(w), e)
<1>1. c.vol \in Volume /\ c.vol.fat = c.base.fat /\ Sane(c)
  BY BareBase DEF Bare
<1>2. c.vol.fat \in FatMap
  BY <1>1, VolumeFields
<1>3. /\ C[None] \in Seq(Cluster) /\ Trail(w.fat, C[None], TAIL) /\ Once(C[None])
      /\ w.fat[Log] = HeadOr(C[None], TAIL)
  BY <1>1 DEF Chains, SoundBy
<1>4. /\ C[None] = <<>> => OrphanSteps(w) = <<>>
      /\ C[None] # <<>> => OrphanSteps(w) = FreeChain(OrphanPlace, C[None]) \o OrphanEnd
  BY <1>2, <1>3, OrphanStepsAre
<1>5. CASE C[None] = <<>>
  <2>1. OrphanDone(c, C, c)
    BY <1>5, OrphanNone
  <2>2. Goes(c, <<>>, c)
    BY <1>1, GoesNone
  <2>3. QED BY <1>4, <1>5, <2>1, <2>2
<1>6. CASE C[None] # <<>>
  <2>1. PICK e1 : DoneTo(c, c.base, OrphanPlace, C[None], Len(C[None]), e1)
                  /\ Goes(c, FreeChain(OrphanPlace, C[None]), e1)
    BY <1>6, OrphanFrees
  <2>2. PICK o : OrphanDone(c, C, o) /\ Goes(e1, OrphanEnd, o)
    BY <1>6, <2>1, OrphanMarks
  <2>3. Goes(c, FreeChain(OrphanPlace, C[None]) \o OrphanEnd, o)
    BY <2>1, <2>2, GoesConcat
  <2>4. QED BY <1>4, <1>6, <2>2, <2>3
<1>7. QED BY <1>5, <1>6
\* A device and a log from which a mount makes the volume b.
Recovering(d, l, b, m) ==
  /\ d \in Volume /\ l \in Seq(RecSet) /\ b \in Volume /\ Sound(b)
  /\ Agree(d, b, m) /\ Restores(l, b, m)
Mounting(d, l, b, m) == Point(d, l, NoRam, b, m, Slot, FALSE)
Replayed(d, l) == ApplyAll(d, ReplaySteps(l))
LEMMA RecoverPoint ==
  ASSUME NEW d, NEW l, NEW b, NEW m, Recovering(d, l, b, m),
         NEW c, c = Mounting(d, l, b, m)
  PROVE  Sane(c)
<1>1. /\ c.vol = d /\ c.log = l /\ c.ram = NoRam /\ c.base = b /\ c.mask = m /\ c.fixed = Slot /\ c.clean = FALSE
  BY DEF Point, Mounting
<1>2. \A f \in File, s \in Slot : ~Owns(c.ram.ino, f, s)
  BY <1>1, NoOwner
<1>3. NoRam \in Rams
  BY NoRamType
<1>4. QED BY <1>1, <1>2, <1>3 DEF Sane, Recovering

BareAt(c, v, b) ==
  Bare(c) /\ v \in Volume /\ Agree(v, b, {}) /\ c.base = b /\ c.vol = v
ReplayedAt(c, d, l, b, e) ==
  /\ Sane(e) /\ Goes(c, ReplaySteps(l), e) /\ e.vol = Replayed(d, l)
  /\ e.log = l /\ e.ram = NoRam /\ Slot \subseteq e.fixed /\ e.base = b
\* What the replay leaves needs no log any more.
LEMMA RecoveredBare ==
  ASSUME NEW d, NEW l, NEW b, NEW m, Recovering(d, l, b, m), NEW v, v = Replayed(d, l),
         NEW c, c = Mounting(v, <<>>, b, {})
  PROVE  BareAt(c, v, b)
<1>1. d \in Volume /\ l \in Seq(RecSet) /\ b \in Volume /\ Sound(b) /\ Agree(d, b, m) /\ Restores(l, b, m)
  BY DEF Recovering
<1>2. Agree(v, b, {})
  BY <1>1 DEF Restores, Replayed
<1>3. v \in Volume
  BY <1>1, ReplayStepsType, EditAll DEF Replayed
<1>4. Restores(<<>>, b, {})
  BY <1>1, RestoresNone
<1>5. <<>> \in Seq(RecSet)
  OBVIOUS
<1>6. Recovering(v, <<>>, b, {})
  BY <1>1, <1>2, <1>3, <1>4, <1>5 DEF Recovering
<1>7. Sane(c)
  BY <1>6, RecoverPoint
<1>8. QED BY <1>2, <1>3, <1>7 DEF Bare, Point, Mounting, BareAt

\* The steps of the replay.
LEMMA ReplayGoes ==
  ASSUME NEW d, NEW l, NEW b, NEW m, Recovering(d, l, b, m),
         NEW c, c = Mounting(d, l, b, m)
  PROVE  \E e : ReplayedAt(c, d, l, b, e)
<1>1. /\ c.vol = d /\ c.log = l /\ c.ram = NoRam /\ c.base = b /\ c.mask = m /\ c.fixed = Slot
  BY DEF Point, Mounting
<1>2. Sane(c)
  BY RecoverPoint
<1> DEFINE t == ReplaySteps(l)
<1>3. t \in Seq(Edits) /\ SpotsOf(t) \cap Held(b) \subseteq m
  BY ReplayStepsType DEF Recovering, Restores
<1>4. Puts(c, t)
  <2>1. ASSUME NEW i \in 1..Len(t) PROVE Lets(c, t[i])
    <3>1. Spot(t[i]) \in SpotsOf(t)
      BY DEF SpotsOf
    <3>2. Spot(t[i]) \notin Held(b) \ m
      BY <1>3, <3>1
    <3>3. QED BY <1>1, <3>2 DEF Lets
  <2>2. QED BY <2>1 DEF Puts
<1>5. AllSuit(c, t)
  <2>1. \A f \in File, s \in Slot : ~Owns(c.ram.ino, f, s)
    BY <1>1, NoOwner
  <2>2. \A f \in File : \A s : ~Owns(c.ram.ino, f, s)
    BY <1>1, NoRamType DEF Owns
  <2>3. QED BY <2>2 DEF AllSuit, Suits
<1>6. t = <<>> \/ t # <<>>
  OBVIOUS
<1>7. CASE t = <<>>
  <2>1. Goes(c, <<>>, c)
    BY <1>2, GoesNone
  <2>2. ApplyAll(d, <<>>) = d
    BY ApplyNone DEF Recovering
  <2>3. QED BY <1>1, <1>2, <1>7, <2>1, <2>2 DEF ReplayedAt, Replayed
<1>8. CASE t # <<>>
  <2> HIDE DEF t
  <2>1. Sane(Edited(c, t)) /\ Goes(c, t, Edited(c, t))
    BY <1>2, <1>3, <1>4, <1>5, <1>8, GoesEdits
  <2>2. /\ Edited(c, t).vol = ApplyAll(d, t) /\ Edited(c, t).log = l /\ Edited(c, t).ram = NoRam
        /\ Edited(c, t).base = b /\ Slot \subseteq Edited(c, t).fixed
    <3>1. /\ Edited(c, t).vol = ApplyAll(c.vol, t) /\ Edited(c, t).log = c.log
          /\ Edited(c, t).ram = c.ram /\ Edited(c, t).base = c.base
          /\ Edited(c, t).fixed = c.fixed \cup Starts(t)
      BY EditedPoint
    <3>2. QED BY <1>1, <3>1
  <2>3. QED BY <2>1, <2>2 DEF t, ReplayedAt, Replayed
<1>9. QED BY <1>6, <1>7, <1>8

\* __log_replay, its flush and its mark.
MountEnd == <<Flush, Mark(NoRam)>>
LEMMA MountMarks ==
  ASSUME NEW e, Sane(e), e.log # <<>>, e.ram = NoRam, Slot \subseteq e.fixed, Sound(e.vol)
  PROVE  \E o : Bare(o) /\ Goes(e, MountEnd, o) /\ o.base = e.vol
<1> DEFINE e2 == Point(e.vol, e.log, e.ram, e.base, e.mask, e.fixed, TRUE)
<1>1. \A f \in File, s \in Slot : Owns(e.ram.ino, f, s) => s \in e.fixed
  BY NoOwner
<1>2. Sane(e2) /\ Reach(e, <<Flush>>, e2)
  BY <1>1, FlushReach
<1>3. /\ e2.vol = e.vol /\ e2.log = e.log /\ e2.ram = NoRam /\ e2.fixed = e.fixed /\ e2.clean = TRUE
  BY DEF Point, Mounting
<1> HIDE DEF e2
<1>4. \A s \in Slot : e2.vol.live[s] => s \in e2.fixed
  BY <1>3
<1>5. Sound(e2.vol)
  BY <1>3
<1> DEFINE q == NoRam
<1>6. q \in Rams /\ q.ino = e2.ram.ino
  BY <1>3, NoRamType
<1> HIDE DEF q
<1> DEFINE o == Point(e2.vol, <<>>, q, e2.vol, {}, e2.fixed, FALSE)
<1>7. Sane(o) /\ Reach(e2, <<Mark(q)>>, o)
  BY <1>2, <1>3, <1>4, <1>5, <1>6, MarkReach
<1>8. o.base = e2.vol /\ o.log = <<>> /\ o.ram = q /\ o.mask = {}
  BY DEF Point, Mounting
<1> HIDE DEF o
<1>9. Bare(o)
  BY <1>7, <1>8 DEF Bare, q
<1>10. Flush \in StepSet /\ Mark(q) \in StepSet
  <2>1. Flush \in FlushSteps /\ Mark(q) \in RamSteps(Rams)
    BY <1>6, StepTypes
  <2>2. QED BY <2>1 DEF StepSet, DataSteps
<1>11. Goes(e, <<Flush>>, e2) /\ Goes(e2, <<Mark(q)>>, o)
  <2>1. <<Flush>> \in Seq(StepSet) /\ <<Mark(q)>> \in Seq(StepSet)
    BY <1>10, OneType
  <2>2. QED BY <2>1, <1>2, <1>7 DEF Goes
<1>12. Goes(e, <<Flush>> \o <<Mark(q)>>, o)
  BY <1>11, GoesConcat
<1>13. <<Flush, Mark(q)>> = <<Flush>> \o <<Mark(q)>>
  BY <1>10, TwoSplit
<1>14. Goes(e, MountEnd, o)
  BY <1>12, <1>13 DEF MountEnd, q
<1>15. QED BY <1>3, <1>8, <1>9, <1>14

\* rfs_log_init
ReplayAll(l) == If(l # <<>>, ReplaySteps(l) \o MountEnd)
MountedAt(d, l, b, c, e) ==
  /\ Sane(c) /\ c.vol = d /\ c.log = l /\ c.ram = NoRam /\ c.base = b /\ c.fixed = Slot
  /\ c.clean = FALSE /\ Goes(c, ReplayAll(l), e) /\ Bare(e)
LEMMA MountGoes ==
  ASSUME NEW d, NEW l, NEW b, NEW m, Recovering(d, l, b, m)
  PROVE  \E c, e : MountedAt(d, l, b, c, e)
<1> DEFINE v == Replayed(d, l)
<1> DEFINE c1 == Mounting(v, <<>>, b, {})
<1>7. v = Replayed(d, l)
  OBVIOUS
<1>8. c1 = Mounting(v, <<>>, b, {})
  OBVIOUS
<1> HIDE DEF v, c1
<1>9. BareAt(c1, v, b)
  BY <1>7, <1>8, RecoveredBare
<1>1. Bare(c1) /\ v \in Volume /\ Agree(v, b, {}) /\ c1.base = b /\ c1.vol = v
  BY <1>9 DEF BareAt
<1>2. b \in Volume /\ Sound(b) /\ d \in Volume
  BY DEF Recovering
<1>3. CASE l = <<>>
  <2>1. v = d
    BY <1>2, <1>3, <1>7, RestoresNone, ApplyNone DEF Replayed
  <2>2. /\ c1.log = <<>> /\ c1.ram = NoRam /\ c1.fixed = Slot /\ c1.clean = FALSE
    BY <1>8 DEF Point, Mounting
  <2>3. ReplayAll(l) = <<>>
    BY <1>3 DEF ReplayAll, If
  <2>4. Sane(c1)
    BY <1>1 DEF Bare
  <2>5. Goes(c1, <<>>, c1)
    BY <2>4, GoesNone
  <2>6. QED BY <1>1, <1>3, <2>1, <2>2, <2>3, <2>4, <2>5 DEF MountedAt
<1>4. CASE l # <<>>
  <2> DEFINE c == Mounting(d, l, b, m)
  <2>1. /\ c.vol = d /\ c.log = l /\ c.ram = NoRam /\ c.base = b /\ c.fixed = Slot /\ c.clean = FALSE
    BY DEF Point, Mounting
  <2>9. c = Mounting(d, l, b, m)
    OBVIOUS
  <2> HIDE DEF c
  <2>2. Sane(c)
    BY <2>9, RecoverPoint
  <2>10. PICK e : ReplayedAt(c, d, l, b, e)
    BY <2>9, ReplayGoes
  <2>3. /\ Sane(e) /\ Goes(c, ReplaySteps(l), e) /\ e.vol = Replayed(d, l)
        /\ e.log = l /\ e.ram = NoRam /\ Slot \subseteq e.fixed /\ e.base = b
    BY <2>10 DEF ReplayedAt
  <2>4. Sound(e.vol)
    <3>1. PICK C \in Chains : SoundBy(b, C)
      BY <1>2 DEF Sound
    <3>2. SoundBy(v, C)
      BY <1>1, <1>2, <3>1, AgreeSound
    <3>3. QED BY <1>7, <2>3, <3>2 DEF Sound
  <2>5. PICK o : Bare(o) /\ Goes(e, MountEnd, o) /\ o.base = e.vol
    BY <1>4, <2>3, <2>4, MountMarks
  <2>6. Goes(c, ReplaySteps(l) \o MountEnd, o)
    BY <2>3, <2>5, GoesConcat
  <2>7. ReplayAll(l) = ReplaySteps(l) \o MountEnd
    BY <1>4 DEF ReplayAll, If
  <2>8. QED BY <2>1, <2>2, <2>5, <2>6, <2>7 DEF MountedAt
<1>5. QED BY <1>3, <1>4
-----------------------------------------------------------------------------
(***************************************************************************)
(* What a mount recovers.                                                  *)
(***************************************************************************)
RecoveredAs(w, b, D) ==
  /\ w \in Volume /\ D \in Chains /\ SoundBy(w, D) /\ D[None] = <<>>
  /\ View(w) = View(b) /\ w.fat[Log] = TAIL
LEMMA RecoveredIs ==
  ASSUME NEW d, NEW l, NEW b, NEW m, Recovering(d, l, b, m), NEW w, w = Recovered(d, l)
  PROVE  \E D : RecoveredAs(w, b, D)
<1> DEFINE v == Replayed(d, l)
<1> DEFINE c == Mounting(v, <<>>, b, {})
<1>1. BareAt(c, v, b)
  <2>1. v = Replayed(d, l)
    OBVIOUS
  <2>2. c = Mounting(v, <<>>, b, {})
    OBVIOUS
  <2> HIDE DEF v, c
  <2>3. QED BY <2>1, <2>2, RecoveredBare
<1>2. w = ApplyAll(v, OrphanSteps(v))
  BY DEF Recovered, Replayed
<1> HIDE DEF v, c
<1>3. Bare(c) /\ c.base = b /\ c.vol = v
  BY <1>1 DEF BareAt
<1>4. Sound(b)
  BY DEF Recovering
<1>5. PICK C \in Chains : SoundBy(b, C)
  BY <1>4 DEF Sound
<1>6. SoundBy(c.base, C) /\ v.fat = c.vol.fat
  BY <1>3, <1>5
<1>7. PICK e : OrphanDone(c, C, e) /\ Goes(c, OrphanSteps(v), e)
  BY <1>3, <1>6, OrphanGoes
<1>8. e.vol = ApplyAll(c.vol, OrphanSteps(v))
  BY <1>7, ReachApplies DEF Goes
<1>9. e.vol = w
  BY <1>2, <1>3, <1>8
<1>10. /\ w \in Volume /\ Hangless(C) \in Chains /\ SoundBy(w, Hangless(C)) /\ View(w) = View(b)
       /\ w.fat[Log] = TAIL
  BY <1>3, <1>7, <1>9 DEF OrphanDone, Sane
<1>11. Hangless(C)[None] = <<>>
  BY DEF Hangless
<1>12. RecoveredAs(w, b, Hangless(C))
  BY <1>10, <1>11 DEF RecoveredAs
<1>13. QED BY <1>12

\* What RecoversSound says of a volume and the files in it.
SoundFiles(w, F) ==
  /\ w.fat[Log] = TAIL
  /\ \A s \in DOMAIN F : F[s] # <<>> => w.fat[Last(F[s])] = TAIL /\ IsInjective(F[s])
  /\ \A s, t \in DOMAIN F : s # t => ToSet(F[s]) \cap ToSet(F[t]) = {}
  /\ {c \in Cluster : w.fat[c] # FREE} = UNION {ToSet(F[s]) : s \in DOMAIN F}
LEMMA RecoveredFiles ==
  ASSUME NEW w, NEW b, NEW D, RecoveredAs(w, b, D), NEW F, F = View(b)
  PROVE  SoundFiles(w, F)
<1>1. /\ w \in Volume /\ D \in Chains /\ SoundBy(w, D) /\ D[None] = <<>>
      /\ View(w) = View(b) /\ w.fat[Log] = TAIL
  BY DEF RecoveredAs
<1>2. F = [s \in {t \in Slot : w.live[t]} |-> D[s]]
  BY <1>1, ViewIs
<1> DEFINE L == {t \in Slot : w.live[t]}
<1>3. DOMAIN F = L /\ \A s \in L : F[s] = D[s]
  BY <1>2
<1>4. \A s \in Slot : s \in L <=> w.live[s]
  OBVIOUS
<1>5. L \subseteq Slot
  OBVIOUS
<1> HIDE DEF L
<1>6. \A s \in Slot : D[s] \in Seq(Cluster) /\ Trail(w.fat, D[s], TAIL) /\ Once(D[s])
  BY <1>1 DEF SoundBy, Chains
<1>7. ASSUME NEW s \in DOMAIN F, F[s] # <<>> PROVE w.fat[Last(F[s])] = TAIL /\ IsInjective(F[s])
  <2>1. F[s] = D[s] /\ s \in Slot
    BY <1>3, <1>5
  <2> DEFINE p == D[s]
  <2>2. p \in Seq(Cluster) /\ Trail(w.fat, p, TAIL) /\ Once(p) /\ p # <<>>
    BY <1>6, <1>7, <2>1
  <2> HIDE DEF p
  <2>3. Len(p) \in 1..Len(p) /\ Last(p) = p[Len(p)]
    BY <2>2, EmptySeq, LenProperties DEF Last
  <2>4. w.fat[Last(p)] = TAIL
    BY <2>2, <2>3 DEF Trail
  <2>5. IsInjective(p)
    BY <2>2 DEF Once, IsInjective
  <2>6. QED BY <2>1, <2>4, <2>5 DEF p
<1>8. ASSUME NEW s \in DOMAIN F, NEW t \in DOMAIN F, s # t PROVE ToSet(F[s]) \cap ToSet(F[t]) = {}
  <2>1. F[s] = D[s] /\ F[t] = D[t] /\ s \in Slot /\ t \in Slot
    BY <1>3, <1>5
  <2>2. ToSet(D[s]) \cap ToSet(D[t]) = {}
    BY <1>1, <1>8, <2>1 DEF SoundBy
  <2>3. QED BY <2>1, <2>2
<1>9. {c \in Cluster : w.fat[c] # FREE} = UNION {ToSet(F[s]) : s \in DOMAIN F}
  <2>1. ASSUME NEW c \in Cluster, w.fat[c] # FREE PROVE \E s \in DOMAIN F : c \in ToSet(F[s])
    <3>1. PICK x \in Slot \cup {None} : c \in ToSet(D[x])
      BY <1>1, <2>1 DEF SoundBy
    <3>2. ToSet(<<>>) = {}
      BY TrailNone
    <3>3. x \in Slot
      BY <1>1, <3>1, <3>2
    <3>4. w.live[x]
      BY <1>1, <3>1, <3>2, <3>3 DEF SoundBy
    <3>5. QED BY <1>3, <1>4, <3>1, <3>3, <3>4
  <2>2. ASSUME NEW s \in DOMAIN F, NEW c \in ToSet(F[s]) PROVE c \in Cluster /\ w.fat[c] # FREE
    <3>1. F[s] = D[s] /\ s \in Slot
      BY <1>3, <1>5
    <3>2. D[s] \in Seq(Cluster) /\ Trail(w.fat, D[s], TAIL) /\ c \in ToSet(D[s])
      BY <1>6, <3>1, <2>2
    <3>3. ToSet(D[s]) \subseteq Cluster
      BY <3>2, SetIs
    <3>4. TAIL \in Cluster \cup {TAIL}
      OBVIOUS
    <3>5. \A x \in ToSet(D[s]) : w.fat[x] # FREE
      BY <3>2, <3>4, TrailUsed
    <3>6. QED BY <3>2, <3>3, <3>5
  <2>3. QED BY <2>1, <2>2
<1>10. QED BY <1>1, <1>7, <1>8, <1>9 DEF SoundFiles

\* So the two properties hold where a mount comes to the files.
LEMMA RecoversBy ==
  ASSUME NEW b, NEW m, Recovering(disk, log, b, m), files = View(b)
  PROVE  RecoversCommitted /\ RecoversSound
<1> DEFINE w == Recovered(disk, log)
<1>1. w = Recovered(disk, log)
  OBVIOUS
<1> HIDE DEF w
<1>2. PICK D : RecoveredAs(w, b, D)
  BY <1>1, RecoveredIs
<1>3. View(w) = files
  BY <1>2 DEF RecoveredAs
<1>4. SoundFiles(w, files)
  BY <1>2, RecoveredFiles
<1>5. RecoversCommitted
  BY <1>1, <1>3 DEF RecoversCommitted
<1>6. RecoversSound
  BY <1>1, <1>4 DEF RecoversSound, SoundFiles
<1>7. QED BY <1>5, <1>6
-----------------------------------------------------------------------------
(***************************************************************************)
(* A state of the model and the point in the course of an operation it is  *)
(* at: d is what the device holds, k what the caches show.                 *)
(***************************************************************************)
Shows(c, k) ==
  /\ k \in Volume /\ k.fat = c.vol.fat /\ k.live = c.vol.live
  /\ \A s \in c.fixed : k.start[s] = c.vol.start[s]
Current(c, d, k, l, r, x) ==
  /\ Sane(c) /\ c.log = l /\ c.ram = r /\ x = View(c.base) /\ Shows(c, k)
  /\ d \in Volume /\ Agree(d, c.base, c.mask) /\ (c.clean => d = k)
NextLog(l, s) == CASE s.op = "log" -> Append(l, s.rec) [] s.op = "mark" -> <<>> [] OTHER -> l
CommittedBy(l, l2, k, x) ==
  CASE l2 = l -> x
    [] l2 # l /\ l2 = <<>> -> View(k)
    [] l2 # l /\ l2 # <<>> -> AfterRecord(l2, x)
LEMMA SameView ==
  ASSUME NEW k \in Volume, NEW v \in Volume, k.fat = v.fat, k.live = v.live,
         \A s \in Slot : v.live[s] => k.start[s] = v.start[s]
  PROVE  View(k) = View(v)
<1>1. {t \in Slot : k.live[t]} = {t \in Slot : v.live[t]}
  OBVIOUS
<1>2. \A s \in {t \in Slot : v.live[t]} : Chain(k.fat, k.start[s]) = Chain(v.fat, v.start[s])
  OBVIOUS
<1> DEFINE L == {t \in Slot : v.live[t]}
<1>3. View(k) = [s \in L |-> Chain(k.fat, k.start[s])]
  BY <1>1 DEF View
<1>4. View(v) = [s \in L |-> Chain(v.fat, v.start[s])]
  BY DEF View
<1>5. \A s \in L : Chain(k.fat, k.start[s]) = Chain(v.fat, v.start[s])
  BY <1>2
<1> HIDE DEF L
<1>6. QED BY <1>3, <1>4, <1>5

\* What the caches show agrees with what the volume of the point agrees with.
LEMMA ShowsAgree ==
  ASSUME NEW c, NEW k, Shows(c, k), NEW e, Sane(e), e.vol = c.vol, e.fixed = c.fixed
  PROVE  Agree(k, e.base, e.mask)
<1>1. Agree(e.vol, e.base, e.mask)
  BY DEF Sane
<1>2. \A s \in Slot : e.base.live[s] /\ <<"start", s>> \notin e.mask => s \in c.fixed
  BY DEF Sane
<1>3. /\ \A i \in FatIndex : <<"fat", i>> \notin e.mask => e.vol.fat[i] = e.base.fat[i]
      /\ \A s \in Slot : <<"live", s>> \notin e.mask => e.vol.live[s] = e.base.live[s]
      /\ \A s \in Slot : e.base.live[s] /\ <<"start", s>> \notin e.mask => e.vol.start[s] = e.base.start[s]
  BY <1>1, AgreeIs
<1>4. /\ \A i \in FatIndex : <<"fat", i>> \notin e.mask => k.fat[i] = e.base.fat[i]
      /\ \A s \in Slot : <<"live", s>> \notin e.mask => k.live[s] = e.base.live[s]
      /\ \A s \in Slot : e.base.live[s] /\ <<"start", s>> \notin e.mask => k.start[s] = e.base.start[s]
  BY <1>2, <1>3 DEF Shows
<1>5. QED BY <1>4, AgreeIs

\* A step that changes no place leaves a volume as it is.
LEMMA ApplySame ==
  ASSUME NEW v, NEW s, s.op \notin {"fat", "start", "live"}
  PROVE  Apply(v, s) = v
<1>1. QED BY DEF Apply

LEMMA EditShows ==
  ASSUME NEW c, Sane(c), NEW k, Shows(c, k), NEW s \in Edits, NEW e, EditTo(c, s, e)
  PROVE  Shows(e, Apply(k, s))
<1>1. c.vol \in Volume /\ k \in Volume /\ c.fixed \subseteq Slot
  BY DEF Sane, Shows
<1>2. e.vol = Apply(c.vol, s) /\ e.fixed = (IF s.op = "start" THEN c.fixed \cup {s.at} ELSE c.fixed)
  BY DEF EditTo
<1>3. Apply(k, s) \in Volume
  BY <1>1, EditOne
<1>4. s \in FatSteps \/ s \in StartSteps \/ s \in LiveSteps
  BY DEF Edits
<1>5. CASE s \in FatSteps
  <2>1. s.op = "fat" /\ s.at \in FatIndex /\ s = Fat(s.at, s.val)
    BY <1>5 DEF FatSteps, Fat
  <2> DEFINE i == s.at
  <2> DEFINE y == s.val
  <2>2. i \in FatIndex /\ s = Fat(i, y)
    BY <2>1
  <2> HIDE DEF i, y
  <2>3. \A v \in Volume : /\ Apply(v, Fat(i, y)).fat = [v.fat EXCEPT ![i] = y]
                          /\ Apply(v, Fat(i, y)).live = v.live /\ Apply(v, Fat(i, y)).start = v.start
    BY <2>2, ApplyFields
  <2>8. Apply(k, s).fat = [k.fat EXCEPT ![i] = y] /\ Apply(k, s).live = k.live
    BY <1>1, <2>2, <2>3
  <2>9. e.vol.fat = [c.vol.fat EXCEPT ![i] = y] /\ e.vol.live = c.vol.live
    BY <1>1, <1>2, <2>2, <2>3
  <2>10. k.fat = c.vol.fat /\ k.live = c.vol.live
    BY DEF Shows
  <2>4. Apply(k, s).fat = e.vol.fat /\ Apply(k, s).live = e.vol.live
    BY <2>8, <2>9, <2>10
  <2>5. Apply(k, s).start = k.start /\ e.vol.start = c.vol.start
    BY <1>1, <1>2, <2>2, <2>3
  <2>6. e.fixed = c.fixed
    BY <1>2, <2>1
  <2>7. QED BY <1>3, <2>4, <2>5, <2>6 DEF Shows
<1>6. CASE s \in LiveSteps
  <2>1. s.op = "live" /\ s.at \in Slot /\ s = Live(s.at, s.val)
    BY <1>6 DEF LiveSteps, Live
  <2> DEFINE i == s.at
  <2> DEFINE y == s.val
  <2>2. i \in Slot /\ s = Live(i, y)
    BY <2>1
  <2> HIDE DEF i, y
  <2>3. \A v \in Volume : /\ Apply(v, Live(i, y)).live = [v.live EXCEPT ![i] = y]
                          /\ Apply(v, Live(i, y)).fat = v.fat /\ Apply(v, Live(i, y)).start = v.start
    BY <2>2, ApplyFields
  <2>8. Apply(k, s).live = [k.live EXCEPT ![i] = y] /\ Apply(k, s).fat = k.fat
    BY <1>1, <2>2, <2>3
  <2>9. e.vol.live = [c.vol.live EXCEPT ![i] = y] /\ e.vol.fat = c.vol.fat
    BY <1>1, <1>2, <2>2, <2>3
  <2>10. k.fat = c.vol.fat /\ k.live = c.vol.live
    BY DEF Shows
  <2>4. Apply(k, s).fat = e.vol.fat /\ Apply(k, s).live = e.vol.live
    BY <2>8, <2>9, <2>10
  <2>5. Apply(k, s).start = k.start /\ e.vol.start = c.vol.start
    BY <1>1, <1>2, <2>2, <2>3
  <2>6. e.fixed = c.fixed
    BY <1>2, <2>1
  <2>7. QED BY <1>3, <2>4, <2>5, <2>6 DEF Shows
<1>7. CASE s \in StartSteps
  <2>1. s.op = "start" /\ s.at \in Slot /\ s = Start(s.at, s.val)
    BY <1>7 DEF StartSteps, Start
  <2> DEFINE i == s.at
  <2> DEFINE y == s.val
  <2>2. i \in Slot /\ s = Start(i, y) /\ i = s.at /\ y = s.val
    BY <2>1
  <2> HIDE DEF i, y
  <2>9. \A v \in Volume : /\ Apply(v, Start(i, y)).start = [v.start EXCEPT ![i] = y]
                          /\ Apply(v, Start(i, y)).fat = v.fat /\ Apply(v, Start(i, y)).live = v.live
    BY <2>2, ApplyFields
  <2>3. \A v \in Volume : /\ Apply(v, s).start = [v.start EXCEPT ![s.at] = s.val]
                          /\ Apply(v, s).fat = v.fat /\ Apply(v, s).live = v.live
    BY <2>2, <2>9
  <2>4. \A v \in Volume : \A u \in Slot : Apply(v, s).start[u] = IF u = s.at THEN s.val ELSE v.start[u]
    BY <2>1, <2>3, VolumeFields
  <2>5. e.fixed = c.fixed \cup {s.at}
    BY <1>2, <2>1
  <2>6. \A u \in e.fixed : Apply(k, s).start[u] = e.vol.start[u]
    <3>1. ASSUME NEW u \in e.fixed PROVE Apply(k, s).start[u] = e.vol.start[u]
      <4>1. u \in Slot
        BY <1>1, <2>1, <2>5
      <4>2. Apply(k, s).start[u] = IF u = s.at THEN s.val ELSE k.start[u]
        BY <1>1, <2>4, <4>1
      <4>3. e.vol.start[u] = IF u = s.at THEN s.val ELSE c.vol.start[u]
        BY <1>1, <1>2, <2>4, <4>1
      <4>4. u # s.at => k.start[u] = c.vol.start[u]
        BY <2>5 DEF Shows
      <4>5. QED BY <4>2, <4>3, <4>4
    <3>2. QED BY <3>1
  <2>7. Apply(k, s).fat = e.vol.fat /\ Apply(k, s).live = e.vol.live
    BY <1>1, <1>2, <2>3 DEF Shows
  <2>8. QED BY <1>3, <2>6, <2>7 DEF Shows
<1>8. QED BY <1>4, <1>5, <1>6, <1>7
\* One step of an operation, of a replay or of the release of orphans.
LEMMA StepFlows ==
  ASSUME NEW c, NEW d, NEW k, NEW l, NEW r, NEW x, Current(c, d, k, l, r, x),
         NEW s \in StepSet, NEW e, Sane(e), EditTo(c, s, e) \/ FlushTo(c, s, e) \/ RamTo(c, s, e),
         s.op = "flush" => d = k,
         NEW l2, l2 = NextLog(l, s), NEW r2, r2 = NextRam(r, s), NEW x2, x2 = CommittedBy(l, l2, k, x),
         NEW k2, k2 = Apply(k, s)
  PROVE  Current(e, d, k2, l2, r2, x2)
<1>1. /\ Sane(c) /\ c.log = l /\ c.ram = r /\ x = View(c.base) /\ Shows(c, k)
      /\ d \in Volume /\ Agree(d, c.base, c.mask) /\ (c.clean => d = k) /\ k \in Volume
  BY DEF Current, Shows
<1>2. CASE EditTo(c, s, e)
  <2>1. s \in Edits
    BY <1>2 DEF EditTo
  <2>2. s.op \in {"fat", "start", "live"}
    BY <2>1 DEF Edits, FatSteps, StartSteps, LiveSteps
  <2>3. l2 = l /\ r2 = r
    BY <2>2 DEF NextLog, NextRam
  <2>4. x2 = x
    BY <2>3 DEF CommittedBy
  <2>5. Shows(e, k2)
    BY <1>1, <1>2, <2>1, EditShows
  <2>6. e.log = c.log /\ e.ram = c.ram /\ e.base = c.base /\ e.mask = c.mask /\ e.clean = FALSE
    BY <1>2 DEF EditTo
  <2>7. QED BY <1>1, <2>3, <2>4, <2>5, <2>6 DEF Current
<1>3. CASE FlushTo(c, s, e)
  <2>1. s.op = "flush" /\ d = k
    BY <1>3 DEF FlushTo
  <2>2. k2 = k
    BY <2>1, ApplySame
  <2>3. l2 = l /\ r2 = r
    BY <2>1 DEF NextLog, NextRam
  <2>4. x2 = x
    BY <2>3 DEF CommittedBy
  <2>5. e.vol = c.vol /\ e.log = c.log /\ e.ram = c.ram /\ e.base = c.base /\ e.mask = c.mask /\ e.fixed = c.fixed
    BY <1>3 DEF FlushTo
  <2>6. Shows(e, k2)
    BY <1>1, <2>2, <2>5 DEF Shows
  <2>7. QED BY <1>1, <2>1, <2>2, <2>3, <2>4, <2>5, <2>6 DEF Current
<1>4. CASE RamTo(c, s, e)
  <2>1. s.op = "ram" /\ e.ram = s.ram
    BY <1>4 DEF RamTo
  <2>2. k2 = k
    BY <2>1, ApplySame
  <2>3. l2 = l /\ r2 = e.ram
    BY <2>1 DEF NextLog, NextRam
  <2>4. x2 = x
    BY <2>3 DEF CommittedBy
  <2>5. e.vol = c.vol /\ e.log = c.log /\ e.base = c.base /\ e.mask = c.mask /\ e.fixed \subseteq c.fixed /\ e.clean = FALSE
    BY <1>4 DEF RamTo
  <2>6. Shows(e, k2)
    BY <1>1, <2>2, <2>5 DEF Shows
  <2>7. QED BY <1>1, <2>2, <2>3, <2>4, <2>5, <2>6 DEF Current
<1>5. QED BY <1>2, <1>3, <1>4

LEMMA RecordFlows ==
  ASSUME NEW c, NEW d, NEW k, NEW l \in Seq(RecSet), NEW r, NEW x, Current(c, d, k, l, r, x),
         NEW s \in StepSet, NEW e, Sane(e), LogTo(c, s, e),
         NEW l2, l2 = NextLog(l, s), NEW r2, r2 = NextRam(r, s), NEW x2, x2 = CommittedBy(l, l2, k, x),
         NEW k2, k2 = Apply(k, s)
  PROVE  Current(e, d, k2, l2, r2, x2)
<1>1. /\ Sane(c) /\ c.log = l /\ c.ram = r /\ x = View(c.base) /\ Shows(c, k)
      /\ d \in Volume /\ Agree(d, c.base, c.mask) /\ (c.clean => d = k) /\ k \in Volume
  BY DEF Current, Shows
<1>2. /\ s.op = "log" /\ e.vol = c.vol /\ e.log = Append(c.log, s.rec) /\ e.ram = c.ram
      /\ e.fixed = c.fixed /\ e.clean = FALSE
      /\ View(e.base) = AfterRecord(e.log, View(c.base))
  BY DEF LogTo
<1>3. c.clean \/ \A v \in Volume : Agree(v, c.base, c.mask) => Agree(v, e.base, e.mask)
  BY DEF LogTo
<1>4. k2 = k
  BY <1>2, ApplySame
<1>5. l2 = Append(l, s.rec) /\ r2 = r
  BY <1>2 DEF NextLog, NextRam
<1>6. l2 # l /\ l2 # <<>>
  <2>1. s.rec \in RecSet
    BY <1>2, Kinds
  <2>2. Len(Append(l, s.rec)) = Len(l) + 1 /\ Len(l) \in Nat
    BY <2>1, AppendProperties, LenProperties
  <2>3. Len(l2) # Len(l) /\ Len(l2) # 0
    BY <1>5, <2>2
  <2>4. l2 = <<>> => Len(l2) = 0
    OBVIOUS
  <2>5. QED BY <2>3, <2>4
<1>7. x2 = AfterRecord(l2, x)
  BY <1>6 DEF CommittedBy
<1>8. Shows(e, k2)
  BY <1>1, <1>2, <1>4 DEF Shows
<1>9. Agree(d, e.base, e.mask)
  <2>1. CASE c.clean
    <3>1. Agree(k, e.base, e.mask)
      BY <1>1, <1>2, ShowsAgree
    <3>2. QED BY <1>1, <2>1, <3>1
  <2>2. CASE ~c.clean
    BY <1>1, <1>3, <2>2
  <2>3. QED BY <2>1, <2>2
<1>10. e.log = l2 /\ e.ram = r2 /\ x2 = View(e.base)
  BY <1>1, <1>2, <1>5, <1>7
<1>11. QED BY <1>1, <1>2, <1>8, <1>9, <1>10 DEF Current

LEMMA MarkFlows ==
  ASSUME NEW c, NEW d, NEW k, NEW l \in Seq(RecSet), NEW r, NEW x, Current(c, d, k, l, r, x),
         NEW s \in StepSet, NEW e, Sane(e), MarkTo(c, s, e),
         NEW l2, l2 = NextLog(l, s), NEW r2, r2 = NextRam(r, s), NEW x2, x2 = CommittedBy(l, l2, k, x),
         NEW k2, k2 = Apply(k, s)
  PROVE  Current(e, d, k2, l2, r2, x2)
<1>1. /\ Sane(c) /\ c.log = l /\ c.ram = r /\ x = View(c.base) /\ Shows(c, k)
      /\ d \in Volume /\ Agree(d, c.base, c.mask) /\ (c.clean => d = k) /\ k \in Volume
  BY DEF Current, Shows
<1>2. /\ s.op = "mark" /\ c.clean /\ c.log # <<>>
      /\ e.vol = c.vol /\ e.log = <<>> /\ e.ram = s.ram /\ e.base = c.vol /\ e.mask = {}
      /\ e.fixed = c.fixed /\ e.clean = FALSE
  BY DEF MarkTo
<1>3. \A u \in Slot : c.vol.live[u] => u \in c.fixed
  BY DEF MarkTo
<1>4. k2 = k
  BY <1>2, ApplySame
<1>5. l2 = <<>> /\ r2 = s.ram
  BY <1>2 DEF NextLog, NextRam
<1>6. l2 # l
  BY <1>1, <1>2, <1>5
<1>7. x2 = View(k)
  BY <1>5, <1>6 DEF CommittedBy
<1>8. Shows(e, k2)
  BY <1>1, <1>2, <1>4 DEF Shows
<1>9. View(k) = View(c.vol)
  <2>1. \A u \in Slot : c.vol.live[u] => k.start[u] = c.vol.start[u]
    BY <1>1, <1>3 DEF Shows
  <2>2. c.vol \in Volume
    BY <1>1 DEF Sane
  <2>3. k.fat = c.vol.fat /\ k.live = c.vol.live
    BY <1>1 DEF Shows
  <2>4. QED BY <1>1, <2>1, <2>2, <2>3, SameView
<1>10. Agree(d, e.base, e.mask)
  <2>1. Agree(k, e.base, e.mask)
    BY <1>1, <1>2, ShowsAgree
  <2>2. QED BY <1>1, <1>2, <2>1
<1>11. e.log = l2 /\ e.ram = r2 /\ x2 = View(e.base)
  BY <1>2, <1>5, <1>7, <1>9
<1>12. QED BY <1>1, <1>2, <1>8, <1>10, <1>11 DEF Current

LEMMA StepCurrent ==
  ASSUME NEW c, NEW d, NEW k, NEW l \in Seq(RecSet), NEW r, NEW x, Current(c, d, k, l, r, x),
         NEW s \in StepSet, NEW e, Sane(e), StepTo(c, s, e), s.op = "flush" => d = k,
         NEW l2, l2 = NextLog(l, s), NEW r2, r2 = NextRam(r, s), NEW x2, x2 = CommittedBy(l, l2, k, x),
         NEW k2, k2 = Apply(k, s)
  PROVE  Current(e, d, k2, l2, r2, x2)
<1>1. CASE EditTo(c, s, e) \/ FlushTo(c, s, e) \/ RamTo(c, s, e)
  BY <1>1, StepFlows
<1>2. CASE LogTo(c, s, e)
  BY <1>2, RecordFlows
<1>3. CASE MarkTo(c, s, e)
  BY <1>3, MarkFlows
<1>4. QED BY <1>1, <1>2, <1>3 DEF StepTo
\* The device gets a block of the FAT.
FatWritten(d, k, i) == [d EXCEPT !.fat[i] = k.fat[i]]
LEMMA FatCurrent ==
  ASSUME NEW c, NEW d, NEW k, NEW l, NEW r, NEW x, Current(c, d, k, l, r, x),
         NEW i \in FatIndex, d.fat[i] # k.fat[i], NEW d2, d2 = FatWritten(d, k, i)
  PROVE  Current(c, d2, k, l, r, x)
<1>1. /\ Sane(c) /\ Shows(c, k) /\ d \in Volume /\ Agree(d, c.base, c.mask) /\ (c.clean => d = k) /\ k \in Volume
  BY DEF Current, Shows
<1> DEFINE y == k.fat[i]
<1>2. d2 = Apply(d, Fat(i, y))
  BY DEF Apply, Fat, FatWritten
<1>3. y \in FatVal
  BY <1>1, VolumeFields DEF FatMap
<1>4. y = k.fat[i]
  OBVIOUS
<1> HIDE DEF y
<1>5. d2 \in Volume
  <2>1. Fat(i, y) \in Edits
    BY <1>3, EditIntro
  <2>2. QED BY <1>1, <1>2, <2>1, EditOne
<1>6. d2.fat = [d.fat EXCEPT ![i] = y] /\ d2.live = d.live /\ d2.start = d.start
  BY <1>1, <1>2, ApplyFat
<1>7. ~c.clean
  BY <1>1
<1>8. Agree(k, c.base, c.mask)
  BY <1>1, ShowsAgree
<1>9. \A j \in FatIndex : <<"fat", j>> \notin c.mask => d.fat[j] = c.base.fat[j] /\ k.fat[j] = c.base.fat[j]
  BY <1>1, <1>8, AgreeIs
<1>10. /\ \A s \in Slot : <<"live", s>> \notin c.mask => d.live[s] = c.base.live[s]
       /\ \A s \in Slot : c.base.live[s] /\ <<"start", s>> \notin c.mask => d.start[s] = c.base.start[s]
  BY <1>1, AgreeIs
<1>11. d.fat \in FatMap
  BY <1>1, VolumeFields
<1>12. \A j \in FatIndex : d2.fat[j] = IF j = i THEN y ELSE d.fat[j]
  BY <1>6, <1>11 DEF FatMap
<1>13. \A j \in FatIndex : <<"fat", j>> \notin c.mask => d2.fat[j] = c.base.fat[j]
  BY <1>4, <1>9, <1>12
<1>14. Agree(d2, c.base, c.mask)
  BY <1>6, <1>10, <1>13, AgreeIs
<1>15. QED BY <1>5, <1>7, <1>14 DEF Current

\* The device gets a directory entry.
EntryWritten(d, k, s) == [d EXCEPT !.live[s] = k.live[s], !.start[s] = k.start[s]]
LEMMA EntryCurrent ==
  ASSUME NEW c, NEW d, NEW k, NEW l, NEW r, NEW x, Current(c, d, k, l, r, x),
         NEW s \in Slot, d.live[s] # k.live[s] \/ d.start[s] # k.start[s], NEW d2, d2 = EntryWritten(d, k, s)
  PROVE  Current(c, d2, k, l, r, x)
<1>1. /\ Sane(c) /\ Shows(c, k) /\ d \in Volume /\ Agree(d, c.base, c.mask) /\ (c.clean => d = k) /\ k \in Volume
  BY DEF Current, Shows
<1> DEFINE y == k.live[s]
<1> DEFINE z == k.start[s]
<1>2. d2 = Apply(Apply(d, Live(s, y)), Start(s, z))
  BY DEF Apply, Live, Start, EntryWritten
<1>3. y \in BOOLEAN /\ z \in Cluster \cup {TAIL} /\ y = k.live[s] /\ z = k.start[s]
  BY <1>1, VolumeFields
<1> HIDE DEF y, z
<1> DEFINE d1 == Apply(d, Live(s, y))
<1>4. d1 \in Volume /\ d1.fat = d.fat /\ d1.live = [d.live EXCEPT ![s] = y] /\ d1.start = d.start
  <2>1. Live(s, y) \in Edits
    BY <1>3, EditIntro
  <2>2. Apply(d, Live(s, y)) \in Volume
    BY <1>1, <2>1, EditOne
  <2>3. QED BY <1>1, <2>2, ApplyLive
<1>5. d2 = Apply(d1, Start(s, z))
  BY <1>2
<1> HIDE DEF d1
<1>6. d2 \in Volume
  <2>1. Start(s, z) \in Edits
    BY <1>3, EditIntro
  <2>2. QED BY <1>4, <1>5, <2>1, EditOne
<1>7. d2.fat = d.fat /\ d2.live = [d.live EXCEPT ![s] = y] /\ d2.start = [d.start EXCEPT ![s] = z]
  <2>1. d2.start = [d1.start EXCEPT ![s] = z] /\ d2.live = d1.live /\ d2.fat = d1.fat
    BY <1>4, <1>5, ApplyStart
  <2>2. QED BY <1>4, <2>1
<1>8. ~c.clean
  BY <1>1
<1>9. Agree(k, c.base, c.mask)
  BY <1>1, ShowsAgree
<1>10. /\ \A i \in FatIndex : <<"fat", i>> \notin c.mask => d.fat[i] = c.base.fat[i]
       /\ \A u \in Slot : <<"live", u>> \notin c.mask => d.live[u] = c.base.live[u]
       /\ \A u \in Slot : c.base.live[u] /\ <<"start", u>> \notin c.mask => d.start[u] = c.base.start[u]
  BY <1>1, AgreeIs
<1>11. /\ \A u \in Slot : <<"live", u>> \notin c.mask => k.live[u] = c.base.live[u]
       /\ \A u \in Slot : c.base.live[u] /\ <<"start", u>> \notin c.mask => k.start[u] = c.base.start[u]
  BY <1>9, AgreeIs
<1>12. d.live \in [Slot -> BOOLEAN] /\ d.start \in [Slot -> Cluster \cup {TAIL}]
  BY <1>1, VolumeFields
<1>13. \A u \in Slot : d2.live[u] = (IF u = s THEN y ELSE d.live[u]) /\ d2.start[u] = (IF u = s THEN z ELSE d.start[u])
  BY <1>7, <1>12
<1>14. /\ \A u \in Slot : <<"live", u>> \notin c.mask => d2.live[u] = c.base.live[u]
       /\ \A u \in Slot : c.base.live[u] /\ <<"start", u>> \notin c.mask => d2.start[u] = c.base.start[u]
  BY <1>3, <1>10, <1>11, <1>13
<1>15. \A i \in FatIndex : <<"fat", i>> \notin c.mask => d2.fat[i] = c.base.fat[i]
  BY <1>7, <1>10
<1>16. Agree(d2, c.base, c.mask)
  BY <1>14, <1>15, AgreeIs
<1>17. QED BY <1>6, <1>8, <1>16 DEF Current

\* The start cluster of an inode goes to its entry.
LEMMA SyncCurrent ==
  ASSUME NEW c, NEW d, NEW k, NEW l, NEW r \in Rams, NEW x, Current(c, d, k, l, r, x),
         NEW f \in File, NEW s \in Slot, Owns(r.ino, f, s),
         NEW k2, k2 = Apply(k, Start(s, r.ino[f].start))
  PROVE  Current(c, d, k2, l, r, x)
<1>1. /\ Sane(c) /\ Shows(c, k) /\ d \in Volume /\ (c.clean => d = k) /\ k \in Volume /\ c.ram = r
      /\ k.fat = c.vol.fat /\ k.live = c.vol.live /\ \A u \in c.fixed : k.start[u] = c.vol.start[u]
  BY DEF Current, Shows
<1> DEFINE y == r.ino[f].start
<1>2. y \in Cluster \cup {TAIL}
  <2>1. r.ino \in [File -> Inodes]
    BY RamFields
  <2>2. r.ino[f] \in Inodes
    BY <2>1
  <2>3. QED BY <2>2 DEF Inodes
<1>3. /\ \A g \in File, u \in c.fixed : Owns(r.ino, g, u) => c.vol.start[u] = r.ino[g].start
      /\ c.clean => \A g \in File, u \in Slot : Owns(r.ino, g, u) => u \in c.fixed
      /\ c.fixed \subseteq Slot
  BY <1>1 DEF Sane
<1>4. s \in c.fixed => c.vol.start[s] = y
  BY <1>3
<1>5. c.clean => s \in c.fixed
  BY <1>3
<1>6. k2 = Apply(k, Start(s, y))
  OBVIOUS
<1> HIDE DEF y
<1>7. k2 \in Volume
  <2>1. Start(s, y) \in Edits
    BY <1>2, EditIntro
  <2>2. QED BY <1>1, <1>6, <2>1, EditOne
<1>8. k2.start = [k.start EXCEPT ![s] = y] /\ k2.fat = k.fat /\ k2.live = k.live
  BY <1>1, <1>6, ApplyStart
<1>9. k.start \in [Slot -> Cluster \cup {TAIL}]
  BY <1>1, VolumeFields
<1>10. \A u \in Slot : k2.start[u] = IF u = s THEN y ELSE k.start[u]
  BY <1>8, <1>9
<1>11. \A u \in c.fixed : k2.start[u] = c.vol.start[u]
  BY <1>1, <1>3, <1>4, <1>10
<1>12. Shows(c, k2)
  BY <1>1, <1>7, <1>8, <1>11 DEF Shows
<1>13. c.clean => k2 = k
  <2>1. ASSUME c.clean PROVE k2 = k
    <3>1. k.start[s] = y
      BY <1>1, <1>4, <1>5, <2>1
    <3>2. k2.start = k.start
      BY <1>8, <1>9, <3>1
    <3>3. k = [fat |-> k.fat, live |-> k.live, start |-> k.start]
      BY <1>1 DEF Volume
    <3>4. k2 = [fat |-> k2.fat, live |-> k2.live, start |-> k2.start]
      BY <1>7 DEF Volume
    <3>5. QED BY <1>8, <3>2, <3>3, <3>4
  <2>2. QED BY <2>1
<1>14. QED BY <1>1, <1>12, <1>13 DEF Current
-----------------------------------------------------------------------------
(***************************************************************************)
(* The end of a mount: the inodes are those of the live entries.           *)
(***************************************************************************)
LookedUp(r) ==
  /\ r.segs = <<>> /\ r.writer = None /\ r.pre = <<>> /\ Distinct(r.ino)
  /\ \A s \in LiveSlots : \E f \in File : r.ino[f] = Inode(s)
  /\ \A f \in File : r.ino[f] = NoInode \/ \E s \in LiveSlots : r.ino[f] = Inode(s)

LEMMA InodeFields ==
  ASSUME NEW s
  PROVE  Inode(s).st = "alloc" /\ Inode(s).slot = s /\ Inode(s).start = cache.start[s]
         /\ Inode(s).last = LET c == Chain(cache.fat, cache.start[s]) IN IF c = <<>> THEN TAIL ELSE Last(c)
BY DEF Inode

LEMMA MountedRam ==
  ASSUME ram = NoRam, Mounted
  PROVE  LookedUp(ram')
<1>1. PICK g \in [LiveSlots -> File] :
        /\ \A s, t \in LiveSlots : g[s] = g[t] => s = t
        /\ ram' = [ram EXCEPT !.ino = [f \in File |->
                     IF \E s \in LiveSlots : g[s] = f
                     THEN Inode(CHOOSE s \in LiveSlots : g[s] = f) ELSE NoInode]]
  BY DEF Mounted
<1> DEFINE ino == [f \in File |-> IF \E s \in LiveSlots : g[s] = f
                                  THEN Inode(CHOOSE s \in LiveSlots : g[s] = f) ELSE NoInode]
<1>2. ram'.ino = ino /\ ram'.segs = <<>> /\ ram'.writer = None /\ ram'.pre = <<>>
  BY <1>1 DEF NoRam
<1>3. \A s \in LiveSlots : ino[g[s]] = Inode(s)
  <2>1. TAKE s \in LiveSlots
  <2>2. g[s] \in File /\ \E t \in LiveSlots : g[t] = g[s]
    BY <1>1
  <2>3. (CHOOSE t \in LiveSlots : g[t] = g[s]) = s
    BY <1>1
  <2>4. QED BY <2>2, <2>3
<1>4. \A f \in File : ino[f] = NoInode \/ \E s \in LiveSlots : g[s] = f /\ ino[f] = Inode(s)
  <2>1. TAKE f \in File
  <2>2. CASE \E s \in LiveSlots : g[s] = f
    <3>1. PICK s \in LiveSlots : g[s] = f
      BY <2>2
    <3>2. QED BY <1>3, <3>1
  <2>3. CASE ~\E s \in LiveSlots : g[s] = f
    BY <2>3
  <2>4. QED BY <2>2, <2>3
<1> HIDE DEF ino
<1>5. Distinct(ino)
  <2>1. ASSUME NEW f \in File, NEW h \in File, NEW s \in Slot, Owns(ino, f, s), Owns(ino, h, s)
        PROVE  f = h
    <3>1. NoInode.st = "none"
      BY DEF NoInode
    <3>2. \A k \in File : Owns(ino, k, s) => s \in LiveSlots /\ g[s] = k
      <4>1. TAKE k \in File
      <4>2. HAVE Owns(ino, k, s)
      <4>3. PICK t \in LiveSlots : g[t] = k /\ ino[k] = Inode(t)
        BY <1>4, <3>1, <4>2 DEF Owns
      <4>4. Inode(t).slot = t
        BY InodeFields
      <4>5. t = s
        BY <4>2, <4>3, <4>4 DEF Owns
      <4>6. QED BY <4>3, <4>5
    <3>3. QED BY <2>1, <3>2
  <2>2. QED BY <2>1 DEF Distinct
<1>6. \A s \in LiveSlots : \E f \in File : ino[f] = Inode(s)
  BY <1>1, <1>3
<1>8. QED BY <1>2, <1>4, <1>5, <1>6 DEF LookedUp

\* The chains of the entries, as the inodes have them.
LookupChains(r, C) == [f \in File |-> IF r.ino[f].st = "alloc" THEN C[r.ino[f].slot] ELSE <<>>]
LookupOf(r, C, K, f) ==
  /\ K[f] \in Seq(Cluster) /\ Once(K[f]) /\ r.ino[f].start = HeadOr(K[f], TAIL)
  /\ K[f] # <<>> => r.ino[f].last = K[f][Len(K[f])]
  /\ r.ino[f].st = "none" => K[f] = <<>>
  /\ r.ino[f].st = "alloc" => /\ r.ino[f].slot \in Slot /\ cache.live[r.ino[f].slot]
                              /\ K[f] = C[r.ino[f].slot] /\ Trail(cache.fat, K[f], TAIL)
                              /\ r.ino[f].start = cache.start[r.ino[f].slot]
  /\ r.ino[f].st \in {"none", "alloc"}

LEMMA LookupIs ==
  ASSUME cache \in Volume, NEW C \in Chains, SoundBy(cache, C),
         NEW r \in Rams, LookedUp(r), NEW K, K = LookupChains(r, C), NEW f \in File
  PROVE  LookupOf(r, C, K, f)
<1>1. K[f] = IF r.ino[f].st = "alloc" THEN C[r.ino[f].slot] ELSE <<>>
  BY DEF LookupChains
<1>2. CASE r.ino[f] = NoInode
  <2>1. r.ino[f].st = "none" /\ r.ino[f].start = TAIL /\ K[f] = <<>>
    BY <1>1, <1>2 DEF NoInode
  <2>2. <<>> \in Seq(Cluster) /\ Once(<<>>) /\ HeadOr(<<>>, TAIL) = TAIL
    BY TrailNone
  <2>3. QED BY <2>1, <2>2 DEF LookupOf
<1>3. CASE \E s \in LiveSlots : r.ino[f] = Inode(s)
  <2>1. PICK s \in LiveSlots : r.ino[f] = Inode(s)
    BY <1>3
  <2>2. s \in Slot /\ cache.live[s]
    BY DEF LiveSlots
  <2>3. /\ r.ino[f].st = "alloc" /\ r.ino[f].slot = s /\ r.ino[f].start = cache.start[s]
        /\ r.ino[f].last = LET c == Chain(cache.fat, cache.start[s]) IN IF c = <<>> THEN TAIL ELSE Last(c)
    BY <2>1, InodeFields
  <2>4. K[f] = C[s]
    BY <1>1, <2>3
  <2>5. C[s] \in Seq(Cluster)
    BY <2>2 DEF Chains
  <2>6. Once(C[s]) /\ Trail(cache.fat, C[s], TAIL) /\ cache.start[s] = HeadOr(C[s], TAIL)
    BY <2>2 DEF SoundBy
  <2>7. cache.fat \in FatMap
    BY VolumeFields
  <2>8. Chain(cache.fat, cache.start[s]) = C[s]
    BY <2>5, <2>6, <2>7, ChainTrail
  <2>9. C[s] # <<>> => r.ino[f].last = C[s][Len(C[s])]
    BY <2>3, <2>8 DEF Last
  <2>10. QED BY <2>2, <2>3, <2>4, <2>5, <2>6, <2>9 DEF LookupOf
<1>4. QED BY <1>2, <1>3 DEF LookedUp

\* They make up the volume.
LEMMA LookupShape ==
  ASSUME cache \in Volume, NEW C \in Chains, SoundBy(cache, C), cache.fat[Log] = TAIL,
         NEW r \in Rams, LookedUp(r), NEW K, K = LookupChains(r, C)
  PROVE  Shape(cache, r, K)
<1>1. \A f \in File : LookupOf(r, C, K, f)
  BY LookupIs
<1>2. r.segs = <<>> /\ Distinct(r.ino) /\ \A s \in LiveSlots : \E f \in File : r.ino[f] = Inode(s)
  BY DEF LookedUp
<1>3. K \in [File -> Seq(Cluster)]
  <2>1. \A f \in File : K[f] \in Seq(Cluster)
    BY <1>1 DEF LookupOf
  <2>2. K = [f \in File |-> K[f]]
    BY DEF LookupChains
  <2>3. QED BY <2>1, <2>2
<1>4. C[None] = <<>>
  <2>1. C[None] \in Seq(Cluster)
    BY DEF Chains
  <2>2. HeadOr(C[None], TAIL) = TAIL
    BY DEF SoundBy
  <2>3. C[None] # <<>> => C[None][1] \in Cluster
    BY <2>1
  <2>4. QED BY <2>2, <2>3, RfsAssumption DEF HeadOr
<1>5. \A f \in File : r.ino[f].st = "alloc" => K[f] = C[r.ino[f].slot] /\ r.ino[f].slot \in Slot
  BY <1>1 DEF LookupOf
<1>6. \A f \in File : r.ino[f].st # "alloc" => K[f] = <<>>
  BY <1>1 DEF LookupOf
<1>7. \A s \in Slot : cache.live[s] <=> \E f \in File : Owns(r.ino, f, s)
  <2>1. TAKE s \in Slot
  <2>2. ASSUME cache.live[s] PROVE \E f \in File : Owns(r.ino, f, s)
    <3>1. s \in LiveSlots
      BY <2>2 DEF LiveSlots
    <3>2. PICK f \in File : r.ino[f] = Inode(s)
      BY <1>2, <3>1
    <3>3. Inode(s).st = "alloc" /\ Inode(s).slot = s
      BY InodeFields
    <3>4. QED BY <3>2, <3>3 DEF Owns
  <2>3. ASSUME NEW f \in File, Owns(r.ino, f, s) PROVE cache.live[s]
    BY <1>1, <2>3 DEF Owns, LookupOf
  <2>4. QED BY <2>2, <2>3
<1>8. cache.fat[Log] = SegNext(r, 0) /\ Len(r.segs) = 0
  BY <1>2 DEF SegNext
<1>9. \A f, g \in File : f # g => ToSet(K[f]) \cap ToSet(K[g]) = {}
  <2>1. ASSUME NEW f \in File, NEW g \in File, f # g PROVE ToSet(K[f]) \cap ToSet(K[g]) = {}
    <3>1. ToSet(<<>>) = {}
      BY TrailNone
    <3>2. CASE r.ino[f].st = "alloc" /\ r.ino[g].st = "alloc"
      <4>1. r.ino[f].slot # r.ino[g].slot
        BY <1>2, <1>5, <2>1, <3>2 DEF Distinct, Owns
      <4>2. ToSet(C[r.ino[f].slot]) \cap ToSet(C[r.ino[g].slot]) = {}
        BY <1>5, <3>2, <4>1 DEF SoundBy
      <4>3. QED BY <1>5, <3>2, <4>2
    <3>3. CASE ~(r.ino[f].st = "alloc" /\ r.ino[g].st = "alloc")
      BY <1>6, <3>1, <3>3
    <3>4. QED BY <3>2, <3>3
  <2>2. QED BY <2>1
<1>10. \A c \in Cluster : cache.fat[c] # FREE => \E f \in File : c \in ToSet(K[f])
  <2>1. ASSUME NEW c \in Cluster, cache.fat[c] # FREE PROVE \E f \in File : c \in ToSet(K[f])
    <3>1. PICK x \in Slot \cup {None} : c \in ToSet(C[x])
      BY <2>1 DEF SoundBy
    <3>2. ToSet(<<>>) = {}
      BY TrailNone
    <3>3. x \in Slot
      BY <1>4, <3>1, <3>2
    <3>4. C[x] # <<>>
      BY <3>1, <3>2
    <3>5. cache.live[x]
      BY <3>3, <3>4 DEF SoundBy
    <3>6. PICK f \in File : Owns(r.ino, f, x)
      BY <1>7, <3>3, <3>5
    <3>7. K[f] = C[x]
      BY <1>5, <3>6 DEF Owns
    <3>8. QED BY <3>1, <3>7
  <2>2. QED BY <2>1
<1>11. \A f \in File : /\ Once(K[f]) /\ r.ino[f].start = HeadOr(K[f], TAIL)
                       /\ K[f] # <<>> => r.ino[f].last = K[f][Len(K[f])]
                       /\ r.ino[f].st = "none" => K[f] = <<>>
                       /\ r.ino[f].st = "alloc" => Trail(cache.fat, K[f], TAIL)
  BY <1>1 DEF LookupOf
<1>12. \A k \in 1..Len(r.segs) : Trail(cache.fat, K[r.segs[k]], SegNext(r, k))
  BY <1>8
<1>13. QED BY <1>2, <1>3, <1>7, <1>8, <1>9, <1>10, <1>11, <1>12 DEF Shape

\* Then no transaction is open, and a mount would come to the same files.
LEMMA MountedRests ==
  ASSUME NEW c, Bare(c), c.vol.fat[Log] = TAIL, NEW d, NEW x, Current(c, d, cache, <<>>, NoRam, x),
         NEW r \in Rams, LookedUp(r)
  PROVE  \E e, K : Current(e, d, cache, <<>>, r, x) /\ Rest(e, K)
<1>1. /\ Sane(c) /\ c.log = <<>> /\ c.mask = {} /\ c.ram = NoRam
  BY DEF Bare
<1>2. /\ x = View(c.base) /\ d \in Volume /\ Agree(d, c.base, c.mask)
      /\ cache \in Volume /\ cache.fat = c.vol.fat /\ cache.live = c.vol.live
      /\ \A s \in c.fixed : cache.start[s] = c.vol.start[s]
  BY DEF Current, Shows
<1>3. /\ c.vol \in Volume /\ c.base \in Volume /\ Agree(c.vol, c.base, {}) /\ Sound(c.base)
      /\ c.vol.fat = c.base.fat /\ c.vol.live = c.base.live
      /\ \A s \in Slot : c.base.live[s] => c.vol.start[s] = c.base.start[s]
      /\ \A s \in Slot : c.base.live[s] => s \in c.fixed
  BY <1>1, BareBase
<1>4. PICK C \in Chains : SoundBy(c.base, C)
  BY <1>3 DEF Sound
<1>5. Agree(cache, c.base, {})
  BY <1>2, <1>3, AgreeIs
<1>6. SoundBy(cache, C)
  BY <1>2, <1>3, <1>4, <1>5, AgreeSound
<1>7. cache.fat[Log] = TAIL
  BY <1>2
<1> DEFINE K == LookupChains(r, C)
           e == Point(c.vol, <<>>, r, c.base, {}, c.fixed, FALSE)
<1>8. Shape(cache, r, K)
  <2>1. K = LookupChains(r, C)
    OBVIOUS
  <2> HIDE DEF K
  <2>2. QED BY <1>2, <1>6, <1>7, <2>1, LookupShape
<1>9. /\ e.vol = c.vol /\ e.log = <<>> /\ e.ram = r /\ e.base = c.base /\ e.mask = {}
      /\ e.fixed = c.fixed /\ e.clean = FALSE
  BY DEF Point
<1>10. \A f \in File : LookupOf(r, C, K, f)
  <2>1. K = LookupChains(r, C)
    OBVIOUS
  <2> HIDE DEF K
  <2>2. QED BY <1>2, <1>6, <2>1, LookupIs
<1> HIDE DEF K, e
<1>11. \A f \in File, s \in Slot : Owns(r.ino, f, s) => s \in c.fixed /\ c.vol.start[s] = r.ino[f].start
  <2>1. ASSUME NEW f \in File, NEW s \in Slot, Owns(r.ino, f, s)
        PROVE  s \in c.fixed /\ c.vol.start[s] = r.ino[f].start
    <3>1. cache.live[s] /\ r.ino[f].start = cache.start[s]
      BY <1>10, <2>1 DEF LookupOf, Owns
    <3>2. s \in c.fixed
      BY <1>2, <1>3, <3>1
    <3>3. QED BY <1>2, <3>1, <3>2
  <2>2. QED BY <2>1
<1>12. Sane(e)
  <2>1. Restores(<<>>, c.base, {}) /\ c.fixed \subseteq Slot
    BY <1>1 DEF Sane
  <2>2. <<>> \in Seq(RecSet)
    OBVIOUS
  <2>3. \A f \in File, s \in c.fixed : Owns(r.ino, f, s) => c.vol.start[s] = r.ino[f].start
    BY <1>11, <2>1
  <2>4. QED BY <1>3, <1>9, <2>1, <2>2, <2>3 DEF Sane
<1>13. Shape(e.vol, e.ram, K)
  BY <1>2, <1>8, <1>9, ShapeSame
<1>14. Rest(e, K)
  <2>1. r.writer = None /\ r.pre = <<>>
    BY DEF LookedUp
  <2>2. QED BY <1>9, <1>11, <1>13, <2>1 DEF Rest
<1>15. Shows(e, cache)
  BY <1>2, <1>9 DEF Shows
<1>16. Current(e, d, cache, <<>>, r, x)
  BY <1>1, <1>2, <1>9, <1>12, <1>15 DEF Current
<1>17. QED BY <1>14, <1>16
-----------------------------------------------------------------------------
(***************************************************************************)
(* The invariant.                                                          *)
(***************************************************************************)
\* Every operation leads from one point of rest to another.
LEMMA PreAllocationFree ==
  ASSUME cache \in Volume, FreeClusters # {}, NEW p \in PreAllocations
  PROVE  p \in Seq(Cluster) /\ p # <<>> /\ IsInjective(p) /\ \A x \in ToSet(p) : cache.fat[x] = FREE
<1>1. p \in Seq(Cluster) /\ p # <<>> /\ IsInjective(p)
  BY PreAllocationType
<1>2. PICK n : p \in [1..n -> FreeClusters]
  BY DEF PreAllocations
<1>3. \A x \in ToSet(p) : \E i \in 1..Len(p) : p[i] = x
  BY <1>1, SetIs
<1>4. DOMAIN p = 1..Len(p) /\ DOMAIN p = 1..n
  BY <1>1, <1>2
<1>5. \A i \in 1..Len(p) : p[i] \in FreeClusters
  BY <1>2, <1>4
<1>6. \A x \in FreeClusters : cache.fat[x] = FREE
  BY DEF FreeClusters
<1>7. QED BY <1>1, <1>3, <1>5, <1>6

LEMMA OperationDone ==
  ASSUME Types, NEW c0, NEW K, Stands(c0, K), Operation
  PROVE  Done(c0, todo')
<1>1. cache \in Volume /\ ram \in Rams
  BY DEF Types
<1>2. \A f \in File, s \in Slot, c \in FreeClusters \cup {None} : Create(f, s, c) => Done(c0, todo')
  <2>1. ASSUME NEW f \in File, NEW s \in Slot, NEW c \in FreeClusters \cup {None}, Create(f, s, c)
        PROVE  Done(c0, todo')
    <3>1. ram.ino[f].st = "none" /\ ~cache.live[s] /\ todo' = CreateSteps(f, s, c)
      BY <2>1 DEF Create, Run
    <3>2. c \in Cluster \cup {None} /\ (c # None => cache.fat[c] = FREE)
      BY DEF FreeClusters
    <3>3. Done(c0, CreateSteps(f, s, c))
      BY <3>1, <3>2, CreateReaches
    <3>4. QED BY <3>1, <3>3
  <2>2. QED BY <2>1
<1>3. \A f \in File, s \in Slot, g \in File \cup {None} : Rename(f, s, g) => Done(c0, todo')
  <2>1. ASSUME NEW f \in File, NEW s \in Slot, NEW g \in File \cup {None}, Rename(f, s, g)
        PROVE  Done(c0, todo')
    <3>1. /\ ram.ino[f].st = "alloc" /\ ~cache.live[s] /\ todo' = RenameSteps(f, s, g)
          /\ g # None => g # f /\ ram.ino[g].st = "alloc"
      BY <2>1 DEF Rename, Run
    <3>2. Done(c0, RenameSteps(f, s, g))
      BY <3>1, RenameReaches
    <3>3. QED BY <3>1, <3>2
  <2>2. QED BY <2>1
<1>4. \A f \in File : Unlink(f) => Done(c0, todo')
  <2>1. ASSUME NEW f \in File, Unlink(f) PROVE Done(c0, todo')
    <3>1. ram.ino[f].st = "alloc" /\ todo' = UnlinkSteps(f)
      BY <2>1 DEF Unlink, Run
    <3>2. Done(c0, UnlinkSteps(f))
      BY <3>1, UnlinkReaches
    <3>3. QED BY <3>1, <3>2
  <2>2. QED BY <2>1
<1>5. \A f \in File : Write(f) => Done(c0, todo')
  <2>1. ASSUME NEW f \in File, Write(f) PROVE Done(c0, todo')
    <3>1. ram.ino[f].st # "none"
      BY <2>1 DEF Write
    <3>2. CASE ram.writer = f /\ ram.pre # <<>>
      <4>1. todo' = WriteSteps(f, <<>>)
        BY <2>1, <3>2 DEF Write, Run
      <4>2. <<>> \in Seq(Cluster) /\ ToSet(<<>>) = {}
        BY TrailNone
      <4>3. IsInjective(<<>>)
        BY DEF IsInjective
      <4>4. Done(c0, WriteSteps(f, <<>>))
        BY <3>1, <3>2, <4>2, <4>3, WriteReaches
      <4>5. QED BY <4>1, <4>4
    <3>3. CASE ~(ram.writer = f /\ ram.pre # <<>>)
      <4>1. FreeClusters # {} /\ \E p \in PreAllocations : Run(WriteSteps(f, p))
        BY <2>1, <3>3 DEF Write
      <4>2. PICK p \in PreAllocations : todo' = WriteSteps(f, p)
        BY <4>1 DEF Run
      <4>3. p \in Seq(Cluster) /\ p # <<>> /\ IsInjective(p) /\ \A x \in ToSet(p) : cache.fat[x] = FREE
        BY <1>1, <4>1, PreAllocationFree
      <4>4. Done(c0, WriteSteps(f, p))
        BY <3>1, <4>3, WriteReaches
      <4>5. QED BY <4>2, <4>4
    <3>4. QED BY <3>2, <3>3
  <2>2. QED BY <2>1
<1>6. \A f \in File : WriteNoSpace(f) => Done(c0, todo')
  <2>1. ASSUME NEW f \in File, WriteNoSpace(f) PROVE Done(c0, todo')
    <3>1. ram.writer = f /\ todo' = LogEnd(ram, f)
      BY <2>1 DEF WriteNoSpace, Run
    <3>2. Done(c0, CommitDeferred(ram)) /\ LogEnd(ram, f) = CommitDeferred(ram)
      BY <3>1, CommitReaches
    <3>3. QED BY <3>1, <3>2
  <2>2. QED BY <2>1
<1>7. \A f \in File : Extend(f) => Done(c0, todo')
  <2>1. ASSUME NEW f \in File, Extend(f) PROVE Done(c0, todo')
    <3>1. ram.ino[f].st = "alloc" /\ FreeClusters # {} /\ \E p \in PreAllocations : Run(ExtendSteps(f, p))
      BY <2>1 DEF Extend
    <3>2. PICK p \in PreAllocations : todo' = ExtendSteps(f, p)
      BY <3>1 DEF Run
    <3>3. p \in Seq(Cluster) /\ p # <<>> /\ IsInjective(p) /\ \A x \in ToSet(p) : cache.fat[x] = FREE
      BY <1>1, <3>1, PreAllocationFree
    <3>4. Done(c0, ExtendSteps(f, p))
      BY <3>1, <3>3, ExtendReaches
    <3>5. QED BY <3>2, <3>4
  <2>2. QED BY <2>1
<1>8. \A f \in File : DelInode(f) => Done(c0, todo')
  <2>1. ASSUME NEW f \in File, DelInode(f) PROVE Done(c0, todo')
    <3>1. ram.ino[f].st = "free" /\ todo' = DelInodeSteps(f)
      BY <2>1 DEF DelInode, Run
    <3>2. Done(c0, DelInodeSteps(f))
      BY <3>1, DelInodeReaches
    <3>3. QED BY <3>1, <3>2
  <2>2. QED BY <2>1
<1>9. \A f \in File, n \in 0..Cardinality(Cluster) : Truncate(f, n) => Done(c0, todo')
  <2>1. ASSUME NEW f \in File, NEW n \in 0..Cardinality(Cluster), Truncate(f, n) PROVE Done(c0, todo')
    <3>1. ram.ino[f].st = "alloc" /\ n < Len(ChainOf(f)) /\ todo' = TruncateSteps(f, n)
      BY <2>1 DEF Truncate, Run
    <3>2. n \in Nat
      BY RfsAssumption, FS_CardinalityType
    <3>3. Done(c0, TruncateSteps(f, n))
      BY <3>1, <3>2, TruncateReaches
    <3>4. QED BY <3>1, <3>3
  <2>2. QED BY <2>1
<1>10. ForceCommit => Done(c0, todo')
  <2>1. ASSUME ForceCommit PROVE Done(c0, todo')
    <3>1. todo' = CommitDeferred(ram)
      BY <2>1 DEF ForceCommit, Run
    <3>2. Done(c0, CommitDeferred(ram))
      BY CommitReaches
    <3>3. QED BY <3>1, <3>2
  <2>2. QED BY <2>1
<1>11. QED BY <1>2, <1>3, <1>4, <1>5, <1>6, <1>7, <1>8, <1>9, <1>10 DEF Operation

\* What a state is on the way to: rest, the end of the replay, or that of the mount.
Bound(mo, e) ==
  /\ mo = "up" => \E K : Rest(e, K)
  /\ mo = "replay" => Bare(e)
  /\ mo = "orphans" => Bare(e) /\ e.vol.fat[Log] = TAIL
Heading(c, d, k, l, r, x, t, mo, e) == Current(c, d, k, l, r, x) /\ Goes(c, t, e) /\ Bound(mo, e)
OnCourse(d, k, l, r, x, t, mo) == \E c, e : Heading(c, d, k, l, r, x, t, mo, e)
Lost(d, k, l, r, x, t) ==
  /\ k = d /\ r = NoRam /\ t = <<>>
  /\ \E b, m : Recovering(d, l, b, m) /\ x = View(b)
\* What holds in every state, x being the files of the last commit point.
InCourse(x) ==
  /\ JInv
  /\ mode = "down" => Lost(disk, cache, log, ram, x, todo)
  /\ mode # "down" => OnCourse(disk, cache, log, ram, x, todo, mode)

\* A power loss now would be recovered from.
LEMMA CurrentRecovers ==
  ASSUME NEW c, NEW d, NEW k, NEW l, NEW r, NEW x, Current(c, d, k, l, r, x)
  PROVE  Recovering(d, l, c.base, c.mask) /\ x = View(c.base)
BY DEF Current, Recovering, Sane

\* Where no step is left the state is at the point it was on the way to.
LEMMA HeadingEnds ==
  ASSUME NEW c, NEW d, NEW k, NEW l, NEW r, NEW x, NEW mo, NEW e,
         Heading(c, d, k, l, r, x, <<>>, mo, e)
  PROVE  c = e
BY ReachNone DEF Heading, Goes

\* At rest.
LEMMA HeadingStands ==
  ASSUME NEW c, NEW x, NEW K, Current(c, disk, cache, log, ram, x), Rest(c, K)
  PROVE  Stands(c, K)
BY DEF Current, Shows, Stands

LEMMA CommittedSame ==
  ASSUME NEW l, NEW k, NEW x
  PROVE  CommittedBy(l, l, k, x) = x
BY DEF CommittedBy

LEMMA RunsOn ==
  ASSUME NEW x, InCourse(x), Operation, NEW y, y = CommittedBy(log, log', cache, x)
  PROVE  mode' # "down" /\ OnCourse(disk', cache', log', ram', y, todo', mode')
<1>1. Types /\ (mode = "up" => Entries)
  BY DEF InCourse, JInv
<1>2. mode = "up" /\ todo = <<>> /\ UNCHANGED <<disk, cache, log, ram, sync, mode>>
  BY <1>1, OperationPlan
<1>3. y = x
  BY <1>2, CommittedSame
<1>4. OnCourse(disk, cache, log, ram, x, todo, mode)
  BY <1>2 DEF InCourse
<1>5. PICK c, e : Heading(c, disk, cache, log, ram, x, <<>>, "up", e)
  BY <1>2, <1>4 DEF OnCourse
<1>6. c = e
  BY <1>5, HeadingEnds
<1>7. Current(c, disk, cache, log, ram, x) /\ \E K : Rest(c, K)
  BY <1>5, <1>6 DEF Heading, Bound
<1>8. PICK K : Stands(c, K)
  BY <1>7, HeadingStands
<1>9. Done(c, todo')
  BY <1>1, <1>8, OperationDone
<1>10. PICK o, L : Rest(o, L) /\ Goes(c, todo', o)
  BY <1>9 DEF Done
<1>11. Bound("up", o)
  BY <1>10 DEF Bound
<1>12. Heading(c, disk, cache, log, ram, x, todo', "up", o)
  BY <1>7, <1>10, <1>11 DEF Heading
<1>13. QED BY <1>2, <1>3, <1>12 DEF OnCourse

LEMMA StepOn ==
  ASSUME NEW x, InCourse(x), Step, NEW y, y = CommittedBy(log, log', cache, x)
  PROVE  mode' # "down" /\ OnCourse(disk', cache', log', ram', y, todo', mode')
<1>1. log \in Seq(RecSet) /\ todo \in Seq(StepSet)
  BY DEF InCourse, JInv, Types
<1> DEFINE s == Head(todo)
<1>2. /\ mode # "down" /\ todo # <<>> /\ (s.op = "flush" => disk = cache) /\ cache' = Apply(cache, s)
      /\ log' = NextLog(log, s) /\ ram' = NextRam(ram, s)
      /\ todo' = Tail(todo) /\ disk' = disk /\ mode' = mode
  BY DEF Step, NextLog, NextRam
<1>3. PICK c, e : Heading(c, disk, cache, log, ram, x, todo, mode, e)
  BY <1>2 DEF InCourse, OnCourse
<1>4. Current(c, disk, cache, log, ram, x) /\ Goes(c, todo, e) /\ Bound(mode, e)
  BY <1>3 DEF Heading
<1>5. Reach(c, todo, e)
  BY <1>4 DEF Goes
<1>6. PICK o : Sane(o) /\ StepTo(c, s, o) /\ Reach(o, Tail(todo), e)
  BY <1>1, <1>2, <1>5, ReachHead
<1>7. s \in StepSet /\ Tail(todo) \in Seq(StepSet)
  BY <1>1, <1>2
<1>8. y = CommittedBy(log, log', cache, x)
  OBVIOUS
<1> HIDE DEF s
<1>9. Current(o, disk, cache', log', ram', y)
  BY <1>1, <1>2, <1>4, <1>6, <1>7, <1>8, StepCurrent
<1>10. Goes(o, Tail(todo), e)
  BY <1>6, <1>7 DEF Goes
<1>11. Heading(o, disk, cache', log', ram', y, Tail(todo), mode, e)
  BY <1>4, <1>9, <1>10 DEF Heading
<1>12. QED BY <1>2, <1>11 DEF OnCourse

\* A change that the point under way does not see.
LEMMA StaysOn ==
  ASSUME NEW x, NEW c, NEW e, Heading(c, disk, cache, log, ram, x, todo, mode, e), mode # "down",
         UNCHANGED <<log, ram, todo, mode>>, NEW y, y = CommittedBy(log, log', cache, x),
         Current(c, disk', cache', log, ram, x)
  PROVE  mode' # "down" /\ OnCourse(disk', cache', log', ram', y, todo', mode')
<1>1. y = x
  BY CommittedSame
<1>2. Heading(c, disk', cache', log, ram, x, todo, mode, e)
  BY DEF Heading
<1>3. QED BY <1>1, <1>2 DEF OnCourse

LEMMA KernelOn ==
  ASSUME NEW x, InCourse(x), Kernel, NEW y, y = CommittedBy(log, log', cache, x)
  PROVE  mode' # "down" /\ OnCourse(disk', cache', log', ram', y, todo', mode')
<1>1. /\ disk \in Volume /\ cache \in Volume /\ ram \in Rams
      /\ sync \in {None} \cup [file : File, slot : Slot]
  BY DEF InCourse, JInv, Types
<1>2. mode # "down" /\ UNCHANGED <<log, ram, todo, mode>>
  BY DEF Kernel, WriteFat, WriteEntry, SyncInode, SyncFind, SyncWrite
<1>3. PICK c, e : Heading(c, disk, cache, log, ram, x, todo, mode, e)
  BY <1>2 DEF InCourse, OnCourse
<1>4. Current(c, disk, cache, log, ram, x)
  BY <1>3 DEF Heading
<1>5. \A f \in File : ram.ino[f].st = "alloc" => /\ ram.ino[f].slot \in Slot
                                               /\ Owns(ram.ino, f, ram.ino[f].slot)
  <2>1. \A f \in File : InodeOK(ram.ino[f])
    BY <1>1, RamFields
  <2>2. QED BY <2>1 DEF InodeOK, Owns
<1>6. \A i \in FatIndex : WriteFat(i) => Current(c, disk', cache', log, ram, x)
  <2>1. ASSUME NEW i \in FatIndex, WriteFat(i) PROVE Current(c, disk', cache', log, ram, x)
    <3>1. disk.fat[i] # cache.fat[i] /\ disk' = FatWritten(disk, cache, i) /\ cache' = cache
      BY <2>1 DEF WriteFat, FatWritten
    <3>2. QED BY <1>4, <3>1, FatCurrent
  <2>2. QED BY <2>1
<1>7. \A s \in Slot : WriteEntry(s) => Current(c, disk', cache', log, ram, x)
  <2>1. ASSUME NEW s \in Slot, WriteEntry(s) PROVE Current(c, disk', cache', log, ram, x)
    <3>1. disk.live[s] # cache.live[s] \/ disk.start[s] # cache.start[s]
      BY <2>1 DEF WriteEntry
    <3>2. disk' = EntryWritten(disk, cache, s) /\ cache' = cache
      BY <2>1 DEF WriteEntry, EntryWritten
    <3>3. QED BY <1>4, <3>1, <3>2, EntryCurrent
  <2>2. QED BY <2>1
<1>8. \A f \in File : SyncInode(f) => Current(c, disk', cache', log, ram, x)
  <2>1. ASSUME NEW f \in File, SyncInode(f) PROVE Current(c, disk', cache', log, ram, x)
    <3>1. /\ ram.ino[f].st = "alloc" /\ disk' = disk
          /\ cache' = Apply(cache, Start(ram.ino[f].slot, ram.ino[f].start))
      BY <2>1 DEF SyncInode
    <3>2. QED BY <1>1, <1>4, <1>5, <3>1, SyncCurrent
  <2>2. QED BY <2>1
<1>9. \A f \in File : SyncFind(f) => Current(c, disk', cache', log, ram, x)
  BY <1>4 DEF SyncFind
<1>10. SyncWrite => Current(c, disk', cache', log, ram, x)
  <2>1. ASSUME SyncWrite PROVE Current(c, disk', cache', log, ram, x)
    <3>1. sync.file \in File /\ sync.slot \in Slot /\ disk' = disk
      BY <1>1, <2>1 DEF SyncWrite
    <3>2. CASE SyncAllowed(ram.ino[sync.file], sync.slot)
      <4>1. cache' = Apply(cache, Start(sync.slot, ram.ino[sync.file].start))
        BY <2>1, <3>2 DEF SyncWrite
      <4>2. Owns(ram.ino, sync.file, sync.slot)
        BY <3>2 DEF SyncAllowed, Owns
      <4>3. QED BY <1>1, <1>4, <3>1, <4>1, <4>2, SyncCurrent
    <3>3. CASE ~SyncAllowed(ram.ino[sync.file], sync.slot)
      <4>1. cache' = cache
        BY <2>1, <3>3 DEF SyncWrite
      <4>2. QED BY <1>4, <3>1, <4>1
    <3>4. QED BY <3>2, <3>3
  <2>2. QED BY <2>1
<1>11. Current(c, disk', cache', log, ram, x)
  BY <1>6, <1>7, <1>8, <1>9, <1>10 DEF Kernel
<1>12. QED BY <1>2, <1>3, <1>11, StaysOn

LEMMA PowerOffOn ==
  ASSUME NEW x, InCourse(x), PowerOff, NEW y, y = CommittedBy(log, log', cache, x)
  PROVE  mode' = "down" /\ Lost(disk', cache', log', ram', y, todo')
<1>1. mode # "down" /\ mode' = "down" /\ cache' = disk /\ ram' = NoRam /\ todo' = <<>>
      /\ disk' = disk /\ log' = log
  BY DEF PowerOff
<1>2. y = x
  BY <1>1, CommittedSame
<1>3. PICK c, e : Heading(c, disk, cache, log, ram, x, todo, mode, e)
  BY <1>1 DEF InCourse, OnCourse
<1>4. Current(c, disk, cache, log, ram, x)
  BY <1>3 DEF Heading
<1>5. Recovering(disk, log, c.base, c.mask) /\ x = View(c.base)
  BY <1>4, CurrentRecovers
<1>6. Lost(disk, disk, log, NoRam, x, <<>>)
  BY <1>5 DEF Lost
<1>7. QED BY <1>1, <1>2, <1>6

LEMMA MountOn ==
  ASSUME NEW x, InCourse(x), Mount, NEW y, y = CommittedBy(log, log', cache, x)
  PROVE  mode' # "down" /\ OnCourse(disk', cache', log', ram', y, todo', mode')
<1>1. /\ mode = "down" /\ mode' = "replay" /\ disk' = disk /\ cache' = cache /\ log' = log /\ ram' = ram
      /\ todo' = If(log # <<>>, ReplaySteps(log) \o <<Flush, Mark(NoRam)>>)
  BY DEF Mount
<1>2. y = x
  BY <1>1, CommittedSame
<1>3. Lost(disk, cache, log, ram, x, todo)
  BY <1>1 DEF InCourse
<1>4. cache = disk /\ ram = NoRam
  BY <1>3 DEF Lost
<1>5. PICK b, m : Recovering(disk, log, b, m) /\ x = View(b)
  BY <1>3 DEF Lost
<1>6. PICK c, e : MountedAt(disk, log, b, c, e)
  BY <1>5, MountGoes
<1>7. todo' = ReplayAll(log)
  BY <1>1 DEF ReplayAll, MountEnd
<1>8. /\ Sane(c) /\ c.vol = disk /\ c.log = log /\ c.ram = NoRam /\ c.base = b /\ c.clean = FALSE
      /\ Goes(c, todo', e) /\ Bare(e)
  BY <1>6, <1>7 DEF MountedAt
<1>9. disk \in Volume /\ Agree(disk, c.base, c.mask)
  BY <1>8 DEF Sane
<1>10. Shows(c, cache)
  BY <1>4, <1>8, <1>9 DEF Shows
<1>11. Current(c, disk, cache, log, ram, x)
  BY <1>4, <1>5, <1>8, <1>9, <1>10 DEF Current
<1>12. Bound("replay", e)
  BY <1>8 DEF Bound
<1>13. Heading(c, disk, cache, log, ram, x, todo', "replay", e)
  BY <1>8, <1>11, <1>12 DEF Heading
<1>14. QED BY <1>1, <1>2, <1>13 DEF OnCourse

LEMMA FreeOrphansOn ==
  ASSUME NEW x, InCourse(x), FreeOrphans, NEW y, y = CommittedBy(log, log', cache, x)
  PROVE  mode' # "down" /\ OnCourse(disk', cache', log', ram', y, todo', mode')
<1>1. /\ mode = "replay" /\ todo = <<>> /\ mode' = "orphans" /\ disk' = disk /\ cache' = cache
      /\ log' = log /\ ram' = ram /\ todo' = OrphanSteps(cache)
  BY DEF FreeOrphans
<1>2. y = x
  BY <1>1, CommittedSame
<1>3. OnCourse(disk, cache, log, ram, x, todo, mode)
  BY <1>1 DEF InCourse
<1>4. PICK c, e : Heading(c, disk, cache, log, ram, x, <<>>, "replay", e)
  BY <1>1, <1>3 DEF OnCourse
<1>5. c = e
  BY <1>4, HeadingEnds
<1>6. Current(c, disk, cache, log, ram, x) /\ Bare(c)
  BY <1>4, <1>5 DEF Heading, Bound
<1>7. Sound(c.base) /\ cache.fat = c.vol.fat
  BY <1>6 DEF Current, Shows, Sane
<1>8. PICK C \in Chains : SoundBy(c.base, C)
  BY <1>7 DEF Sound
<1>9. PICK o : OrphanDone(c, C, o) /\ Goes(c, OrphanSteps(cache), o)
  BY <1>6, <1>7, <1>8, OrphanGoes
<1>10. Bound("orphans", o)
  BY <1>9 DEF OrphanDone, Bare, Bound
<1>11. Heading(c, disk, cache, log, ram, x, todo', "orphans", o)
  BY <1>1, <1>6, <1>9, <1>10 DEF Heading
<1>12. QED BY <1>1, <1>2, <1>11 DEF OnCourse

LEMMA MountedOn ==
  ASSUME NEW x, InCourse(x), Mounted, NEW y, y = CommittedBy(log, log', cache, x)
  PROVE  mode' # "down" /\ OnCourse(disk', cache', log', ram', y, todo', mode')
<1>1. /\ mode = "orphans" /\ todo = <<>> /\ mode' = "up" /\ disk' = disk /\ cache' = cache
      /\ log' = log /\ todo' = todo
  BY DEF Mounted
<1>2. y = x
  BY <1>1, CommittedSame
<1>3. OnCourse(disk, cache, log, ram, x, todo, mode)
  BY <1>1 DEF InCourse
<1>4. PICK c, e : Heading(c, disk, cache, log, ram, x, <<>>, "orphans", e)
  BY <1>1, <1>3 DEF OnCourse
<1>5. c = e
  BY <1>4, HeadingEnds
<1>6. Current(c, disk, cache, log, ram, x) /\ Bare(c) /\ c.vol.fat[Log] = TAIL
  BY <1>4, <1>5 DEF Heading, Bound
<1>7. log = <<>> /\ ram = NoRam
  BY <1>6 DEF Current, Bare
<1>8. ram' \in Rams
  <2>1. JInv'
    BY MountedInv DEF InCourse
  <2>2. QED BY <2>1 DEF JInv, Types
<1>9. LookedUp(ram')
  BY <1>7, MountedRam
<1>10. Current(c, disk, cache, <<>>, NoRam, x)
  BY <1>6, <1>7
<1>11. \E o, K : Current(o, disk, cache, <<>>, ram', x) /\ Rest(o, K)
  <2> DEFINE r == ram'
  <2>1. r \in Rams /\ LookedUp(r)
    BY <1>8, <1>9
  <2> HIDE DEF r
  <2>2. \E o, K : Current(o, disk, cache, <<>>, r, x) /\ Rest(o, K)
    BY <1>6, <1>10, <2>1, MountedRests
  <2>3. QED BY <2>2 DEF r
<1>12. PICK o, K : Current(o, disk, cache, <<>>, ram', x) /\ Rest(o, K)
  BY <1>11
<1>13. Goes(o, <<>>, o)
  BY <1>12, GoesNone DEF Current
<1>14. Bound("up", o)
  BY <1>12 DEF Bound
<1>15. Heading(o, disk, cache, <<>>, ram', x, <<>>, "up", o)
  BY <1>12, <1>13, <1>14 DEF Heading
<1>16. QED BY <1>1, <1>2, <1>7, <1>15 DEF OnCourse
\* The empty volume.
LEMMA InitPoint ==
  ASSUME Init, NEW v, v = disk
  PROVE  /\ v \in Volume /\ cache = v /\ log = <<>> /\ ram = NoRam /\ todo = <<>> /\ mode = "up"
         /\ v.fat[Log] = TAIL /\ (\A c \in Cluster : v.fat[c] = FREE)
         /\ \A s \in Slot : ~v.live[s]
<1>1. JInv
  BY InitInv
<1>2. v \in Volume
  BY <1>1 DEF JInv, Types
<1>3. /\ v.fat = [c \in FatIndex |-> IF c = Log THEN TAIL ELSE FREE]
      /\ v.live = [s \in Slot |-> FALSE]
      /\ cache = v /\ log = <<>> /\ ram = NoRam /\ todo = <<>> /\ mode = "up"
  BY DEF Init
<1>4. Log \in FatIndex /\ \A c \in Cluster : c \in FatIndex /\ c # Log
  BY RfsAssumption DEF FatIndex
<1>5. QED BY <1>2, <1>3, <1>4

LEMMA EmptySound ==
  ASSUME NEW v, v.fat[Log] = TAIL, \A c \in Cluster : v.fat[c] = FREE, \A s \in Slot : ~v.live[s]
  PROVE  Sound(v) /\ View(v) = <<>>
<1> DEFINE C == [x \in Slot \cup {None} |-> <<>>]
<1>1. C \in Chains
  BY DEF Chains
<1>2. \A x \in Slot \cup {None} : C[x] = <<>>
  OBVIOUS
<1> HIDE DEF C
<1>3. Trail(v.fat, <<>>, TAIL) /\ Once(<<>>) /\ ToSet(<<>>) = {} /\ HeadOr(<<>>, TAIL) = TAIL
  BY TrailNone
<1>4. SoundBy(v, C)
  BY <1>2, <1>3 DEF SoundBy
<1>5. View(v) = <<>>
  <2>1. {t \in Slot : v.live[t]} = {}
    OBVIOUS
  <2>2. View(v) = [s \in {} |-> Chain(v.fat, v.start[s])]
    BY <2>1 DEF View
  <2>3. QED BY <2>2
<1>6. QED BY <1>1, <1>4, <1>5 DEF Sound

LEMMA InitOn ==
  ASSUME Init
  PROVE  InCourse(<<>>)
<1> DEFINE v == disk
           c == Point(v, <<>>, NoRam, v, {}, Slot, FALSE)
           K == [f \in File |-> <<>>]
<1>1. v = disk
  OBVIOUS
<1> HIDE DEF v
<1>2. /\ v \in Volume /\ cache = v /\ log = <<>> /\ ram = NoRam /\ todo = <<>> /\ mode = "up"
      /\ v.fat[Log] = TAIL /\ (\A a \in Cluster : v.fat[a] = FREE)
      /\ \A s \in Slot : ~v.live[s]
  BY <1>1, InitPoint
<1>3. Sound(v) /\ View(v) = <<>>
  BY <1>2, EmptySound
<1>4. JInv
  BY InitInv
<1>5. NoRam \in Rams
  BY <1>2, <1>4 DEF JInv, Types
<1>6. /\ c.vol = v /\ c.log = <<>> /\ c.ram = NoRam /\ c.base = v /\ c.mask = {} /\ c.fixed = Slot
      /\ c.clean = FALSE
  BY DEF Point
<1>7. K \in [File -> Seq(Cluster)] /\ \A f \in File : K[f] = <<>>
  OBVIOUS
<1> HIDE DEF c, K
<1>8. \A f \in File, s \in Slot : ~Owns(NoRam.ino, f, s)
  <2>1. OwnersFixed(c) /\ \A f \in File, s \in Slot : ~Owns(c.ram.ino, f, s)
    BY <1>6, NoOwner
  <2>2. QED BY <1>6, <2>1
<1>9. Sane(c)
  <2>1. Restores(<<>>, v, {})
    BY <1>2, RestoresNone
  <2>2. Agree(v, v, {})
    BY DEF Agree
  <2>3. <<>> \in Seq(RecSet)
    OBVIOUS
  <2>4. QED BY <1>2, <1>3, <1>5, <1>6, <1>8, <2>1, <2>2, <2>3 DEF Sane
<1>10. Shape(v, NoRam, K)
  <2>1. Distinct(NoRam.ino)
    BY <1>8 DEF Distinct
  <2>2. \A f \in File : NoRam.ino[f].st = "none" /\ NoRam.ino[f].start = TAIL
    BY DEF NoRam, NoInode
  <2>3. Trail(v.fat, <<>>, TAIL) /\ Once(<<>>) /\ ToSet(<<>>) = {} /\ HeadOr(<<>>, TAIL) = TAIL
    BY TrailNone
  <2>4. NoRam.segs = <<>> /\ Len(NoRam.segs) = 0
    BY DEF NoRam
  <2>5. SegNext(NoRam, 0) = TAIL
    BY <2>4 DEF SegNext
  <2>6. \A f \in File : /\ Once(K[f]) /\ NoRam.ino[f].start = HeadOr(K[f], TAIL)
                        /\ K[f] # <<>> => NoRam.ino[f].last = K[f][Len(K[f])]
                        /\ NoRam.ino[f].st = "none" => K[f] = <<>>
                        /\ NoRam.ino[f].st = "alloc" => Trail(v.fat, K[f], TAIL)
    BY <1>7, <2>2, <2>3
  <2>7. \A f, g \in File : f # g => ToSet(K[f]) \cap ToSet(K[g]) = {}
    BY <1>7, <2>3
  <2>8. \A k \in 1..Len(NoRam.segs) : Trail(v.fat, K[NoRam.segs[k]], SegNext(NoRam, k))
    BY <2>4
  <2>9. QED BY <1>2, <1>7, <1>8, <2>1, <2>5, <2>6, <2>7, <2>8 DEF Shape
<1>11. NoRam.writer = None /\ NoRam.pre = <<>>
  BY DEF NoRam
<1>12. Rest(c, K)
  BY <1>6, <1>8, <1>10, <1>11 DEF Rest
<1>13. Shows(c, v)
  BY <1>2, <1>6 DEF Shows
<1>14. Agree(v, v, {})
  BY DEF Agree
<1>15. Current(c, v, v, <<>>, NoRam, <<>>)
  BY <1>2, <1>3, <1>6, <1>9, <1>13, <1>14 DEF Current
<1>16. Bound("up", c)
  BY <1>12 DEF Bound
<1>17. Goes(c, <<>>, c)
  BY <1>9, GoesNone
<1>18. Heading(c, v, v, <<>>, NoRam, <<>>, <<>>, "up", c)
  BY <1>15, <1>16, <1>17 DEF Heading
<1>19. OnCourse(v, v, <<>>, NoRam, <<>>, <<>>, "up")
  BY <1>18 DEF OnCourse
<1>20. QED BY <1>1, <1>2, <1>4, <1>19 DEF InCourse

\* Every step keeps it.
LEMMA NextOn ==
  ASSUME NEW x, InCourse(x), Next, NEW y, y = CommittedBy(log, log', cache, x)
  PROVE  InCourse(y)'
<1>1. JInv
  BY DEF InCourse
<1>2. JInv'
  BY <1>1, OperationInv, StepInv, KernelInv, RestartInv, MountedInv DEF Next
<1>3. CASE PowerOff
  BY <1>2, <1>3, PowerOffOn DEF InCourse
<1>4. CASE Operation \/ Step \/ Kernel \/ Mount \/ FreeOrphans \/ Mounted
  <2>1. mode' # "down" /\ OnCourse(disk', cache', log', ram', y, todo', mode')
    BY <1>4, RunsOn, StepOn, KernelOn, MountOn, FreeOrphansOn, MountedOn
  <2>2. QED BY <1>2, <2>1 DEF InCourse
<1>5. QED BY <1>3, <1>4 DEF Next

LEMMA StutterOn ==
  ASSUME NEW x, InCourse(x), UNCHANGED vars
  PROVE  InCourse(x)'
BY StutterInv DEF InCourse, vars
-----------------------------------------------------------------------------
(***************************************************************************)
(* What follows from it.                                                   *)
(***************************************************************************)
LEMMA CourseRecovers ==
  ASSUME InCourse(files)
  PROVE  RecoversCommitted /\ RecoversSound
<1>1. \E b, m : Recovering(disk, log, b, m) /\ files = View(b)
  <2>1. CASE mode = "down"
    BY <2>1 DEF InCourse, Lost
  <2>2. CASE mode # "down"
    <3>1. PICK c, e : Heading(c, disk, cache, log, ram, files, todo, mode, e)
      BY <2>2 DEF InCourse, OnCourse
    <3>2. Current(c, disk, cache, log, ram, files)
      BY <3>1 DEF Heading
    <3>3. Recovering(disk, log, c.base, c.mask) /\ files = View(c.base)
      BY <3>2, CurrentRecovers
    <3>4. QED BY <3>3
  <2>3. QED BY <2>1, <2>2
<1>2. QED BY <1>1, RecoversBy

\* Between two operations the chains of the inodes make up the volume.
LEMMA CourseShape ==
  ASSUME NEW x, InCourse(x), LogFree
  PROVE  cache \in Volume /\ ram \in Rams /\ \E K : Shape(cache, ram, K)
<1>1. mode = "up" /\ todo = <<>>
  BY DEF LogFree
<1>2. OnCourse(disk, cache, log, ram, x, todo, mode)
  BY <1>1 DEF InCourse
<1>3. PICK c, e : Heading(c, disk, cache, log, ram, x, <<>>, "up", e)
  BY <1>1, <1>2 DEF OnCourse
<1>4. c = e
  BY <1>3, HeadingEnds
<1>5. Current(c, disk, cache, log, ram, x) /\ \E K : Rest(c, K)
  BY <1>3, <1>4 DEF Heading, Bound
<1>6. PICK K : Shape(c.vol, c.ram, K)
  BY <1>5 DEF Rest
<1>7. c.ram = ram /\ cache \in Volume /\ cache.fat = c.vol.fat /\ cache.live = c.vol.live /\ ram \in Rams
  BY <1>5 DEF Current, Shows, Sane
<1>8. Shape(cache, ram, K)
  BY <1>6, <1>7, ShapeSame
<1>9. QED BY <1>7, <1>8

\* The ends of the chain of an inode.
ChainEnds(f) ==
  LET i == ram.ino[f]
  IN IF i.start = TAIL THEN i.last = TAIL
     ELSE /\ \A k \in 1..Len(ChainOf(f)) : cache.fat[ChainOf(f)[k]] # FREE
          /\ cache.fat[i.last] = IF i.st = "alloc" THEN TAIL
                                ELSE SegNext(ram, SegIndex(ram, f))

LEMMA ShapeChains ==
  ASSUME cache \in Volume, ram \in Rams, NEW K, Shape(cache, ram, K), NEW f \in File
  PROVE  ChainOf(f) = K[f]
BY ShapeChain

LEMMA ShapeEnds ==
  ASSUME cache \in Volume, ram \in Rams, NEW K, Shape(cache, ram, K),
         NEW f \in File, ram.ino[f].st # "none"
  PROVE  ChainEnds(f)
<1>1. InodeOK(ram.ino[f]) /\ ram.ino[f].st \in {"none", "alloc", "free"}
  <2>1. ram.ino \in [File -> Inodes] /\ InodeOK(ram.ino[f])
    BY RamFields
  <2>2. QED BY <2>1 DEF Inodes
<1>2. CASE ram.ino[f].start = TAIL
  BY <1>1, <1>2 DEF InodeOK, ChainEnds
<1>3. CASE ram.ino[f].start # TAIL
  <2>1. ChainOf(f) = K[f]
    BY ShapeChains
  <2>2. Used(cache, ram, K, f)
    BY ShapeUsed
  <2>3. K[f] \in Seq(Cluster) /\ K[f] # <<>> /\ \A x \in ToSet(K[f]) : cache.fat[x] # FREE
    BY <1>3, <2>2 DEF Used
  <2>4. \A k \in 1..Len(K[f]) : K[f][k] \in ToSet(K[f])
    BY <2>3, SetIs
  <2>5. \A k \in 1..Len(ChainOf(f)) : cache.fat[ChainOf(f)[k]] # FREE
    BY <2>1, <2>3, <2>4
  <2>6. CASE ram.ino[f].st = "alloc"
    <3>1. Trail(cache.fat, K[f], TAIL) /\ ram.ino[f].last = K[f][Len(K[f])]
      BY <2>3, <2>6 DEF Shape
    <3>2. Len(K[f]) \in 1..Len(K[f])
      <4>1. Len(K[f]) \in Nat /\ Len(K[f]) # 0
        BY <2>3, EmptySeq, LenProperties
      <4>2. QED BY <4>1
    <3>3. cache.fat[K[f][Len(K[f])]] = TAIL
      BY <3>1, <3>2 DEF Trail
    <3>4. QED BY <1>3, <2>5, <2>6, <3>1, <3>3 DEF ChainEnds
  <2>7. CASE ram.ino[f].st = "free"
    <3>1. \E k \in 1..Len(ram.segs) : ram.segs[k] = f
      BY <1>3, <2>7, SegFacts
    <3>2. SegIndex(ram, f) \in 1..Len(ram.segs) /\ ram.segs[SegIndex(ram, f)] = f
      BY <3>1 DEF SegIndex
    <3> DEFINE k == SegIndex(ram, f)
    <3>3. k \in 1..Len(ram.segs) /\ ram.segs[k] = f
      BY <3>2
    <3>4. k # 0
      <4>1. Len(ram.segs) \in Nat
        BY SegFacts
      <4>2. QED BY <3>3, <4>1
    <3> HIDE DEF k
    <3>5. cache.fat[SegLast(ram, k)] = SegNext(ram, k)
      BY <3>3, SegHeads DEF SegHeadBy
    <3>6. SegLast(ram, k) = ram.ino[f].last
      BY <3>3, <3>4 DEF SegLast
    <3>7. cache.fat[ram.ino[f].last] = SegNext(ram, SegIndex(ram, f))
      BY <3>5, <3>6 DEF k
    <3>8. QED BY <1>3, <2>5, <2>7, <3>7 DEF ChainEnds
  <2>8. QED BY <1>1, <2>6, <2>7
<1>4. QED BY <1>2, <1>3

LEMMA CourseChains ==
  ASSUME NEW x, InCourse(x)
  PROVE  ChainsAgree
<1> SUFFICES ASSUME LogFree
             PROVE  /\ \A f \in File : ram.ino[f].st # "none" => ChainEnds(f)
                    /\ \A f, g \in File : f # g => ToSet(ChainOf(f)) \cap ToSet(ChainOf(g)) = {}
  BY DEF ChainsAgree, ChainEnds
<1>1. cache \in Volume /\ ram \in Rams /\ \E K : Shape(cache, ram, K)
  BY CourseShape
<1>2. PICK K : Shape(cache, ram, K)
  BY <1>1
<1>3. \A f \in File : ram.ino[f].st # "none" => ChainEnds(f)
  BY <1>1, <1>2, ShapeEnds
<1>4. \A f \in File : ChainOf(f) = K[f]
  BY <1>1, <1>2, ShapeChains
<1>5. \A f, g \in File : f # g => ToSet(K[f]) \cap ToSet(K[g]) = {}
  BY <1>2 DEF Shape
<1>6. QED BY <1>3, <1>4, <1>5

LEMMA CourseSegments ==
  ASSUME NEW x, InCourse(x)
  PROVE  SegmentsHang
<1> SUFFICES ASSUME LogFree
             PROVE  Tail(ChainFrom(cache.fat, Log))
                    = FlattenSeq([k \in 1..Len(ram.segs) |-> ChainOf(ram.segs[k])])
  BY DEF SegmentsHang
<1>1. cache \in Volume /\ ram \in Rams /\ \E K : Shape(cache, ram, K)
  BY CourseShape
<1>2. PICK K : Shape(cache, ram, K)
  BY <1>1
<1>3. \A k \in 1..Len(ram.segs) : ram.segs[k] \in File
  BY <1>1, SegFacts
<1>4. \A k \in 1..Len(ram.segs) : ChainOf(ram.segs[k]) = K[ram.segs[k]]
  BY <1>1, <1>2, <1>3, ShapeChains
<1> DEFINE h == Hanging(ram, K)
           p == FlattenSeq(h)
<1>5. h = [k \in 1..Len(ram.segs) |-> ChainOf(ram.segs[k])]
  BY <1>4 DEF Hanging
<1>6. h = Hanging(ram, K) /\ p = FlattenSeq(h)
  OBVIOUS
<1> HIDE DEF h, p
<1>7. h \in Seq(Seq(Cluster)) /\ Joined(cache.fat, h, TAIL)
      /\ cache.fat[Log] = IF h = <<>> THEN TAIL ELSE h[1][1]
  <2>1. h = Hanging(ram, K)
    BY <1>6
  <2>2. Shape(cache, ram, K) /\ ram \in Rams
    BY <1>1, <1>2
  <2>3. h \in Seq(Seq(Cluster)) /\ Joined(cache.fat, h, TAIL)
    BY <2>1, <2>2, HangingJoined
  <2>4. cache.fat[Log] = IF h = <<>> THEN TAIL ELSE h[1][1]
    BY <2>1, <2>2, HangingJoined
  <2>5. QED BY <2>3, <2>4
<1>8. p \in Seq(Cluster) /\ Trail(cache.fat, p, TAIL) /\ Once(p)
      /\ HeadOr(p, TAIL) = IF h = <<>> THEN TAIL ELSE h[1][1]
  BY <1>6, <1>7, FlattenTrail
<1>9. cache.fat \in FatMap
  BY <1>1, VolumeFields
<1>10. Tail(ChainFrom(cache.fat, Log)) = p
  BY <1>7, <1>8, <1>9, LogChain
<1>11. QED BY <1>5, <1>6, <1>10

-----------------------------------------------------------------------------
\* Every reachable state is on its way between two points of rest, and the files
\* of the last commit point are those that a mount would come to.
THEOREM RecoveryInv == SpecD => []InCourse(files)
<1>1. InitD => InCourse(files)
  <2>1. ASSUME InitD PROVE InCourse(files)
    <3>1. Init /\ files = <<>>
      BY <2>1 DEF InitD
    <3>2. InCourse(<<>>)
      BY <3>1, InitOn
    <3>3. QED BY <3>1, <3>2
  <2>2. QED BY <2>1
<1>2. InCourse(files) /\ [NextD]_<<vars, files>> => InCourse(files)'
  <2>1. ASSUME InCourse(files), NextD PROVE InCourse(files)'
    <3>1. Next /\ files' = CommittedBy(log, log', cache, files)
      BY <2>1 DEF NextD, Committed, CommittedBy, AfterRecord
    <3>2. PICK x : x = files
      OBVIOUS
    <3>3. PICK y : y = files'
      OBVIOUS
    <3>4. InCourse(x)
      BY <2>1, <3>2
    <3>5. y = CommittedBy(log, log', cache, x)
      BY <3>1, <3>2, <3>3
    <3>6. InCourse(y)'
      BY <3>1, <3>4, <3>5, NextOn
    <3>7. QED BY <3>3, <3>6 DEF InCourse
  <2>2. ASSUME InCourse(files), UNCHANGED <<vars, files>> PROVE InCourse(files)'
    <3>1. PICK x : x = files
      OBVIOUS
    <3>2. InCourse(x) /\ UNCHANGED vars /\ files' = x
      BY <2>2, <3>1
    <3>3. InCourse(x)'
      BY <3>2, StutterOn
    <3>4. QED BY <3>2, <3>3 DEF InCourse
  <2>3. QED BY <2>1, <2>2
<1>3. QED BY <1>1, <1>2, PTL DEF SpecD

\* Whatever blocks of the FAT and entries the device has got, in the course of any
\* operation (mark_buffer and meta_commit, log.c): a power loss now, the undo and
\* redo of the records since the last mark (log_replay.c) and the release of
\* orphans give exactly the files of the last commit point.
THEOREM CommittedRecovered == SpecD => []RecoversCommitted
<1>1. InCourse(files) => RecoversCommitted
  BY CourseRecovers
<1>2. QED BY <1>1, RecoveryInv, PTL

\* The volume such a mount comes to is sound: nothing hangs behind the log file,
\* no chain is circular, cut or shared, and every used cluster is in a file.
THEOREM RecoveredSound == SpecD => []RecoversSound
<1>1. InCourse(files) => RecoversSound
  BY CourseRecovers
<1>2. QED BY <1>1, RecoveryInv, PTL

\* The files do not matter to what holds between two operations.
LEMMA SomeCourse == Spec => [](\E x : InCourse(x))
<1> DEFINE I == \E x : InCourse(x)
<1>1. Init => I
  BY InitOn
<1>2. I /\ [Next]_vars => I'
  <2>1. ASSUME I, Next PROVE I'
    <3>1. PICK x : InCourse(x)
      BY <2>1
    <3>2. PICK y : y = CommittedBy(log, log', cache, x)
      OBVIOUS
    <3>3. InCourse(y)'
      BY <2>1, <3>1, <3>2, NextOn
    <3>4. QED BY <3>3
  <2>2. ASSUME I, UNCHANGED vars PROVE I'
    BY <2>2, StutterOn
  <2>3. QED BY <2>1, <2>2
<1> HIDE DEF I
<1>3. Spec => []I
  BY <1>1, <1>2, PTL DEF Spec
<1>4. QED BY <1>3 DEF I

\* The operations of inode.c and log.c find the in-core first and last clusters
\* of every inode at the ends of its chain in the FAT, and no chain shares a
\* cluster with another, wherever write-back and power losses came between.
THEOREM ChainEndsAgree == Spec => []ChainsAgree
<1>1. (\E x : InCourse(x)) => ChainsAgree
  BY CourseChains
<1>2. QED BY <1>1, SomeCourse, PTL

\* The log file's chain is made of those of the unlinked inodes in the order of
\* the candidate list (update_segment, log.c), for any number of them.
THEOREM CandidatesHang == Spec => []SegmentsHang
<1>1. (\E x : InCourse(x)) => SegmentsHang
  BY CourseSegments
<1>2. QED BY <1>1, SomeCourse, PTL
=============================================================================
