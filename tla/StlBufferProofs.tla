--------------------------- MODULE StlBufferProofs ---------------------------
(***************************************************************************)
(* Proofs about StlBuffer, for every number and size of groups, pages and  *)
(* buffer blocks, every set of requests, and any number of writes and      *)
(* power losses: the variables keep their types, so no log and no buffer   *)
(* block is written past its end, and the flush of the buffered page       *)
(* always finds the page that was reserved for it.                         *)
(***************************************************************************)
EXTENDS StlBuffer, TLAPS, FiniteSetTheorems, WellFoundedInduction

(***************************************************************************)
(* Quotients.                                                              *)
(***************************************************************************)
LEMMA Products ==
  ASSUME NEW a \in Nat, NEW b \in Nat, NEW n \in Nat
  PROVE  n * a \in Nat /\ (a <= b => n * a <= n * b) /\ n * (a + 1) = n * a + n
OBVIOUS

LEMMA DivIs ==
  ASSUME NEW a \in Nat, NEW n \in Nat \ {0}
  PROVE  /\ a \div n \in Nat
         /\ n * (a \div n) <= a
         /\ a < n * (a \div n) + n
OBVIOUS

LEMMA DivUnique ==
  ASSUME NEW a \in Nat, NEW n \in Nat \ {0}, NEW q \in Nat,
         n * q <= a, a < n * q + n
  PROVE  a \div n = q
<1>1. PICK r \in 0 .. (n - 1) : a = n * q + r
  <2>1. n * q \in Nat
    BY Products
  <2>2. a - n * q \in 0 .. (n - 1) /\ a = n * q + (a - n * q)
    BY <2>1
  <2>3. QED BY <2>2
<1>2. QED BY <1>1

LEMMA DivMonotone ==
  ASSUME NEW a \in Nat, NEW b \in Nat, NEW n \in Nat \ {0}, a <= b
  PROVE  a \div n <= b \div n
<1> DEFINE p == a \div n
           q == b \div n
<1>1. p \in Nat /\ q \in Nat /\ n * p <= a /\ b < n * q + n
  BY DivIs
<1> HIDE DEF p, q
<1>2. n * p < n * (q + 1)
  <2>1. n * p \in Nat /\ n * q \in Nat /\ n * (q + 1) = n * q + n
    BY <1>1, Products
  <2>2. QED BY <1>1, <2>1
<1>3. ~(q + 1 <= p)
  <2>1. q + 1 \in Nat /\ n * p \in Nat /\ n * (q + 1) \in Nat
    BY <1>1, Products
  <2>2. q + 1 <= p => n * (q + 1) <= n * p
    BY <1>1, <2>1, Products
  <2>3. QED BY <1>2, <2>1, <2>2
<1>4. p <= q
  BY <1>1, <1>3
<1>5. QED BY <1>4 DEF p, q

LEMMA DivBelow ==
  ASSUME NEW a \in Nat, NEW m \in Nat, NEW n \in Nat \ {0}, a < n * m
  PROVE  a \div n < m
<1> DEFINE p == a \div n
<1>1. p \in Nat /\ n * p <= a
  BY DivIs
<1> HIDE DEF p
<1>2. m <= p => n * m <= n * p
  BY <1>1, Products
<1>3. n * m \in Nat /\ n * p \in Nat
  BY <1>1, Products
<1>4. p < m
  BY <1>1, <1>2, <1>3
<1>5. QED BY <1>4 DEF p

\* The group of a page of a sector is the block of the sector.
LEMMA DivDiv ==
  ASSUME NEW a \in Nat, NEW m \in Nat \ {0}, NEW n \in Nat \ {0}
  PROVE  (a \div n) \div m = a \div (m * n)
<1> DEFINE p == a \div n
           q == p \div m
<1>1. /\ p \in Nat /\ n * p <= a /\ a < n * p + n
      /\ q \in Nat /\ m * q <= p /\ p < m * q + m
  BY DivIs
<1> HIDE DEF p, q
<1>2. m * n \in Nat \ {0}
  OBVIOUS
<1>3. m * q \in Nat /\ m * q + m \in Nat /\ n * p \in Nat
  BY <1>1, Products
<1>4. n * (m * q) <= n * p /\ n * (m * q) \in Nat
  BY <1>1, <1>3, Products
<1>5. n * (p + 1) <= n * (m * q + m) /\ n * (p + 1) = n * p + n
  <2>1. p + 1 <= m * q + m /\ p + 1 \in Nat
    BY <1>1, <1>3
  <2>2. QED BY <1>1, <1>3, <2>1, Products
<1>6. n * (m * q) = (m * n) * q /\ n * (m * q + m) = (m * n) * q + m * n
  BY <1>1
<1>7. (m * n) * q <= a /\ a < (m * n) * q + m * n
  <2>1. (m * n) * q \in Nat
    BY <1>4, <1>6
  <2>2. QED BY <1>1, <1>2, <1>3, <1>4, <1>5, <1>6, <2>1
<1>8. a \div (m * n) = q
  BY <1>1, <1>2, <1>7, DivUnique
<1>9. QED BY <1>8 DEF p, q

NumLpns == NumGroups * PagesPerSBlk

LEMMA Sizes ==
  /\ NumLpns \in Nat \ {0} /\ Lpns = 0 .. (NumLpns - 1) /\ Cardinality(Lpns) = NumLpns
  /\ Lpns \subseteq Nat /\ Groups \subseteq Nat /\ Secs \subseteq Nat
  /\ None \notin Lpns /\ None \notin Groups /\ 0 \in Secs
  /\ SctsPerBlk \in Nat \ {0}
<1>1. NumLpns \in Nat \ {0}
  BY SizesAssumption DEF NumLpns
<1>2. Lpns = 0 .. (NumLpns - 1)
  BY DEF Lpns, NumLpns
<1>3. Cardinality(Lpns) = NumLpns
  <2>1. NumLpns - 1 \in Int /\ (IF 0 > NumLpns - 1 THEN 0 ELSE (NumLpns - 1) - 0 + 1) = NumLpns
    BY <1>1
  <2>2. QED BY <1>2, <2>1, FS_Interval
<1>4. SctsPerBlk \in Nat \ {0}
  BY SizesAssumption DEF SctsPerBlk
<1>5. QED BY <1>1, <1>2, <1>3, <1>4, SizesAssumption DEF Groups, Secs, None

LEMMA GrpType ==
  ASSUME NEW l \in Lpns
  PROVE  Grp(l) \in Groups
<1>1. l \in Nat /\ l < PagesPerSBlk * NumGroups
  BY Sizes, SizesAssumption DEF NumLpns
<1>2. l \div PagesPerSBlk < NumGroups /\ l \div PagesPerSBlk \in Nat
  BY <1>1, SizesAssumption, DivBelow, DivIs
<1>3. QED BY <1>2, SizesAssumption DEF Grp, Groups

LEMMA GrpNone == Grp(None) \notin Groups
<1>1. (-1) \div PagesPerSBlk = -1
  BY SizesAssumption
<1>2. QED BY <1>1, Sizes DEF Grp, None
-----------------------------------------------------------------------------
(***************************************************************************)
(* Least and greatest elements.                                            *)
(***************************************************************************)
Below == OpToRel(<, Nat)

LEMMA Least ==
  ASSUME NEW S \in SUBSET Nat, S # {}
  PROVE  \E x \in S : \A y \in S : x <= y
<1>1. IsWellFoundedOn(Below, Nat)
  BY NatLessThanWellFounded DEF Below
<1>2. PICK x \in S : \A y \in S : ~(<<y, x>> \in Below)
  BY <1>1, WFMin
<1>3. ASSUME NEW y \in S, y < x PROVE <<y, x>> \in Below
  BY <1>3 DEF OpToRel, Below
<1>4. ASSUME NEW y \in S PROVE x <= y
  <2>1. ~(y < x)
    BY <1>2, <1>3
  <2>2. QED BY <2>1
<1>5. QED BY <1>4

LEMMA MinIn ==
  ASSUME NEW S \in SUBSET Nat, S # {}
  PROVE  Min(S) \in S /\ \A y \in S : Min(S) <= y
<1>1. \E x \in S : \A y \in S : x <= y
  BY Least
<1>2. QED BY <1>1 DEF Min

LEMMA MaxIn ==
  ASSUME NEW n \in Nat, NEW S \in SUBSET (0 .. n), S # {}
  PROVE  Max(S) \in S /\ \A y \in S : y <= Max(S)
<1> DEFINE R == {n - x : x \in S}
<1>1. R \in SUBSET Nat /\ R # {}
  <2>1. ASSUME NEW x \in S PROVE n - x \in Nat
    OBVIOUS
  <2>2. QED BY <2>1
<1>2. PICK z \in R : \A y \in R : z <= y
  BY <1>1, Least
<1>3. PICK x \in S : z = n - x
  OBVIOUS
<1>4. ASSUME NEW y \in S PROVE x >= y
  <2>1. n - y \in R
    OBVIOUS
  <2>2. z <= n - y
    BY <1>2, <2>1
  <2>3. x \in Nat /\ y \in Nat
    OBVIOUS
  <2>4. QED BY <1>3, <2>2, <2>3
<1>5. Max(S) \in S /\ \A y \in S : Max(S) >= y
  BY <1>4 DEF Max
<1>6. ASSUME NEW y \in S PROVE y <= Max(S)
  BY <1>5
<1>7. QED BY <1>5, <1>6

\* Of two numbers.
LEMMA MinOfTwo ==
  ASSUME NEW a \in Nat, NEW b \in Nat
  PROVE  Min({a, b}) = IF a <= b THEN a ELSE b
<1>1. Min({a, b}) \in {a, b} /\ Min({a, b}) <= a /\ Min({a, b}) <= b
  BY MinIn
<1> DEFINE m == Min({a, b})
<1>2. m \in {a, b} /\ m <= a /\ m <= b
  BY <1>1
<1> HIDE DEF m
<1>3. m = IF a <= b THEN a ELSE b
  BY <1>2
<1>4. QED BY <1>3 DEF m

LEMMA MaxOfTwo ==
  ASSUME NEW n \in Nat, NEW a \in 0 .. n, NEW b \in 0 .. n
  PROVE  Max({a, b}) \in 0 .. n /\ a <= Max({a, b}) /\ b <= Max({a, b})
BY MaxIn
-----------------------------------------------------------------------------
(***************************************************************************)
(* The invariant.                                                          *)
(***************************************************************************)
Bufs == [lpn : Lpns \cup {None}, dirty : BOOLEAN, valid : SUBSET Secs,
         data : Data, cp : 0 .. BufPages]
Kinds == {"none", "write", "delete", "close", "open"}
Steps == {"none", "start", "page", "buffer", "bmt", "reserve", "invalidate",
          "map", "erase", "store", "flush"}
Ops == [kind : Kinds, step : Steps, from : Nat, to : Nat, last : Nat,
        lpn : Lpns \cup {None}]

LogTypes ==
    /\ pages \in [Groups -> Seq(LogPage)]
    /\ \A g \in Groups : Len(pages[g]) <= PagesPerSBlk
    /\ active \subseteq Groups /\ unscanned \subseteq active
    /\ stored \in [Groups -> 0 .. PagesPerSBlk]
    /\ cp \in [Groups -> 0 .. PagesPerSBlk]
BlkTypes ==
    /\ bblk \in [{1, 2} -> Seq(BufPage)]
    /\ \A b \in {1, 2} : Len(bblk[b]) <= BufPages
    /\ storedBBlk \in {1, 2} /\ bBlkVbn \in {1, 2}
MapTypes ==
    /\ pmt \in [Lpns -> Data] /\ map \in [Lpns -> Data]
    /\ secured \in [Lpns -> Data] /\ reverted \subseteq Lpns
    /\ dropped \in BOOLEAN /\ writes \in 0 .. MaxWrites
CallTypes ==
    /\ buf \in Bufs /\ (buf.dirty => buf.lpn \in Lpns)
    /\ delGrp \in Groups \cup {None}
    /\ open \in BOOLEAN /\ flushing \in BOOLEAN /\ op \in Ops
Types == LogTypes /\ BlkTypes /\ MapTypes /\ CallTypes

\* A write stays within its request and within one group, and its page within
\* the sectors of the call; a delete is of a page of the zone.
InRange(o) ==
    /\ o.from <= o.to /\ o.to <= o.last /\ o.last < NumLpns * SecPerVPg
    /\ o.lpn \in o.from \div SecPerVPg .. o.to \div SecPerVPg
    /\ Grp(o.from \div SecPerVPg) = Grp(o.to \div SecPerVPg)
Ranged ==
    /\ op.kind = "write" => InRange(op)
    /\ op.kind = "delete" => op.lpn \in Lpns

\* Nothing runs on a zone that is not open, a close stores when every log is
\* scanned and nothing is buffered, an open when the buffer block is empty; a
\* delete waits for a log that is scanned.
Phases ==
    /\ ~open => op.kind = "none" /\ ~flushing /\ delGrp = None /\ unscanned = {}
    /\ op.kind = "close" /\ op.step \in {"erase", "store"} => unscanned = {}
    /\ op.kind = "close" /\ op.step = "store" => ~buf.dirty
    /\ op.kind = "open" /\ op.step = "store" => bblk[bBlkVbn] = <<>>
    /\ op.kind = "write" /\ op.step \in {"buffer", "bmt"} => Grp(op.lpn) \notin unscanned
    /\ op.kind = "write" /\ op.step = "bmt" => buf.lpn = op.lpn /\ ~flushing
    /\ delGrp # None => delGrp \notin unscanned

\* nCPOffs is where the log ends: of a log out of use on flash, and of a scanned
\* log in RAM; or the log is closed for writing.
Ends ==
    /\ \A g \in Groups : g \notin active /\ stored[g] < PagesPerSBlk =>
                             Len(pages[g]) = stored[g]
    /\ \A g \in Groups : open /\ g \notin unscanned /\ cp[g] < PagesPerSBlk =>
                             Len(pages[g]) = cp[g]
BufEnds == open => buf.cp = BufPages \/ Len(bblk[bBlkVbn]) = buf.cp

\* A page is reserved for the buffered page, or the write that is still in that
\* group is going to reserve it.
Room == open /\ buf.dirty /\ op.kind # "open" =>
    /\ Grp(buf.lpn) \notin unscanned
    /\ \/ HasRoom(Grp(buf.lpn))
       \/ op.kind = "write" /\ op.step # "start" /\ Grp(op.lpn) = Grp(buf.lpn)

Inv == Types /\ Ranged /\ Phases /\ Ends /\ BufEnds /\ Room
-----------------------------------------------------------------------------
(***************************************************************************)
(* The operators keep the types.                                           *)
(***************************************************************************)
LEMMA BlankType == Blank \in Data
BY SizesAssumption DEF Blank, Data

LEMMA TornType == Torn \in LogPage /\ TornBuf \in BufPage
BY BlankType DEF Torn, TornBuf, LogPage, BufPage

LEMMA NoBufType ==
  ASSUME NEW n \in 0 .. BufPages
  PROVE  NoBuf(n) \in Bufs /\ NoBuf(n).cp = n /\ ~NoBuf(n).dirty /\ NoBuf(n).lpn = None
BY BlankType DEF NoBuf, Bufs

LEMMA IdleType == Idle \in Ops /\ Idle.kind = "none" /\ Idle.step = "none"
BY DEF Idle, Ops, Kinds, Steps

LEMMA MergedType ==
  ASSUME NEW l \in Lpns, NEW m \in [Lpns -> Data], NEW b \in Bufs
  PROVE  Merged(l, m, b) \in Data
<1>1. m[l] \in Data /\ b.data \in Data
  BY DEF Bufs
<1>2. QED BY <1>1 DEF Merged, Data

LEMMA OverlayType ==
  ASSUME NEW m \in [Lpns -> Data], NEW n \in [Lpns -> Data], NEW g
  PROVE  Overlay(m, g, n) \in [Lpns -> Data]
BY DEF Overlay

LEMMA SecureType ==
  ASSUME NEW g, NEW m \in [Lpns -> Data], NEW b \in Bufs, secured \in [Lpns -> Data]
  PROVE  Secure(g, m, b) \in [Lpns -> Data]
<1>1. ASSUME NEW l \in Lpns
      PROVE [s \in Secs |-> IF Grp(l) = g THEN Max({secured[l][s], Merged(l, m, b)[s]})
                            ELSE secured[l][s]] \in Data
  <2>1. ASSUME NEW s \in Secs
        PROVE  (IF Grp(l) = g THEN Max({secured[l][s], Merged(l, m, b)[s]})
                ELSE secured[l][s]) \in 0 .. MaxWrites
    <3>1. secured[l][s] \in 0 .. MaxWrites /\ Merged(l, m, b)[s] \in 0 .. MaxWrites
      BY MergedType DEF Data
    <3>2. QED BY <3>1, MaxOfTwo, SizesAssumption
  <2>2. QED BY <2>1 DEF Data
<1>2. QED BY <1>1 DEF Secure

\* Taking over pages of a log keeps the type of the map: the pages are there.
LEMMA ApplyType ==
  ASSUME NEW m \in [Lpns -> Data], NEW ps \in Seq(LogPage), NEW first \in Nat \ {0},
         NEW n \in Int, n <= Len(ps) \/ n < first
  PROVE  Apply(m, ps, first, n) \in [Lpns -> Data]
<1>1. ASSUME NEW l \in Lpns
      PROVE  (LET at == {i \in first .. n : ps[i].lpn = l}
              IN  IF at = {} THEN m[l] ELSE ps[Max(at)].data) \in Data
  <2> DEFINE at == {i \in first .. n : ps[i].lpn = l}
  <2>1. CASE at = {}
    BY <2>1
  <2>2. CASE at # {}
    <3>1. n <= Len(ps) /\ n \in Nat /\ at \subseteq 0 .. n
      BY <2>2
    <3>2. Max(at) \in at
      BY <2>2, <3>1, MaxIn
    <3>3. Max(at) \in 1 .. Len(ps)
      BY <3>1, <3>2
    <3>4. ps[Max(at)] \in LogPage
      BY <3>3
    <3>5. QED BY <2>2, <3>4 DEF LogPage
  <2>3. QED BY <2>1, <2>2
<1>2. QED BY <1>1 DEF Apply

LEMMA RecoverIs ==
  ASSUME NEW ps \in Seq(LogPage), NEW first \in Nat \ {0}, NEW b
  PROVE  /\ RecoverTo(ps, first, b) \in Int
         /\ RecoverTo(ps, first, b) <= Len(ps) \/ RecoverTo(ps, first, b) < first
<1> DEFINE ok == {i \in first .. Len(ps) : ps[i].lpn # None}
           last == LastValid(ps, first)
           good == {i \in first .. last : ps[i].lpn # None /\ Confirmed(ps, i, b)}
<1>0. Len(ps) \in Nat
  OBVIOUS
<1>1. last \in 0 .. Len(ps)
  <2>1. CASE ok = {}
    BY <1>0, <2>1 DEF LastValid
  <2>2. CASE ok # {}
    <3>1. ok \subseteq 0 .. Len(ps)
      BY <1>0
    <3>2. Max(ok) \in ok
      BY <1>0, <2>2, <3>1, MaxIn
    <3>3. last = Max(ok)
      BY <2>2 DEF LastValid
    <3>4. QED BY <3>1, <3>2, <3>3
  <2>3. QED BY <2>1, <2>2
<1>2. RecoverTo(ps, first, b) = IF last = 0 \/ good = {} THEN first - 1 ELSE Max(good)
  BY DEF RecoverTo
<1> HIDE DEF last, ok
<1>3. CASE last = 0 \/ good = {}
  BY <1>2, <1>3
<1>4. CASE ~(last = 0 \/ good = {})
  <2>1. good \subseteq 0 .. Len(ps)
    BY <1>0, <1>1
  <2>2. Max(good) \in good
    BY <1>0, <1>4, <2>1, MaxIn
  <2>3. Max(good) \in 0 .. Len(ps)
    BY <2>1, <2>2
  <2>4. QED BY <1>0, <1>2, <1>4, <2>3
<1>5. QED BY <1>3, <1>4

\* What an open finds in the buffer block has the type of a buffered page.
LEMMA ScanBufferType ==
  ASSUME NEW ps \in Seq(BufPage)
  PROVE  /\ ScanBufferBlk(ps) \in Bufs /\ ScanBufferBlk(ps).cp = BufPages
         /\ ScanBufferBlk(ps).dirty => ScanBufferBlk(ps).lpn \in Lpns
<1> DEFINE bad == {i \in 1 .. Len(ps) : ps[i].lpn = None}
           n == IF bad = {} THEN Len(ps) ELSE Min(bad) - 1
           r == [lpn |-> ps[n].lpn, dirty |-> TRUE,
                 valid |-> 0 .. Cardinality(ps[n].valid) - 1,
                 data |-> ps[n].data, cp |-> BufPages]
<1>0. Len(ps) \in Nat /\ BufPages \in 0 .. BufPages
  BY SizesAssumption
<1>1. n \in 0 .. Len(ps) /\ n \notin bad
  <2>1. CASE bad = {}
    BY <1>0, <2>1
  <2>2. CASE bad # {}
    <3>1. bad \in SUBSET Nat
      BY <1>0
    <3>2. Min(bad) \in bad /\ \A y \in bad : Min(bad) <= y
      BY <2>2, <3>1, MinIn
    <3>3. Min(bad) \in 1 .. Len(ps)
      BY <3>2
    <3>4. n = Min(bad) - 1
      BY <2>2
    <3> HIDE DEF n, bad
    <3>5. n \notin bad
      BY <3>2, <3>3, <3>4
    <3>6. QED BY <1>0, <3>3, <3>4, <3>5
  <2>3. QED BY <2>1, <2>2
<1>2. ScanBufferBlk(ps) = IF n = 0 THEN NoBuf(BufPages) ELSE r
  BY DEF ScanBufferBlk
<1> HIDE DEF n
<1>3. CASE n = 0
  BY <1>0, <1>2, <1>3, NoBufType
<1>4. CASE n # 0
  <2>1. n \in 1 .. Len(ps) /\ ps[n] \in BufPage /\ ps[n].lpn # None
    BY <1>0, <1>1, <1>4
  <2>2. ps[n].lpn \in Lpns /\ ps[n].data \in Data /\ ps[n].valid \in SUBSET Secs
    BY <2>1 DEF BufPage
  <2>3. 0 .. Cardinality(ps[n].valid) - 1 \subseteq Secs
    <3>1. IsFiniteSet(Secs) /\ Cardinality(Secs) = SecPerVPg
      <4>1. SecPerVPg - 1 \in Int /\ (IF 0 > SecPerVPg - 1 THEN 0 ELSE (SecPerVPg - 1) - 0 + 1) = SecPerVPg
        BY SizesAssumption
      <4>2. QED BY <4>1, FS_Interval DEF Secs
    <3>2. Cardinality(ps[n].valid) <= SecPerVPg /\ Cardinality(ps[n].valid) \in Nat
      BY <2>2, <3>1, FS_Subset, FS_CardinalityType
    <3>3. QED BY <3>2, SizesAssumption DEF Secs
  <2>4. r \in Bufs /\ r.cp = BufPages /\ r.lpn \in Lpns
    BY <1>0, <2>2, <2>3 DEF Bufs
  <2>5. QED BY <1>2, <1>4, <2>4
<1>5. QED BY <1>3, <1>4
-----------------------------------------------------------------------------
(***************************************************************************)
(* What the parts of the actions do.                                       *)
(***************************************************************************)
\* The log of a group that is scanned and open for writing ends at nCPOffs.
LEMMA EndIs ==
  ASSUME LogTypes, Ends, open, NEW g \in Groups, g \notin unscanned, cp[g] < PagesPerSBlk
  PROVE  Len(pages[g]) = cp[g] /\ cp[g] \in Nat
BY DEF LogTypes, Ends

LEMMA StoreTypes ==
  ASSUME Types, NEW g, NEW n, g \in Groups => n \in 0 .. PagesPerSBlk, StorePMTCtx(g, n)
  PROVE  /\ stored' \in [Groups -> 0 .. PagesPerSBlk]
         /\ pmt' \in [Lpns -> Data] /\ secured' \in [Lpns -> Data]
         /\ dropped' \in BOOLEAN /\ storedBBlk' \in {1, 2}
<1>1. pmt' \in [Lpns -> Data]
  BY OverlayType DEF StorePMTCtx, Types, MapTypes
<1>2. secured' \in [Lpns -> Data]
  BY SecureType DEF StorePMTCtx, Types, MapTypes, CallTypes
<1>3. stored' \in [Groups -> 0 .. PagesPerSBlk]
  BY DEF StorePMTCtx, Types, LogTypes
<1>4. QED BY <1>1, <1>2, <1>3 DEF StorePMTCtx, Types, MapTypes, BlkTypes

\* After a power loss nothing is left in RAM that could be wrong.
LEMMA OffKeeps ==
  ASSUME Off
  PROVE  /\ cp' \in [Groups -> 0 .. PagesPerSBlk] /\ unscanned' = {} /\ open' = FALSE
         /\ map' \in [Lpns -> Data] /\ bBlkVbn' \in {1, 2}
         /\ CallTypes' /\ Ranged' /\ Phases' /\ BufEnds' /\ Room'
<1>1. /\ op' = Idle /\ buf' = NoBuf(0) /\ open' = FALSE /\ flushing' = FALSE
      /\ delGrp' = None /\ unscanned' = {}
  BY DEF Off
<1>2. CallTypes'
  <2>1. NoBuf(0) \in Bufs /\ ~NoBuf(0).dirty
    BY NoBufType, SizesAssumption
  <2>2. buf' \in Bufs /\ ~buf'.dirty
    BY <1>1, <2>1
  <2>3. delGrp' \in Groups \cup {None} /\ open' \in BOOLEAN /\ flushing' \in BOOLEAN /\ op' \in Ops
    BY <1>1, IdleType
  <2>4. QED BY <2>2, <2>3 DEF CallTypes
<1>3. Ranged' /\ Phases' /\ BufEnds' /\ Room'
  BY <1>1, IdleType DEF Ranged, Phases, BufEnds, Room
<1>4. /\ cp' \in [Groups -> 0 .. PagesPerSBlk] /\ map' \in [Lpns -> Data]
      /\ bBlkVbn' \in {1, 2}
  BY BlankType, SizesAssumption DEF Off
<1>5. QED BY <1>1, <1>2, <1>3, <1>4

\* What is on flash when the power goes off, if only the flash has changed.
LEMMA OffInv ==
  ASSUME Off, pages' \in [Groups -> Seq(LogPage)],
         \A g \in Groups : Len(pages'[g]) <= PagesPerSBlk,
         active' \subseteq Groups, stored' \in [Groups -> 0 .. PagesPerSBlk],
         bblk' \in [{1, 2} -> Seq(BufPage)],
         \A b \in {1, 2} : Len(bblk'[b]) <= BufPages,
         storedBBlk' \in {1, 2}, pmt' \in [Lpns -> Data], secured' \in [Lpns -> Data],
         reverted' \subseteq Lpns, dropped' \in BOOLEAN, writes' \in 0 .. MaxWrites,
         \A g \in Groups : g \notin active' /\ stored'[g] < PagesPerSBlk =>
                               Len(pages'[g]) = stored'[g]
  PROVE  Inv'
<1>1. LogTypes'
  BY OffKeeps DEF LogTypes
<1>2. BlkTypes'
  BY OffKeeps DEF BlkTypes
<1>3. MapTypes'
  BY OffKeeps DEF MapTypes
<1>4. Ends'
  BY OffKeeps DEF Ends
<1>5. QED BY <1>1, <1>2, <1>3, <1>4, OffKeeps DEF Inv, Types

\* A page behind the end of a log, whole or torn.
LEMMA AppendLog ==
  ASSUME LogTypes, Ends, open, NEW g \in Groups, g \notin unscanned, HasRoom(g),
         NEW page \in LogPage, pages' = [pages EXCEPT ![g] = Append(@, page)]
  PROVE  /\ pages' \in [Groups -> Seq(LogPage)]
         /\ \A h \in Groups : Len(pages'[h]) = IF h = g THEN cp[g] + 1 ELSE Len(pages[h])
         /\ \A h \in Groups : Len(pages'[h]) <= PagesPerSBlk
         /\ cp[g] + 1 \in 0 .. PagesPerSBlk
<1>1. g \in active /\ cp[g] < PagesPerSBlk /\ cp[g] \in Nat /\ pages[g] \in Seq(LogPage)
  BY DEF HasRoom, LogTypes
<1>2. Len(pages[g]) = cp[g]
  BY <1>1, EndIs
<1>3. Append(pages[g], page) \in Seq(LogPage) /\ Len(Append(pages[g], page)) = cp[g] + 1
  BY <1>1, <1>2
<1>4. cp[g] + 1 \in 0 .. PagesPerSBlk
  BY <1>1, SizesAssumption
<1>5. pages' \in [Groups -> Seq(LogPage)]
  BY <1>3 DEF LogTypes
<1>6. \A h \in Groups : Len(pages'[h]) = IF h = g THEN cp[g] + 1 ELSE Len(pages[h])
  BY <1>3 DEF LogTypes
<1>7. \A h \in Groups : Len(pages'[h]) <= PagesPerSBlk
  BY <1>1, <1>4, <1>6 DEF LogTypes
<1>8. QED BY <1>4, <1>5, <1>6, <1>7

LEMMA TornKeeps ==
  ASSUME Inv, open, NEW g \in Groups, g \notin unscanned, HasRoom(g), TornLogPage(g)
  PROVE  Inv'
<1>1. /\ pages' \in [Groups -> Seq(LogPage)]
      /\ \A h \in Groups : Len(pages'[h]) = IF h = g THEN cp[g] + 1 ELSE Len(pages[h])
      /\ \A h \in Groups : Len(pages'[h]) <= PagesPerSBlk
  BY AppendLog, TornType DEF TornLogPage, Inv, Types
<1>2. g \in active
  BY DEF HasRoom
<1>3. Off /\ UNCHANGED <<active, stored, pmt, bblk, storedBBlk, writes, secured, dropped, reverted>>
  BY DEF TornLogPage
<1>4. \A h \in Groups : h \notin active' /\ stored'[h] < PagesPerSBlk =>
                               Len(pages'[h]) = stored'[h]
  BY <1>1, <1>2, <1>3 DEF Inv, Ends
<1>5. /\ active' \subseteq Groups /\ stored' \in [Groups -> 0 .. PagesPerSBlk]
      /\ bblk' \in [{1, 2} -> Seq(BufPage)]
      /\ \A b \in {1, 2} : Len(bblk'[b]) <= BufPages
      /\ storedBBlk' \in {1, 2} /\ pmt' \in [Lpns -> Data] /\ secured' \in [Lpns -> Data]
      /\ reverted' \subseteq Lpns /\ dropped' \in BOOLEAN /\ writes' \in 0 .. MaxWrites
  BY <1>3 DEF Inv, Types, LogTypes, BlkTypes, MapTypes
<1>6. QED BY <1>1, <1>3, <1>4, <1>5, OffInv
-----------------------------------------------------------------------------
(***************************************************************************)
(* The range of a write.                                                   *)
(***************************************************************************)
\* The pages of a call are pages of the zone, all of the same group.
LEMMA PageOf ==
  ASSUME NEW o \in Ops, InRange(o), NEW l \in Nat,
         o.from \div SecPerVPg <= l, l <= o.to \div SecPerVPg
  PROVE  /\ l \in Lpns /\ Grp(l) = Grp(o.from \div SecPerVPg)
         /\ o.from \div SecPerVPg \in Nat /\ o.to \div SecPerVPg \in Nat
         /\ o.to \div SecPerVPg < NumLpns
<1> DEFINE a == o.from \div SecPerVPg
           b == o.to \div SecPerVPg
<1>1. /\ o.from \in Nat /\ o.to \in Nat /\ o.last \in Nat /\ SecPerVPg \in Nat \ {0}
      /\ NumLpns \in Nat /\ NumLpns \in Nat \ {0} /\ NumLpns * SecPerVPg \in Nat
      /\ o.from <= o.to /\ o.to <= o.last /\ o.last < NumLpns * SecPerVPg
  BY Sizes, SizesAssumption DEF Ops, InRange
<1>2. o.to < SecPerVPg * NumLpns
  BY <1>1
<1>3. a \in Nat /\ b \in Nat /\ b < NumLpns
  BY <1>1, <1>2, DivIs, DivBelow
<1>4. Grp(a) = Grp(b)
  BY DEF InRange
<1> HIDE DEF a, b
<1>5. a <= l /\ l <= b
  BY DEF a, b
<1>6. l \in Lpns
  BY <1>1, <1>3, <1>5, Sizes
<1>7. Grp(a) <= Grp(l) /\ Grp(l) <= Grp(b)
  BY <1>3, <1>5, SizesAssumption, DivMonotone DEF Grp
<1>8. Grp(a) \in Nat /\ Grp(l) \in Nat /\ Grp(b) \in Nat
  BY <1>3, SizesAssumption, DivIs DEF Grp
<1>9. Grp(l) = Grp(a)
  BY <1>4, <1>7, <1>8
<1>10. QED BY <1>3, <1>6, <1>9 DEF a, b

LEMMA WritesPage ==
  ASSUME op \in Ops, InRange(op)
  PROVE  op.lpn \in Lpns /\ Grp(op.lpn) \in Groups
<1>1. op.from \div SecPerVPg \in Nat /\ op.to \div SecPerVPg \in Nat
  BY SizesAssumption, DivIs DEF Ops
<1>2. op.lpn \in Nat /\ op.from \div SecPerVPg <= op.lpn /\ op.lpn <= op.to \div SecPerVPg
  BY <1>1 DEF InRange
<1>3. QED BY <1>2, PageOf, GrpType

\* On to the next page of the call.
LEMMA AdvanceKeeps ==
  ASSUME op \in Ops, op.kind = "write", InRange(op), Advance(op.lpn)
  PROVE  /\ op' \in Ops /\ op'.kind = "write" /\ InRange(op')
         /\ op'.step \in {"page", "reserve"} /\ Grp(op'.lpn) = Grp(op.lpn)
<1> DEFINE a == op.from \div SecPerVPg
           b == op.to \div SecPerVPg
<1>1. a \in Nat /\ b \in Nat
  BY SizesAssumption, DivIs DEF Ops
<1>2. op.lpn \in Nat /\ a <= op.lpn /\ op.lpn <= b
  BY <1>1 DEF InRange
<1>3. op.lpn \in Lpns /\ Grp(op.lpn) = Grp(a)
  BY <1>2, PageOf
<1>4. CASE op.lpn = b
  <2>1. op' = [op EXCEPT !.step = "reserve"]
    BY <1>4 DEF Advance, EndLpn
  <2>2. op' \in Ops /\ op'.kind = "write" /\ op'.step = "reserve"
    BY <2>1 DEF Ops, Steps
  <2>3. op'.lpn = op.lpn /\ op'.from = op.from /\ op'.to = op.to /\ op'.last = op.last
    BY <2>1 DEF Ops
  <2>4. InRange(op')
    BY <2>3 DEF InRange
  <2>5. QED BY <2>2, <2>3, <2>4
<1>5. CASE op.lpn # b
  <2>1. op' = [op EXCEPT !.lpn = op.lpn + 1, !.step = "page"]
    BY <1>5 DEF Advance, EndLpn
  <2> HIDE DEF a, b
  <2>2. op.lpn + 1 \in Nat /\ a <= op.lpn + 1 /\ op.lpn + 1 <= b
    BY <1>1, <1>2, <1>5
  <2>3. op.lpn + 1 \in Lpns /\ Grp(op.lpn + 1) = Grp(a)
    BY <2>2, PageOf DEF a, b
  <2>4. op' \in Ops /\ op'.kind = "write" /\ op'.step = "page"
    BY <2>1, <2>3 DEF Ops, Steps
  <2>5. op'.lpn = op.lpn + 1 /\ op'.from = op.from /\ op'.to = op.to /\ op'.last = op.last
    BY <2>1 DEF Ops
  <2>6. op'.lpn \in a .. b
    BY <1>1, <2>2, <2>5
  <2>7. InRange(op')
    BY <2>5, <2>6 DEF InRange, a, b
  <2>8. QED BY <1>3, <2>3, <2>4, <2>5, <2>7
<1>6. QED BY <1>4, <1>5

\* A call for the sectors from the first one to the end of its group, or of the
\* request.
LEMMA ZoneCallRange ==
  ASSUME NEW from \in Nat, NEW last \in Nat, from <= last, last < NumLpns * SecPerVPg
  PROVE  /\ ZoneCall(from, last) \in Ops /\ InRange(ZoneCall(from, last))
         /\ ZoneCall(from, last).kind = "write" /\ ZoneCall(from, last).step = "start"
<1> DEFINE o == ZoneCall(from, last)
           q == from \div SctsPerBlk
           e == (q + 1) * SctsPerBlk - 1
           t == IF last <= e THEN last ELSE e
           a == from \div SecPerVPg
           b == t \div SecPerVPg
<1>1. SctsPerBlk \in Nat \ {0} /\ SecPerVPg \in Nat \ {0} /\ PagesPerSBlk \in Nat \ {0}
  BY Sizes, SizesAssumption
<1>2. q \in Nat /\ SctsPerBlk * q <= from /\ from < SctsPerBlk * q + SctsPerBlk
  BY <1>1, DivIs
<1>q HIDE DEF q
<1>3. e = SctsPerBlk * q + SctsPerBlk - 1 /\ SctsPerBlk * q \in Nat
  BY <1>1, <1>2
<1>4. e \in Nat /\ from <= e
  BY <1>1, <1>2, <1>3
<1>5. o = [kind |-> "write", step |-> "start", from |-> from, last |-> last, to |-> t, lpn |-> a]
  BY <1>4, MinOfTwo DEF ZoneCall, q
<1>e HIDE DEF e
<1>6. t \in Nat /\ from <= t /\ t <= last /\ t <= e
  BY <1>4
<1>7. SctsPerBlk * q <= t /\ t < SctsPerBlk * q + SctsPerBlk
  BY <1>1, <1>2, <1>3, <1>6
<1>t HIDE DEF t
<1>8. t \div SctsPerBlk = q
  BY <1>1, <1>2, <1>6, <1>7, DivUnique
<1>9. Grp(a) = q /\ Grp(b) = q
  BY <1>1, <1>6, <1>8, DivDiv DEF Grp, SctsPerBlk, q
<1>10. a \in Nat /\ b \in Nat /\ a <= b
  BY <1>1, <1>6, DivIs, DivMonotone
<1>11. from < SecPerVPg * NumLpns
  BY <1>1, Sizes
<1>12. a < NumLpns
  BY <1>1, <1>11, Sizes, DivBelow
<1>o HIDE DEF o, a, b
<1>13. a \in Lpns /\ a \in a .. b
  BY <1>10, <1>12, Sizes
<1>14. o \in Ops
  BY <1>5, <1>6, <1>13 DEF Ops, Kinds, Steps
<1>15. InRange(o)
  BY <1>5, <1>6, <1>9, <1>13 DEF InRange, a, b
<1>16. QED BY <1>5, <1>14, <1>15 DEF o

\* The call covers some sector of the page it is at.
LEMMA BitsThere ==
  ASSUME op \in Ops, InRange(op)
  PROVE  Bits(op.lpn) \in SUBSET Secs /\ Bits(op.lpn) # {}
<1> DEFINE a == op.from \div SecPerVPg
           b == op.to \div SecPerVPg
           l == op.lpn
           n == SecPerVPg
<1>1. /\ op.from \in Nat /\ op.to \in Nat /\ op.from <= op.to /\ n \in Nat \ {0}
  BY SizesAssumption DEF Ops, InRange
<1>2. /\ a \in Nat /\ n * a <= op.from /\ op.from < n * a + n
      /\ b \in Nat /\ n * b <= op.to
  BY <1>1, DivIs
<1>3. l \in a .. b
  BY DEF InRange
<1>4. Bits(l) = {s \in Secs : l * n + s \in op.from .. op.to} /\ Secs = 0 .. n - 1
  BY DEF Bits, Secs
<1> HIDE DEF a, b, l, n
<1>5. l \in Nat /\ a <= l /\ l <= b
  BY <1>2, <1>3
<1>6. l * n = n * l /\ n * l <= n * b /\ n * l \in Nat /\ n * a \in Nat /\ n * b \in Nat
  BY <1>1, <1>2, <1>5, Products
<1>7. CASE l = a
  <2>1. op.from - n * a \in 0 .. n - 1 /\ l * n + (op.from - n * a) = op.from
    BY <1>1, <1>2, <1>6, <1>7
  <2>2. op.from \in op.from .. op.to
    BY <1>1
  <2>3. op.from - n * a \in Bits(l)
    BY <1>4, <2>1, <2>2
  <2>4. QED BY <1>4, <2>3 DEF l
<1>8. CASE l # a
  <2>1. a + 1 <= l /\ a + 1 \in Nat
    BY <1>2, <1>5, <1>8
  <2>2. n * (a + 1) <= n * l /\ n * (a + 1) = n * a + n
    BY <1>1, <1>2, <1>5, <2>1, Products
  <2>3. l * n + 0 \in op.from .. op.to /\ 0 \in 0 .. n - 1
    BY <1>1, <1>2, <1>6, <2>2
  <2>4. 0 \in Bits(l)
    BY <1>4, <2>3
  <2>5. QED BY <1>4, <2>4 DEF l
<1>9. QED BY <1>7, <1>8
-----------------------------------------------------------------------------
(***************************************************************************)
(* The actions that only move a call on.                                   *)
(***************************************************************************)
LEMMA Opened ==
  ASSUME Inv, op.kind # "none" \/ flushing
  PROVE  open
BY DEF Inv, Phases

LEMMA CallMoves ==
  ASSUME Inv, UNCHANGED <<flash, open, map, cp, unscanned, buf, bBlkVbn, delGrp, secured, dropped, reverted>>,
         writes' \in 0 .. MaxWrites, op' \in Ops, flushing' \in BOOLEAN,
         Ranged', Phases', Room'
  PROVE  Inv'
<1>1. LogTypes'
  BY DEF Inv, Types, LogTypes, flash
<1>2. BlkTypes'
  BY DEF Inv, Types, BlkTypes, flash
<1>3. MapTypes'
  BY DEF Inv, Types, MapTypes, flash
<1>4. CallTypes'
  BY DEF Inv, Types, CallTypes, flash
<1>5. Ends'
  BY DEF Inv, Ends, flash
<1>6. BufEnds'
  BY DEF Inv, BufEnds, flash
<1>7. QED BY <1>1, <1>2, <1>3, <1>4, <1>5, <1>6 DEF Inv, Types

LEMMA BeginWriteKeeps ==
  ASSUME Inv, BeginWrite
  PROVE  Inv'
<1>1. /\ open /\ op.kind = "none" /\ writes < MaxWrites /\ writes' = writes + 1
      /\ UNCHANGED <<flash, open, map, cp, unscanned, buf, bBlkVbn, delGrp,
                     flushing, losses, secured, dropped, reverted>>
  BY DEF BeginWrite
<1>2. PICK r \in Requests : op' = ZoneCall(r[1], r[1] + r[2] - 1)
  BY DEF BeginWrite
<1> DEFINE from == r[1]
           last == r[1] + r[2] - 1
<1>3. from \in Nat /\ last \in Nat /\ from <= last /\ last < NumLpns * SecPerVPg
  <2>1. r[1] \in Nat /\ r[2] \in Nat \ {0} /\ r[1] + r[2] <= Cardinality(Lpns) * SecPerVPg
    BY RequestsAssumption
  <2>2. Cardinality(Lpns) = NumLpns /\ NumLpns * SecPerVPg \in Nat
    BY Sizes, SizesAssumption
  <2>3. QED BY <2>1, <2>2
<1> HIDE DEF from, last
<1>4. op' = ZoneCall(from, last)
  BY <1>2 DEF from, last
<1>5. op' \in Ops /\ InRange(op') /\ op'.kind = "write" /\ op'.step = "start"
  BY <1>3, <1>4, ZoneCallRange
<1>6. writes' \in 0 .. MaxWrites
  BY <1>1, SizesAssumption DEF Inv, Types, MapTypes
<1>7. Ranged'
  BY <1>5 DEF Ranged
<1>8. Phases'
  BY <1>1, <1>5 DEF Inv, Phases
<1>9. Room'
  BY <1>1, <1>5 DEF Inv, Room, HasRoom, flash
<1>10. flushing' \in BOOLEAN
  BY <1>1 DEF Inv, Types, CallTypes
<1>11. QED BY <1>1, <1>5, <1>6, <1>7, <1>8, <1>9, <1>10, CallMoves

\* The step of a call changes, and nothing else of it.
LEMMA StepIs ==
  ASSUME op \in Ops, NEW step \in Steps, GoTo(step)
  PROVE  /\ op' \in Ops /\ op'.step = step /\ op'.kind = op.kind /\ op'.lpn = op.lpn
         /\ op'.from = op.from /\ op'.to = op.to /\ op'.last = op.last
         /\ Ranged => Ranged'
<1>1. /\ op' \in Ops /\ op'.step = step /\ op'.kind = op.kind /\ op'.lpn = op.lpn
      /\ op'.from = op.from /\ op'.to = op.to /\ op'.last = op.last
  BY DEF GoTo, Ops
<1>2. Ranged => Ranged'
  BY <1>1 DEF Ranged, InRange
<1>3. QED BY <1>1, <1>2

LEMMA WriteToBufferKeeps ==
  ASSUME Inv, WriteToBuffer
  PROVE  Inv'
<1>1. /\ op.kind = "write" /\ op.step = "page" /\ Grp(op.lpn) \notin unscanned
      /\ GoTo("buffer") /\ flushing' = (buf.dirty /\ buf.lpn # op.lpn)
      /\ UNCHANGED <<flash, open, map, cp, unscanned, buf, bBlkVbn, delGrp, hist>>
  BY DEF WriteToBuffer, At
<1>2. /\ op' \in Ops /\ op'.step = "buffer" /\ op'.kind = "write" /\ op'.lpn = op.lpn
      /\ Ranged'
  BY <1>1, StepIs DEF Inv, Types, CallTypes, Steps
<1>3. open
  BY <1>1, Opened
<1>4. Phases'
  BY <1>1, <1>2, <1>3 DEF Inv, Phases
<1>5. Room'
  BY <1>1, <1>2 DEF Inv, Room, HasRoom, flash
<1>6. flushing' \in BOOLEAN /\ writes' \in 0 .. MaxWrites
  BY <1>1 DEF Inv, Types, MapTypes, hist
<1>7. UNCHANGED <<secured, dropped, reverted>>
  BY <1>1 DEF hist
<1>8. QED BY <1>1, <1>2, <1>4, <1>5, <1>6, <1>7, CallMoves

LEMMA EvictFlushKeeps ==
  ASSUME Inv, EvictFlush
  PROVE  Inv'
<1>1. /\ ~flushing /\ buf.dirty /\ flushing' = TRUE
      /\ UNCHANGED <<flash, open, map, cp, unscanned, buf, bBlkVbn, delGrp, op, hist>>
  BY DEF EvictFlush
<1>2. op.kind = "write" /\ op.step = "page"
  BY <1>1 DEF EvictFlush, WantsSlot
<1>3. open
  BY <1>2, Opened
<1>4. Phases'
  BY <1>1, <1>2, <1>3 DEF Inv, Phases
<1>5. Room'
  BY <1>1 DEF Inv, Room, HasRoom, flash
<1>6. op' \in Ops /\ writes' \in 0 .. MaxWrites /\ Ranged'
  BY <1>1 DEF Inv, Types, CallTypes, MapTypes, Ranged, InRange, hist
<1>7. UNCHANGED <<secured, dropped, reverted>>
  BY <1>1 DEF hist
<1>8. QED BY <1>1, <1>4, <1>5, <1>6, <1>7, CallMoves

\* The call leaves its group only when the page for the flush is reserved.
LEMMA EndOfGroupKeeps ==
  ASSUME Inv, EndOfGroup
  PROVE  Inv'
<1>1. /\ op.kind = "write" /\ op.step = "reserve" /\ FlushReserved(Grp(op.lpn)) /\ ~flushing
      /\ op' = IF op.to = op.last THEN Idle ELSE ZoneCall(op.to + 1, op.last)
      /\ UNCHANGED <<flash, open, map, cp, unscanned, buf, bBlkVbn, delGrp, flushing, hist>>
  BY DEF EndOfGroup, At
<1>2. open /\ op \in Ops /\ InRange(op)
  BY <1>1, Opened DEF Inv, Types, CallTypes, Ranged
<1>3. op' \in Ops /\ (op'.kind = "none" \/ (op'.kind = "write" /\ op'.step = "start" /\ InRange(op')))
  <2>1. CASE op.to = op.last
    BY <1>1, <2>1, IdleType
  <2>2. CASE op.to # op.last
    <3>1. op.to + 1 \in Nat /\ op.last \in Nat /\ op.to + 1 <= op.last /\ op.last < NumLpns * SecPerVPg
      BY <1>2, <2>2 DEF Ops, InRange
    <3>2. op' = ZoneCall(op.to + 1, op.last)
      BY <1>1, <2>2
    <3> DEFINE a == op.to + 1
               b == op.last
    <3>3. a \in Nat /\ b \in Nat /\ a <= b /\ b < NumLpns * SecPerVPg /\ op' = ZoneCall(a, b)
      BY <3>1, <3>2
    <3> HIDE DEF a, b
    <3>4. QED BY <3>3, ZoneCallRange
  <2>3. QED BY <2>1, <2>2
<1>4. Ranged'
  BY <1>3 DEF Ranged
<1>5. Phases'
  BY <1>1, <1>2, <1>3 DEF Inv, Phases
<1>6. buf.dirty => Grp(buf.lpn) \notin unscanned /\ HasRoom(Grp(buf.lpn))
  BY <1>1, <1>2 DEF Inv, Room, FlushReserved
<1>7. Room'
  BY <1>1, <1>6 DEF Room, HasRoom, flash
<1>8. flushing' \in BOOLEAN /\ writes' \in 0 .. MaxWrites /\ UNCHANGED <<secured, dropped, reverted>>
  BY <1>1 DEF Inv, Types, MapTypes, CallTypes, hist
<1>9. QED BY <1>1, <1>3, <1>4, <1>5, <1>7, <1>8, CallMoves

LEMMA BeginDeleteKeeps ==
  ASSUME Inv, NEW l \in Deletable, BeginDelete(l)
  PROVE  Inv'
<1>1. /\ open /\ op.kind = "none" /\ flushing' = (buf.dirty /\ buf.lpn # l)
      /\ op' = [Idle EXCEPT !.kind = "delete", !.lpn = l,
                            !.step = IF flushing' THEN "invalidate" ELSE "map"]
      /\ UNCHANGED <<flash, open, map, cp, unscanned, buf, bBlkVbn, delGrp, hist>>
  BY DEF BeginDelete
<1>2. l \in Lpns
  BY RequestsAssumption
<1>3. op' \in Ops /\ op'.kind = "delete" /\ op'.lpn = l
  BY <1>1, <1>2, IdleType DEF Ops, Kinds, Steps
<1>4. Ranged'
  BY <1>2, <1>3 DEF Ranged
<1>5. Phases'
  BY <1>1, <1>3 DEF Inv, Phases
<1>6. Room'
  BY <1>1, <1>3 DEF Inv, Room, HasRoom, flash
<1>7. flushing' \in BOOLEAN /\ writes' \in 0 .. MaxWrites /\ UNCHANGED <<secured, dropped, reverted>>
  BY <1>1 DEF Inv, Types, MapTypes, hist
<1>8. QED BY <1>1, <1>3, <1>4, <1>5, <1>6, <1>7, CallMoves

LEMMA BeginCloseKeeps ==
  ASSUME Inv, BeginClose
  PROVE  Inv'
<1>1. /\ open /\ op.kind = "none" /\ op' = [Idle EXCEPT !.kind = "close", !.step = "start"]
      /\ UNCHANGED <<flash, open, map, cp, unscanned, buf, bBlkVbn, delGrp, flushing, hist>>
  BY DEF BeginClose
<1>2. op' \in Ops /\ op'.kind = "close" /\ op'.step = "start"
  BY <1>1, IdleType DEF Ops, Kinds, Steps
<1>3. Ranged'
  BY <1>2 DEF Ranged
<1>4. Phases'
  BY <1>1, <1>2 DEF Inv, Phases
<1>5. Room'
  BY <1>1, <1>2 DEF Inv, Room, HasRoom, flash
<1>6. flushing' \in BOOLEAN /\ writes' \in 0 .. MaxWrites /\ UNCHANGED <<secured, dropped, reverted>>
  BY <1>1 DEF Inv, Types, MapTypes, CallTypes, hist
<1>7. QED BY <1>1, <1>2, <1>3, <1>4, <1>5, <1>6, CallMoves

LEMMA OpenFlushKeeps ==
  ASSUME Inv, OpenFlush
  PROVE  Inv'
<1>1. /\ op.kind = "open" /\ op.step = "flush" /\ flushing' = buf.dirty
      /\ IF buf.dirty THEN GoTo("erase") ELSE op' = Idle
      /\ UNCHANGED <<flash, open, map, cp, unscanned, buf, bBlkVbn, delGrp, hist>>
  BY DEF OpenFlush, At
<1>2. open
  BY <1>1, Opened
<1>3. /\ op' \in Ops /\ Ranged'
      /\ buf.dirty => op'.kind = "open" /\ op'.step = "erase"
      /\ ~buf.dirty => op'.kind = "none"
  <2>1. CASE buf.dirty
    BY <1>1, <2>1, StepIs DEF Inv, Types, CallTypes, Steps
  <2>2. CASE ~buf.dirty
    BY <1>1, <2>2, IdleType DEF Ranged
  <2>3. QED BY <2>1, <2>2
<1>4. flushing' \in BOOLEAN
  BY <1>1 DEF Inv, Types, CallTypes, Bufs
<1>5. Phases'
  BY <1>1, <1>2, <1>3 DEF Inv, Phases
<1>6. Room'
  BY <1>1, <1>3 DEF Room
<1>7. writes' \in 0 .. MaxWrites /\ UNCHANGED <<secured, dropped, reverted>>
  BY <1>1 DEF Inv, Types, MapTypes, hist
<1>8. QED BY <1>1, <1>3, <1>4, <1>5, <1>6, <1>7, CallMoves
-----------------------------------------------------------------------------
(***************************************************************************)
(* The actions that store the map of a group.                              *)
(***************************************************************************)
\* A log leaves the active list with its end on flash; it is not the log that
\* keeps a page for the buffered one.
LEMMA DeactivateKeeps ==
  ASSUME Inv, open, NEW v \in active, v \notin unscanned, Deactivate(v),
         ~(buf.dirty /\ Grp(buf.lpn) = v),
         UNCHANGED <<pages, bblk, open, map, cp, unscanned, buf, bBlkVbn, delGrp,
                     op, flushing, writes, losses, reverted>>
  PROVE  Inv'
<1>1. active' = active \ {v} /\ StorePMTCtx(v, cp[v]) /\ v \in Groups /\ Types
  BY DEF Deactivate, Inv, Types, LogTypes
<1>2. /\ stored' \in [Groups -> 0 .. PagesPerSBlk]
      /\ pmt' \in [Lpns -> Data] /\ secured' \in [Lpns -> Data]
      /\ dropped' \in BOOLEAN /\ storedBBlk' \in {1, 2}
  BY <1>1, StoreTypes DEF Types, LogTypes
<1>3. stored' = [stored EXCEPT ![v] = cp[v]]
  BY <1>1 DEF StorePMTCtx
<1>4. LogTypes'
  BY <1>1, <1>2 DEF Types, LogTypes
<1>5. BlkTypes'
  BY <1>1, <1>2 DEF Types, BlkTypes
<1>6. MapTypes'
  BY <1>1, <1>2 DEF Types, MapTypes
<1>7. CallTypes'
  BY <1>1 DEF Types, CallTypes
<1>8. Ranged'
  BY DEF Inv, Ranged, InRange
<1>9. Phases'
  BY DEF Inv, Phases
<1>10. Ends'
  <2>1. \A g \in Groups : g \notin active' /\ stored'[g] < PagesPerSBlk => Len(pages'[g]) = stored'[g]
    BY <1>1, <1>3 DEF Inv, Ends, Types, LogTypes
  <2>2. QED BY <2>1 DEF Inv, Ends
<1>11. BufEnds'
  BY DEF Inv, BufEnds
<1>12. Room'
  BY <1>1 DEF Inv, Room, HasRoom
<1>13. QED BY <1>4, <1>5, <1>6, <1>7, <1>8, <1>9, <1>10, <1>11, <1>12 DEF Inv, Types

LEMMA EvictStoreKeeps ==
  ASSUME Inv, EvictStore
  PROVE  Inv'
<1>1. op.kind = "write" \/ flushing
  BY DEF EvictStore, WantsSlot
<1>2. open
  BY <1>1, Opened
<1>3. PICK v \in active \ unscanned : ~(buf.dirty /\ Grp(buf.lpn) = v) /\ Deactivate(v)
  BY DEF EvictStore
<1>4. UNCHANGED <<pages, bblk, open, map, cp, unscanned, buf, bBlkVbn, delGrp,
                  op, flushing, writes, losses, reverted>>
  BY DEF EvictStore
<1>5. QED BY <1>2, <1>3, <1>4, DeactivateKeeps

LEMMA CloseStoreKeeps ==
  ASSUME Inv, CloseStore
  PROVE  Inv'
<1>1. op.kind = "close" /\ op.step = "store"
  BY DEF CloseStore, At
<1>2. open /\ unscanned = {} /\ ~buf.dirty
  BY <1>1, Opened DEF Inv, Phases
<1>3. PICK g \in active : Deactivate(g)
  BY DEF CloseStore
<1>4. UNCHANGED <<pages, bblk, open, map, cp, unscanned, buf, bBlkVbn, delGrp,
                  op, flushing, writes, losses, reverted>>
  BY DEF CloseStore
<1>5. QED BY <1>2, <1>3, <1>4, DeactivateKeeps

\* A log that is freed because it is emptied has no page left to write, so it is
\* not the one that keeps a page for the buffered one.
LEMMA StoreDeletedKeeps ==
  ASSUME Inv, StoreDeletedInfo, ~(op.kind = "write" /\ op.step # "start")
  PROVE  Inv'
<1> DEFINE d == delGrp
<1>1. /\ d \in Groups /\ StorePMTCtx(d, cp[d]) /\ delGrp' = None
      /\ active' = IF LogEmptied(d) THEN active \ {d} ELSE active
      /\ UNCHANGED <<pages, bblk, open, map, cp, unscanned, buf, bBlkVbn, op,
                     flushing, writes, losses, reverted>>
  BY DEF StoreDeletedInfo, Inv, Types, CallTypes
<1>2. open /\ d \notin unscanned /\ Types
  BY <1>1, Sizes DEF Inv, Phases
<1> HIDE DEF d
<1>3. /\ stored' \in [Groups -> 0 .. PagesPerSBlk]
      /\ pmt' \in [Lpns -> Data] /\ secured' \in [Lpns -> Data]
      /\ dropped' \in BOOLEAN /\ storedBBlk' \in {1, 2}
  BY <1>1, <1>2, StoreTypes DEF Types, LogTypes
<1>4. stored' = [stored EXCEPT ![d] = cp[d]]
  BY <1>1 DEF StorePMTCtx
<1>5. active' \subseteq active /\ active \subseteq active' \cup {d}
  BY <1>1
<1>6. LogTypes'
  BY <1>1, <1>2, <1>3, <1>5 DEF Types, LogTypes
<1>7. BlkTypes'
  BY <1>1, <1>2, <1>3 DEF Types, BlkTypes
<1>8. MapTypes'
  BY <1>1, <1>2, <1>3 DEF Types, MapTypes
<1>9. CallTypes'
  BY <1>1, <1>2 DEF Types, CallTypes
<1>10. Ranged'
  BY <1>1 DEF Inv, Ranged, InRange
<1>11. Phases'
  BY <1>1, <1>2 DEF Inv, Phases
<1>12. Ends'
  <2>1. \A g \in Groups : g \notin active' /\ stored'[g] < PagesPerSBlk => Len(pages'[g]) = stored'[g]
    BY <1>1, <1>2, <1>4, <1>5 DEF Inv, Ends, Types, LogTypes
  <2>2. QED BY <1>1, <2>1 DEF Inv, Ends
<1>13. BufEnds'
  BY <1>1 DEF Inv, BufEnds
<1>14. Room'
  <2>1. SUFFICES ASSUME buf.dirty, op.kind # "open"
        PROVE  Grp(buf.lpn) \notin unscanned /\ Grp(buf.lpn) \in active' /\ cp[Grp(buf.lpn)] < PagesPerSBlk
    BY <1>1 DEF Room, HasRoom
  <2>2. Grp(buf.lpn) \notin unscanned /\ Grp(buf.lpn) \in active /\ cp[Grp(buf.lpn)] < PagesPerSBlk
    BY <1>2, <2>1 DEF Inv, Room, HasRoom
  <2>3. LogEmptied(d) => Grp(buf.lpn) # d
    BY <2>2, SizesAssumption DEF LogEmptied
  <2>4. QED BY <1>1, <2>2, <2>3
<1>15. QED BY <1>6, <1>7, <1>8, <1>9, <1>10, <1>11, <1>12, <1>13, <1>14 DEF Inv, Types

LEMMA ReadStartKeeps ==
  ASSUME Inv, ReadStart
  PROVE  Inv'
BY StoreDeletedKeeps DEF ReadStart

LEMMA WriteStartKeeps ==
  ASSUME Inv, WriteStart
  PROVE  Inv'
<1>1. op.kind = "write" /\ op.step = "start" /\ ~flushing
  BY DEF WriteStart, At
<1>2. CASE StoreDeletedInfo
  BY <1>1, <1>2, StoreDeletedKeeps
<1>3. CASE /\ GoTo("page")
           /\ UNCHANGED <<flash, open, map, cp, unscanned, buf, bBlkVbn, delGrp, flushing, hist>>
  <2>1. op' \in Ops /\ op'.step = "page" /\ op'.kind = "write" /\ op'.lpn = op.lpn /\ Ranged'
    BY <1>1, <1>3, StepIs DEF Inv, Types, CallTypes, Steps
  <2>2. open
    BY <1>1, Opened
  <2>3. Phases'
    BY <1>3, <2>1, <2>2 DEF Inv, Phases
  <2>4. Room'
    BY <1>1, <1>3, <2>1 DEF Inv, Room, HasRoom, flash
  <2>5. flushing' \in BOOLEAN /\ writes' \in 0 .. MaxWrites /\ UNCHANGED <<secured, dropped, reverted>>
    BY <1>3 DEF Inv, Types, MapTypes, CallTypes, hist
  <2>6. QED BY <1>3, <2>1, <2>3, <2>4, <2>5, CallMoves
<1>4. QED BY <1>2, <1>3 DEF WriteStart

LEMMA CloseStartKeeps ==
  ASSUME Inv, CloseStart
  PROVE  Inv'
<1>1. op.kind = "close" /\ op.step = "start" /\ ~flushing
  BY DEF CloseStart, At
<1>2. CASE StoreDeletedInfo
  BY <1>1, <1>2, StoreDeletedKeeps
<1>3. CASE /\ unscanned = {}
           /\ flushing' = buf.dirty
           /\ GoTo(IF buf.dirty \/ buf.cp \in 1 .. BufPages - 1 THEN "erase" ELSE "store")
           /\ UNCHANGED <<flash, open, map, cp, unscanned, buf, bBlkVbn, delGrp, hist>>
  <2>1. PICK step \in {"erase", "store"} : GoTo(step) /\ (buf.dirty => step = "erase")
    BY <1>3
  <2>2. op' \in Ops /\ op'.step = step /\ op'.kind = "close" /\ Ranged'
    BY <1>1, <2>1, StepIs DEF Inv, Types, CallTypes, Steps
  <2>3. open
    BY <1>1, Opened
  <2>4. Phases'
    BY <1>3, <2>1, <2>2, <2>3 DEF Inv, Phases
  <2>5. Room'
    BY <1>1, <1>3, <2>2 DEF Inv, Room, HasRoom, flash
  <2>6. flushing' \in BOOLEAN
    BY <1>3 DEF Inv, Types, CallTypes, Bufs
  <2>7. writes' \in 0 .. MaxWrites /\ UNCHANGED <<secured, dropped, reverted>>
    BY <1>3 DEF Inv, Types, MapTypes, hist
  <2>8. QED BY <1>3, <2>2, <2>4, <2>5, <2>6, <2>7, CallMoves
<1>4. QED BY <1>2, <1>3 DEF CloseStart

\* A log with room is there after it is taken, and it ends at nCPOffs.
LEMMA TakeLogKeeps ==
  ASSUME Inv, open, NEW g \in Groups, TakeLog(g)
  PROVE  Inv'
<1> DEFINE n == IF cp[g] < PagesPerSBlk THEN cp[g] ELSE 0
<1>1. /\ g \notin unscanned
      /\ pages' = [pages EXCEPT ![g] = SubSeq(@, 1, n)]
      /\ cp' = [cp EXCEPT ![g] = n]
      /\ StorePMTCtx(g, n)
      /\ active' = active \cup {g}
      /\ UNCHANGED <<bblk, open, map, unscanned, buf, bBlkVbn, delGrp, op,
                     flushing, writes, losses, reverted>>
  BY DEF TakeLog
<1>2. Types /\ LogTypes /\ Ends
  BY DEF Inv, Types
<1>3. n \in 0 .. PagesPerSBlk /\ n < PagesPerSBlk /\ n <= Len(pages[g]) /\ n \in Nat
  <2>1. CASE cp[g] < PagesPerSBlk
    BY <1>1, <1>2, <2>1, EndIs, SizesAssumption
  <2>2. CASE ~(cp[g] < PagesPerSBlk)
    <3>1. n = 0 /\ Len(pages[g]) \in Nat
      BY <1>2, <2>2 DEF LogTypes
    <3>2. QED BY <3>1, SizesAssumption
  <2>3. QED BY <2>1, <2>2
<1> HIDE DEF n
<1>4. /\ stored' \in [Groups -> 0 .. PagesPerSBlk]
      /\ pmt' \in [Lpns -> Data] /\ secured' \in [Lpns -> Data]
      /\ dropped' \in BOOLEAN /\ storedBBlk' \in {1, 2}
  BY <1>1, <1>2, <1>3, StoreTypes
<1>5. stored' = [stored EXCEPT ![g] = n]
  BY <1>1 DEF StorePMTCtx
<1>6. SubSeq(pages[g], 1, n) \in Seq(LogPage) /\ Len(SubSeq(pages[g], 1, n)) = n
  BY <1>2, <1>3 DEF LogTypes
<1>7. /\ pages' \in [Groups -> Seq(LogPage)]
      /\ \A h \in Groups : Len(pages'[h]) = IF h = g THEN n ELSE Len(pages[h])
  BY <1>1, <1>2, <1>6 DEF LogTypes
<1>8. \A h \in Groups : Len(pages'[h]) <= PagesPerSBlk
  BY <1>2, <1>3, <1>7, SizesAssumption DEF LogTypes
<1>9. cp' \in [Groups -> 0 .. PagesPerSBlk] /\ \A h \in Groups : cp'[h] = IF h = g THEN n ELSE cp[h]
  BY <1>1, <1>2, <1>3 DEF LogTypes
<1>10. LogTypes'
  BY <1>1, <1>2, <1>4, <1>7, <1>8, <1>9 DEF LogTypes
<1>11. BlkTypes'
  BY <1>1, <1>2, <1>4 DEF Types, BlkTypes
<1>12. MapTypes'
  BY <1>1, <1>2, <1>4 DEF Types, MapTypes
<1>13. CallTypes'
  BY <1>1, <1>2 DEF Types, CallTypes
<1>14. Ranged'
  BY <1>1 DEF Inv, Ranged, InRange
<1>15. Phases'
  BY <1>1 DEF Inv, Phases
<1>16. Ends'
  <2>1. \A h \in Groups : h \notin active' /\ stored'[h] < PagesPerSBlk => Len(pages'[h]) = stored'[h]
    BY <1>1, <1>2, <1>5, <1>7 DEF Ends, LogTypes
  <2>2. \A h \in Groups : h \notin unscanned /\ cp'[h] < PagesPerSBlk => Len(pages'[h]) = cp'[h]
    BY <1>2, <1>7, <1>9 DEF Ends
  <2>3. QED BY <1>1, <2>1, <2>2 DEF Ends
<1>17. BufEnds'
  BY <1>1 DEF Inv, BufEnds
<1>18. Room'
  <2>1. SUFFICES ASSUME buf.dirty, op.kind # "open"
        PROVE  /\ Grp(buf.lpn) \notin unscanned
               /\ \/ Grp(buf.lpn) \in active' /\ cp'[Grp(buf.lpn)] < PagesPerSBlk
                  \/ op.kind = "write" /\ op.step # "start" /\ Grp(op.lpn) = Grp(buf.lpn)
    BY <1>1 DEF Room, HasRoom
  <2>2. Grp(buf.lpn) \in Groups
    BY <2>1, <1>2, GrpType DEF Types, CallTypes
  <2>3. QED BY <1>1, <1>3, <1>9, <2>1, <2>2 DEF Inv, Room, HasRoom
<1>19. QED BY <1>10, <1>11, <1>12, <1>13, <1>14, <1>15, <1>16, <1>17, <1>18 DEF Inv, Types

LEMMA FlushTakeLogKeeps ==
  ASSUME Inv, FlushTakeLog
  PROVE  Inv'
<1>1. flushing /\ buf.dirty /\ TakeLog(Grp(buf.lpn))
  BY DEF FlushTakeLog
<1>2. open /\ Grp(buf.lpn) \in Groups
  BY <1>1, Opened, GrpType DEF Inv, Types, CallTypes
<1>3. QED BY <1>1, <1>2, TakeLogKeeps

LEMMA WriteTakeLogKeeps ==
  ASSUME Inv, WriteTakeLog \/ ReserveForFlush
  PROVE  Inv'
<1>1. op.kind = "write" /\ TakeLog(Grp(op.lpn))
  BY DEF WriteTakeLog, ReserveForFlush, At
<1>2. open /\ Grp(op.lpn) \in Groups
  BY <1>1, Opened, WritesPage DEF Inv, Types, CallTypes, Ranged
<1>3. QED BY <1>1, <1>2, TakeLogKeeps
-----------------------------------------------------------------------------
(***************************************************************************)
(* The actions that program a page.                                        *)
(***************************************************************************)
\* A page behind the end of a log with room moves the end with it.
LEMMA ProgramKeeps ==
  ASSUME Inv, open, NEW g \in Groups, g \notin unscanned, HasRoom(g),
         NEW page \in LogPage, page.lpn \in Lpns, ProgramLogPage(g, page),
         UNCHANGED <<active, stored, bblk, storedBBlk, open, unscanned, bBlkVbn>>
  PROVE  /\ LogTypes' /\ BlkTypes' /\ map' \in [Lpns -> Data] /\ Ends'
         /\ \A h \in Groups : h # g => (HasRoom(h) <=> HasRoom(h)')
<1>1. LogTypes /\ Ends /\ Types
  BY DEF Inv, Types
<1>2. /\ pages' = [pages EXCEPT ![g] = Append(@, page)]
      /\ cp' = [cp EXCEPT ![g] = @ + 1]
      /\ map' = [map EXCEPT ![page.lpn] = page.data]
  BY DEF ProgramLogPage
<1>3. /\ pages' \in [Groups -> Seq(LogPage)]
      /\ \A h \in Groups : Len(pages'[h]) = IF h = g THEN cp[g] + 1 ELSE Len(pages[h])
      /\ \A h \in Groups : Len(pages'[h]) <= PagesPerSBlk
      /\ cp[g] + 1 \in 0 .. PagesPerSBlk
  BY <1>1, <1>2, AppendLog
<1>4. /\ cp' \in [Groups -> 0 .. PagesPerSBlk]
      /\ \A h \in Groups : cp'[h] = IF h = g THEN cp[g] + 1 ELSE cp[h]
  BY <1>1, <1>2, <1>3 DEF LogTypes
<1>5. LogTypes'
  BY <1>1, <1>3, <1>4 DEF LogTypes
<1>6. BlkTypes'
  BY <1>1 DEF Types, BlkTypes
<1>7. map' \in [Lpns -> Data]
  BY <1>1, <1>2 DEF Types, MapTypes, LogPage
<1>8. Ends'
  <2>1. g \in active
    BY DEF HasRoom
  <2>2. \A h \in Groups : h \notin active /\ stored[h] < PagesPerSBlk => Len(pages'[h]) = stored[h]
    BY <1>1, <1>3, <2>1 DEF Ends
  <2>3. \A h \in Groups : h \notin unscanned /\ cp'[h] < PagesPerSBlk => Len(pages'[h]) = cp'[h]
    BY <1>1, <1>3, <1>4 DEF Ends
  <2>4. QED BY <2>2, <2>3 DEF Ends
<1>9. \A h \in Groups : h # g => (HasRoom(h) <=> HasRoom(h)')
  BY <1>4 DEF HasRoom
<1>10. QED BY <1>5, <1>6, <1>7, <1>8, <1>9

LEMMA FlushPageKeeps ==
  ASSUME Inv, FlushPage
  PROVE  Inv'
<1> DEFINE g == Grp(buf.lpn)
           page == [lpn |-> buf.lpn, data |-> Read(buf.lpn), confirm |-> TRUE]
<1>1. flushing /\ buf.dirty /\ g \notin unscanned /\ HasRoom(g)
  BY DEF FlushPage
<1>2. Types /\ buf \in Bufs /\ buf.lpn \in Lpns /\ g \in Groups /\ open
  BY <1>1, Opened, GrpType DEF Inv, Types, CallTypes
<1>3. page \in LogPage /\ page.lpn = buf.lpn
  BY <1>2, MergedType DEF Read, LogPage, Types, MapTypes
<1>4. CASE TornLogPage(g)
  BY <1>1, <1>2, <1>4, TornKeeps
<1>5. CASE /\ ProgramLogPage(g, page)
           /\ buf' = [buf EXCEPT !.dirty = FALSE]
           /\ flushing' = FALSE
           /\ secured' = Secure(g, map', buf')
           /\ reverted' = IF op.kind = "open" /\ dropped
                          THEN reverted \cup {buf.lpn} ELSE reverted
           /\ UNCHANGED <<active, stored, pmt, bblk, storedBBlk, open,
                          unscanned, bBlkVbn, delGrp, op, writes, losses, dropped>>
  <2> HIDE DEF g, page
  <2>1. LogTypes' /\ BlkTypes' /\ map' \in [Lpns -> Data] /\ Ends'
    BY <1>1, <1>2, <1>3, <1>5, ProgramKeeps
  <2>2. buf' \in Bufs /\ ~buf'.dirty /\ buf'.cp = buf.cp /\ buf'.lpn = buf.lpn
    BY <1>2, <1>5 DEF Bufs
  <2>3. MapTypes'
    <3>1. secured' \in [Lpns -> Data]
      BY <1>2, <1>5, <2>1, <2>2, SecureType DEF Types, MapTypes
    <3>2. QED BY <1>2, <1>5, <2>1, <3>1 DEF Types, MapTypes
  <2>4. CallTypes'
    BY <1>2, <1>5, <2>2 DEF Types, CallTypes
  <2>5. Ranged'
    BY <1>5 DEF Inv, Ranged, InRange
  <2>6. Phases'
    BY <1>2, <1>5, <2>2 DEF Inv, Phases
  <2>7. BufEnds'
    BY <1>5, <2>2 DEF Inv, BufEnds
  <2>8. Room'
    BY <2>2 DEF Room
  <2>9. QED BY <2>1, <2>3, <2>4, <2>5, <2>6, <2>7, <2>8 DEF Inv, Types
<1>6. QED BY <1>4, <1>5 DEF FlushPage

LEMMA NewDataType ==
  ASSUME Types, NEW l \in Lpns
  PROVE  NewData(l) \in Data
<1>1. Read(l) \in Data
  BY MergedType DEF Read, Types, MapTypes, CallTypes
<1>2. writes \in 0 .. MaxWrites
  BY DEF Types, MapTypes
<1>3. QED BY <1>1, <1>2 DEF NewData, Data

LEMMA WriteLogPageKeeps ==
  ASSUME Inv, WriteLogPage
  PROVE  Inv'
<1> DEFINE l == op.lpn
           g == Grp(l)
           page == [lpn |-> l, data |-> NewData(l),
                    confirm |-> l = EndLpn \/ BufSrc(l) # {}]
<1>1. op.kind = "write" /\ op.step = "page" /\ g \notin unscanned /\ HasRoom(g)
  BY DEF WriteLogPage, At
<1>2. Types /\ op \in Ops /\ InRange(op) /\ l \in Lpns /\ g \in Groups /\ open /\ buf \in Bufs
  BY <1>1, Opened, WritesPage DEF Inv, Types, CallTypes, Ranged
<1>3. page \in LogPage /\ page.lpn \in Lpns
  BY <1>2, NewDataType DEF LogPage
<1>4. CASE TornLogPage(g)
  BY <1>1, <1>2, <1>4, TornKeeps
<1>5. CASE /\ ProgramLogPage(g, page)
           /\ buf' = IF Bits(l) # Secs /\ l = buf.lpn
                     THEN [buf EXCEPT !.dirty = FALSE] ELSE buf
           /\ Advance(l)
           /\ secured' = IF page.confirm THEN Secure(g, map', buf') ELSE secured
           /\ UNCHANGED <<active, stored, pmt, bblk, storedBBlk, open,
                          unscanned, bBlkVbn, delGrp, flushing, writes,
                          losses, dropped, reverted>>
  <2>1. /\ op' \in Ops /\ op'.kind = "write" /\ InRange(op')
        /\ op'.step \in {"page", "reserve"} /\ Grp(op'.lpn) = g
    BY <1>1, <1>2, <1>5, AdvanceKeeps
  <2> HIDE DEF g, page, l
  <2>2. /\ LogTypes' /\ BlkTypes' /\ map' \in [Lpns -> Data] /\ Ends'
        /\ \A h \in Groups : h # g => (HasRoom(h) <=> HasRoom(h)')
    BY <1>1, <1>2, <1>3, <1>5, ProgramKeeps
  <2>3. buf' \in Bufs /\ (buf'.dirty => buf.dirty) /\ buf'.cp = buf.cp /\ buf'.lpn = buf.lpn
    BY <1>2, <1>5 DEF Bufs
  <2>4. MapTypes'
    <3>1. Secure(g, map', buf') \in [Lpns -> Data]
      BY <1>2, <2>2, <2>3, SecureType DEF Types, MapTypes
    <3>2. secured' \in [Lpns -> Data]
      BY <1>2, <1>5, <3>1 DEF Types, MapTypes
    <3>3. QED BY <1>2, <1>5, <2>2, <3>2 DEF Types, MapTypes
  <2>5. CallTypes'
    BY <1>2, <1>5, <2>1, <2>3 DEF Types, CallTypes
  <2>6. Ranged'
    BY <2>1 DEF Ranged
  <2>7. Phases'
    BY <1>2, <1>5, <2>1 DEF Inv, Phases
  <2>8. BufEnds'
    BY <1>5, <2>3 DEF Inv, BufEnds
  <2>9. Room'
    <3>1. SUFFICES ASSUME buf'.dirty
          PROVE  /\ Grp(buf.lpn) \notin unscanned
                 /\ HasRoom(Grp(buf.lpn))' \/ Grp(buf.lpn) = g
      BY <1>5, <2>1, <2>3 DEF Room
    <3>2. buf.lpn \in Lpns /\ Grp(buf.lpn) \in Groups
      BY <1>2, <2>3, <3>1, GrpType DEF Types, CallTypes
    <3>3. Grp(buf.lpn) \notin unscanned /\ (HasRoom(Grp(buf.lpn)) \/ Grp(buf.lpn) = g)
      BY <1>1, <1>2, <2>3, <3>1 DEF Inv, Room, g, l
    <3>4. HasRoom(Grp(buf.lpn))' \/ Grp(buf.lpn) = g
      BY <2>2, <2>3, <3>2, <3>3
    <3>5. QED BY <3>3, <3>4
  <2>10. QED BY <2>2, <2>4, <2>5, <2>6, <2>7, <2>8, <2>9 DEF Inv, Types
<1>6. QED BY <1>4, <1>5 DEF WriteLogPage

\* A page behind the end of the buffer block, or the first of the other one.
LEMMA Append2BBlkKeeps ==
  ASSUME Inv, open, NEW page \in BufPage
  PROVE  /\ NextBBlk \in {1, 2}
         /\ Append2BBlk(page) \in [{1, 2} -> Seq(BufPage)]
         /\ \A b \in {1, 2} : Len(Append2BBlk(page)[b]) <= BufPages
         /\ Len(Append2BBlk(page)[NextBBlk]) = IF BBlkFull THEN 1 ELSE buf.cp + 1
         /\ (IF BBlkFull THEN 1 ELSE buf.cp + 1) \in 0 .. BufPages
<1>1. /\ bblk \in [{1, 2} -> Seq(BufPage)]
      /\ \A b \in {1, 2} : Len(bblk[b]) <= BufPages
      /\ bBlkVbn \in {1, 2} /\ buf.cp \in 0 .. BufPages
      /\ buf.cp = BufPages \/ Len(bblk[bBlkVbn]) = buf.cp
      /\ BufPages \in Nat \ {0}
  BY SizesAssumption DEF Inv, Types, BlkTypes, CallTypes, Bufs, BufEnds
<1>2. CASE BBlkFull
  <2>1. NextBBlk = 3 - bBlkVbn /\ NextBBlk \in {1, 2}
    BY <1>1, <1>2 DEF NextBBlk
  <2>2. Append2BBlk(page) = [bblk EXCEPT ![NextBBlk] = <<page>>]
    BY <1>2 DEF Append2BBlk
  <2>3. <<page>> \in Seq(BufPage) /\ Len(<<page>>) = 1
    OBVIOUS
  <2>4. QED BY <1>1, <1>2, <2>1, <2>2, <2>3
<1>3. CASE ~BBlkFull
  <2>1. NextBBlk = bBlkVbn
    BY <1>3 DEF NextBBlk
  <2>2. buf.cp < BufPages /\ Len(bblk[bBlkVbn]) = buf.cp /\ buf.cp + 1 \in 0 .. BufPages
    BY <1>1, <1>3 DEF BBlkFull
  <2>3. Append2BBlk(page) = [bblk EXCEPT ![bBlkVbn] = Append(bblk[bBlkVbn], page)]
    BY <1>1, <1>3, <2>1 DEF Append2BBlk
  <2>4. bblk[bBlkVbn] \in Seq(BufPage)
    BY <1>1
  <2>5. Append(bblk[bBlkVbn], page) \in Seq(BufPage) /\ Len(Append(bblk[bBlkVbn], page)) = buf.cp + 1
    BY <2>2, <2>4
  <2>6. QED BY <1>1, <1>3, <2>1, <2>2, <2>3, <2>5
<1>4. QED BY <1>2, <1>3

LEMMA BufferBitsType ==
  ASSUME Types, op \in Ops, InRange(op)
  PROVE  BufferBits(op.lpn) \in SUBSET Secs
<1> DEFINE dst == Bits(op.lpn) \cup BufSrc(op.lpn)
<1>1. BufSrc(op.lpn) \in SUBSET Secs
  BY DEF BufSrc, Types, CallTypes, Bufs
<1>2. dst \in SUBSET Secs /\ dst # {}
  BY <1>1, BitsThere
<1>3. SecPerVPg - 1 \in Nat /\ Secs = 0 .. SecPerVPg - 1
  BY SizesAssumption DEF Secs
<1> HIDE DEF dst
<1>4. Max(dst) \in Secs
  BY <1>2, <1>3, MaxIn
<1>5. 0 .. Max(dst) \in SUBSET Secs
  BY <1>3, <1>4
<1>6. BufferBits(op.lpn) = IF map[op.lpn] = Blank THEN dst ELSE dst \cup 0 .. Max(dst)
  BY DEF BufferBits, dst
<1>7. QED BY <1>2, <1>5, <1>6

LEMMA WriteBufferPageKeeps ==
  ASSUME Inv, WriteBufferPage
  PROVE  Inv'
<1> DEFINE l == op.lpn
           bits == BufferBits(l)
           data == [s \in Secs |-> IF s \in bits THEN NewData(l)[s] ELSE 0]
           page == [lpn |-> l, data |-> data, valid |-> bits]
<1>1. op.kind = "write" /\ op.step = "buffer" /\ ~flushing
  BY DEF WriteBufferPage, At
<1>2. Types /\ op \in Ops /\ InRange(op) /\ l \in Lpns /\ Grp(l) \in Groups /\ open /\ buf \in Bufs
  BY <1>1, Opened, WritesPage DEF Inv, Types, CallTypes, Ranged
<1>3. bits \in SUBSET Secs
  BY <1>2, BufferBitsType
<1>4. data \in Data
  <2>1. NewData(l) \in Data
    BY <1>2, NewDataType
  <2> HIDE DEF bits, l
  <2>2. QED BY <2>1, SizesAssumption DEF Data
<1>5. page \in BufPage
  BY <1>2, <1>3, <1>4 DEF BufPage
<1>6. CASE /\ bblk' = Append2BBlk(page)
           /\ bBlkVbn' = NextBBlk
           /\ buf' = [lpn |-> l, dirty |-> TRUE, valid |-> bits, data |-> data,
                      cp |-> IF BBlkFull THEN 1 ELSE buf.cp + 1]
           /\ dropped' = (dropped /\ BBlkFull)
           /\ GoTo("bmt")
           /\ UNCHANGED <<pages, active, stored, pmt, storedBBlk, open, map, cp,
                          unscanned, delGrp, flushing, writes, losses, secured, reverted>>
  <2>1. /\ op' \in Ops /\ op'.step = "bmt" /\ op'.kind = "write" /\ op'.lpn = l /\ Ranged'
    BY <1>1, <1>2, <1>6, StepIs DEF Inv, Steps
  <2> HIDE DEF l, bits, data, page
  <2>2. /\ bBlkVbn' \in {1, 2} /\ bblk' \in [{1, 2} -> Seq(BufPage)]
        /\ \A b \in {1, 2} : Len(bblk'[b]) <= BufPages
        /\ Len(bblk'[bBlkVbn']) = buf'.cp /\ buf'.cp \in 0 .. BufPages
    BY <1>2, <1>5, <1>6, Append2BBlkKeeps
  <2>3. buf' \in Bufs /\ buf'.lpn = l
    BY <1>2, <1>3, <1>4, <1>6, <2>2 DEF Bufs
  <2>4. LogTypes'
    BY <1>2, <1>6 DEF Types, LogTypes
  <2>5. BlkTypes'
    BY <1>2, <1>6, <2>2 DEF Types, BlkTypes
  <2>6. MapTypes'
    BY <1>2, <1>6 DEF Types, MapTypes
  <2>7. CallTypes'
    BY <1>2, <1>6, <2>1, <2>3 DEF Types, CallTypes
  <2>8. Grp(l) \notin unscanned
    BY <1>1 DEF Inv, Phases, l
  <2>9. Phases'
    BY <1>1, <1>2, <1>6, <2>1, <2>3, <2>8 DEF Inv, Phases
  <2>10. Ends'
    BY <1>6 DEF Inv, Ends
  <2>11. BufEnds'
    BY <2>2 DEF BufEnds
  <2>12. Room'
    BY <1>6, <2>1, <2>3, <2>8 DEF Room
  <2>13. QED BY <2>1, <2>4, <2>5, <2>6, <2>7, <2>9, <2>10, <2>11, <2>12 DEF Inv, Types
<1>7. CASE /\ bblk' = Append2BBlk(TornBuf)
           /\ Off
           /\ UNCHANGED <<pages, active, stored, pmt, storedBBlk,
                          writes, secured, dropped, reverted>>
  <2>1. /\ bblk' \in [{1, 2} -> Seq(BufPage)]
        /\ \A b \in {1, 2} : Len(bblk'[b]) <= BufPages
    BY <1>2, <1>7, TornType, Append2BBlkKeeps
  <2>2. /\ pages' \in [Groups -> Seq(LogPage)]
        /\ \A g \in Groups : Len(pages'[g]) <= PagesPerSBlk
        /\ active' \subseteq Groups /\ stored' \in [Groups -> 0 .. PagesPerSBlk]
        /\ storedBBlk' \in {1, 2} /\ pmt' \in [Lpns -> Data] /\ secured' \in [Lpns -> Data]
        /\ reverted' \subseteq Lpns /\ dropped' \in BOOLEAN /\ writes' \in 0 .. MaxWrites
    BY <1>2, <1>7 DEF Types, LogTypes, BlkTypes, MapTypes
  <2>3. \A g \in Groups : g \notin active' /\ stored'[g] < PagesPerSBlk =>
                               Len(pages'[g]) = stored'[g]
    BY <1>7 DEF Inv, Ends
  <2>4. QED BY <1>7, <2>1, <2>2, <2>3, OffInv
<1>8. QED BY <1>6, <1>7 DEF WriteBufferPage

LEMMA WriteStoreBMTCtxKeeps ==
  ASSUME Inv, WriteStoreBMTCtx
  PROVE  Inv'
<1>1. /\ op.kind = "write" /\ op.step = "bmt" /\ storedBBlk' = bBlkVbn /\ dropped' = FALSE
      /\ secured' = [secured EXCEPT ![buf.lpn] =
                        [s \in Secs |-> IF s \in buf.valid
                                        THEN Max({@[s], buf.data[s]}) ELSE @[s]]]
      /\ Advance(op.lpn)
      /\ UNCHANGED <<pages, active, stored, pmt, bblk, open, map, cp, unscanned,
                     buf, bBlkVbn, delGrp, flushing, writes, losses, reverted>>
  BY DEF WriteStoreBMTCtx, At
<1>2. Types /\ op \in Ops /\ InRange(op) /\ open
  BY <1>1, Opened DEF Inv, Types, CallTypes, Ranged
<1>3. /\ op' \in Ops /\ op'.kind = "write" /\ InRange(op')
      /\ op'.step \in {"page", "reserve"} /\ Grp(op'.lpn) = Grp(op.lpn)
  BY <1>1, <1>2, AdvanceKeeps
<1>4. secured' \in [Lpns -> Data]
  <2> DEFINE b == buf.lpn
             new == [s \in Secs |-> IF s \in buf.valid
                                    THEN Max({secured[b][s], buf.data[s]}) ELSE secured[b][s]]
  <2>1. b \in Lpns
    BY <1>1, <1>2, WritesPage DEF Inv, Phases
  <2>2. ASSUME NEW s \in Secs
        PROVE  (IF s \in buf.valid THEN Max({secured[b][s], buf.data[s]}) ELSE secured[b][s]) \in 0 .. MaxWrites
    <3>1. secured[b][s] \in 0 .. MaxWrites /\ buf.data[s] \in 0 .. MaxWrites
      BY <1>2, <2>1 DEF Types, MapTypes, CallTypes, Bufs, Data
    <3>2. QED BY <3>1, MaxOfTwo, SizesAssumption
  <2>3. new \in Data
    BY <2>2 DEF Data
  <2>4. secured \in [Lpns -> Data] /\ secured' = [secured EXCEPT ![b] = new]
    BY <1>1, <1>2, <2>1 DEF Types, MapTypes
  <2> HIDE DEF new, b
  <2>5. QED BY <2>3, <2>4
<1>5. LogTypes'
  BY <1>1, <1>2 DEF Types, LogTypes
<1>6. BlkTypes'
  BY <1>1, <1>2 DEF Types, BlkTypes
<1>7. MapTypes'
  BY <1>1, <1>2, <1>4 DEF Types, MapTypes
<1>8. CallTypes'
  BY <1>1, <1>2, <1>3 DEF Types, CallTypes
<1>9. Ranged'
  BY <1>3 DEF Ranged
<1>10. Phases'
  BY <1>1, <1>2, <1>3 DEF Inv, Phases
<1>11. Ends'
  BY <1>1 DEF Inv, Ends
<1>12. BufEnds'
  BY <1>1 DEF Inv, BufEnds
<1>13. Room'
  BY <1>1, <1>3 DEF Inv, Room, HasRoom
<1>14. QED BY <1>5, <1>6, <1>7, <1>8, <1>9, <1>10, <1>11, <1>12, <1>13 DEF Inv, Types
-----------------------------------------------------------------------------
(***************************************************************************)
(* Delete, close, open, scan and power loss.                               *)
(***************************************************************************)
\* A buffer that is not dirty needs nothing of the logs.
LEMMA DeleteInvalidateKeeps ==
  ASSUME Inv, DeleteInvalidate
  PROVE  Inv'
<1>1. /\ op.kind = "delete" /\ buf' = NoBuf(buf.cp) /\ dropped' = TRUE /\ GoTo("map")
      /\ UNCHANGED <<flash, open, map, cp, unscanned, bBlkVbn, delGrp, flushing,
                     writes, losses, secured, reverted>>
  BY DEF DeleteInvalidate, At
<1>2. Types /\ open /\ buf.cp \in 0 .. BufPages
  BY <1>1, Opened DEF Inv, Types, CallTypes, Bufs
<1>3. op' \in Ops /\ op'.step = "map" /\ op'.kind = "delete" /\ Ranged'
  BY <1>1, <1>2, StepIs DEF Inv, Types, CallTypes, Steps
<1>4. buf' \in Bufs /\ ~buf'.dirty /\ buf'.cp = buf.cp
  BY <1>1, <1>2, NoBufType
<1>5. LogTypes'
  BY <1>1, <1>2 DEF Types, LogTypes, flash
<1>6. BlkTypes'
  BY <1>1, <1>2 DEF Types, BlkTypes, flash
<1>7. MapTypes'
  BY <1>1, <1>2 DEF Types, MapTypes, flash
<1>8. CallTypes'
  BY <1>1, <1>2, <1>3, <1>4 DEF Types, CallTypes
<1>9. Phases'
  BY <1>1, <1>2, <1>3 DEF Inv, Phases
<1>10. Ends'
  BY <1>1 DEF Inv, Ends, flash
<1>11. BufEnds'
  BY <1>1, <1>4 DEF Inv, BufEnds, flash
<1>12. Room'
  BY <1>4 DEF Room
<1>13. QED BY <1>3, <1>5, <1>6, <1>7, <1>8, <1>9, <1>10, <1>11, <1>12 DEF Inv, Types

LEMMA DeletePageKeeps ==
  ASSUME Inv, DeletePage
  PROVE  Inv'
<1> DEFINE l == op.lpn
           g == Grp(l)
<1>1. op.kind = "delete" /\ g \notin unscanned
  BY DEF DeletePage, At
<1>2. Types /\ open /\ l \in Lpns /\ g \in Groups
  BY <1>1, Opened, GrpType DEF Inv, Ranged
<1>3. CASE StoreDeletedInfo
  BY <1>1, <1>3, StoreDeletedKeeps
<1>4. CASE /\ map' = [map EXCEPT ![l] = Blank]
           /\ delGrp' = IF map[l] # Blank THEN g ELSE delGrp
           /\ secured' = [secured EXCEPT ![l] = Blank]
           /\ op' = Idle
           /\ UNCHANGED <<flash, open, cp, unscanned, buf, bBlkVbn,
                          flushing, writes, losses, dropped, reverted>>
  <2> HIDE DEF l, g
  <2>1. op' \in Ops /\ op'.kind = "none"
    BY <1>4, IdleType
  <2>2. LogTypes'
    BY <1>2, <1>4 DEF Types, LogTypes, flash
  <2>3. BlkTypes'
    BY <1>2, <1>4 DEF Types, BlkTypes, flash
  <2>4. MapTypes'
    BY <1>2, <1>4, BlankType DEF Types, MapTypes, flash
  <2>5. CallTypes'
    BY <1>2, <1>4, <2>1 DEF Types, CallTypes
  <2>6. Ranged'
    BY <2>1 DEF Ranged
  <2>7. Phases'
    BY <1>1, <1>2, <1>4, <2>1 DEF Inv, Phases
  <2>8. Ends'
    BY <1>4 DEF Inv, Ends, flash
  <2>9. BufEnds'
    BY <1>4 DEF Inv, BufEnds, flash
  <2>10. Room'
    BY <1>1, <1>4 DEF Inv, Room, HasRoom, flash
  <2>11. QED BY <2>2, <2>3, <2>4, <2>5, <2>6, <2>7, <2>8, <2>9, <2>10 DEF Inv, Types
<1>5. QED BY <1>3, <1>4 DEF DeletePage

\* One of the two blocks is empty, and is the buffer block.
LEMMA EraseIs ==
  ASSUME Types, EraseBBlk
  PROVE  /\ bblk' \in [{1, 2} -> Seq(BufPage)]
         /\ \A b \in {1, 2} : Len(bblk'[b]) <= BufPages
         /\ bBlkVbn' \in {1, 2} /\ bblk'[bBlkVbn'] = <<>> /\ dropped' \in BOOLEAN
<1>1. PICK b \in {1, 2} : /\ bblk' = [bblk EXCEPT ![b] = <<>>]
                          /\ bBlkVbn' = b
                          /\ dropped' = (dropped /\ b # bBlkVbn)
  BY DEF EraseBBlk
<1>2. /\ bblk \in [{1, 2} -> Seq(BufPage)] /\ \A c \in {1, 2} : Len(bblk[c]) <= BufPages
      /\ <<>> \in Seq(BufPage) /\ Len(<<>>) = 0 /\ BufPages \in Nat
  BY SizesAssumption DEF Types, BlkTypes
<1>3. QED BY <1>1, <1>2

LEMMA CloseEraseKeeps ==
  ASSUME Inv, CloseErase
  PROVE  Inv'
<1>1. /\ op.kind = "close" /\ op.step = "erase" /\ EraseBBlk /\ buf' = NoBuf(0) /\ GoTo("store")
      /\ UNCHANGED <<pages, active, stored, pmt, storedBBlk, open, map, cp,
                     unscanned, delGrp, flushing, writes, losses, secured, reverted>>
  BY DEF CloseErase, At
<1>2. Types /\ open /\ unscanned = {}
  BY <1>1, Opened DEF Inv, Phases
<1>3. op' \in Ops /\ op'.step = "store" /\ op'.kind = "close" /\ Ranged'
  BY <1>1, <1>2, StepIs DEF Inv, Types, CallTypes, Steps
<1>4. buf' \in Bufs /\ ~buf'.dirty /\ buf'.cp = 0
  BY <1>1, NoBufType, SizesAssumption
<1>5. /\ bblk' \in [{1, 2} -> Seq(BufPage)] /\ \A b \in {1, 2} : Len(bblk'[b]) <= BufPages
      /\ bBlkVbn' \in {1, 2} /\ bblk'[bBlkVbn'] = <<>> /\ dropped' \in BOOLEAN
  BY <1>1, <1>2, EraseIs
<1>6. LogTypes'
  BY <1>1, <1>2 DEF Types, LogTypes
<1>7. BlkTypes'
  BY <1>1, <1>2, <1>5 DEF Types, BlkTypes
<1>8. MapTypes'
  BY <1>1, <1>2, <1>5 DEF Types, MapTypes
<1>9. CallTypes'
  BY <1>1, <1>2, <1>3, <1>4 DEF Types, CallTypes
<1>10. Phases'
  BY <1>1, <1>2, <1>3, <1>4 DEF Inv, Phases
<1>11. Ends'
  BY <1>1 DEF Inv, Ends
<1>12. BufEnds'
  BY <1>4, <1>5 DEF BufEnds
<1>13. Room'
  BY <1>4 DEF Room
<1>14. QED BY <1>3, <1>6, <1>7, <1>8, <1>9, <1>10, <1>11, <1>12, <1>13 DEF Inv, Types

LEMMA FlashInv ==
  ASSUME Inv, Off, UNCHANGED <<flash, writes, secured, dropped, reverted>>
  PROVE  Inv'
<1>1. /\ pages' \in [Groups -> Seq(LogPage)]
      /\ \A g \in Groups : Len(pages'[g]) <= PagesPerSBlk
      /\ active' \subseteq Groups /\ stored' \in [Groups -> 0 .. PagesPerSBlk]
      /\ bblk' \in [{1, 2} -> Seq(BufPage)] /\ \A b \in {1, 2} : Len(bblk'[b]) <= BufPages
      /\ storedBBlk' \in {1, 2} /\ pmt' \in [Lpns -> Data] /\ secured' \in [Lpns -> Data]
      /\ reverted' \subseteq Lpns /\ dropped' \in BOOLEAN /\ writes' \in 0 .. MaxWrites
  BY DEF Inv, Types, LogTypes, BlkTypes, MapTypes, flash
<1>2. \A g \in Groups : g \notin active' /\ stored'[g] < PagesPerSBlk =>
                               Len(pages'[g]) = stored'[g]
  BY DEF Inv, Ends, flash
<1>3. QED BY <1>1, <1>2, OffInv

LEMMA CloseDoneKeeps ==
  ASSUME Inv, CloseDone
  PROVE  Inv'
BY FlashInv DEF CloseDone, hist

LEMMA PowerLossKeeps ==
  ASSUME Inv, PowerLoss
  PROVE  Inv'
BY FlashInv DEF PowerLoss

\* The logs in the active list wait for their scan; of the others the map on
\* flash has the end.
LEMMA BeginOpenKeeps ==
  ASSUME Inv, BeginOpen
  PROVE  Inv'
<1>1. /\ ~open /\ open' = TRUE /\ map' = pmt /\ cp' = stored /\ unscanned' = active
      /\ bBlkVbn' = storedBBlk /\ buf' = ScanBufferBlk(bblk[storedBBlk])
      /\ op' = [Idle EXCEPT !.kind = "open", !.step = "flush"]
      /\ UNCHANGED <<flash, delGrp, flushing, hist>>
  BY DEF BeginOpen
<1>2. Types /\ delGrp = None /\ ~flushing
  BY <1>1 DEF Inv, Phases
<1>3. op' \in Ops /\ op'.kind = "open" /\ op'.step = "flush"
  BY <1>1, IdleType DEF Ops, Kinds, Steps
<1>4. buf' \in Bufs /\ buf'.cp = BufPages /\ (buf'.dirty => buf'.lpn \in Lpns)
  <2>1. bblk[storedBBlk] \in Seq(BufPage)
    BY <1>2 DEF Types, BlkTypes
  <2>2. QED BY <1>1, <2>1, ScanBufferType
<1>5. LogTypes'
  BY <1>1, <1>2 DEF Types, LogTypes, flash
<1>6. BlkTypes'
  BY <1>1, <1>2 DEF Types, BlkTypes, flash
<1>7. MapTypes'
  BY <1>1, <1>2 DEF Types, MapTypes, flash, hist
<1>8. CallTypes'
  BY <1>1, <1>2, <1>3, <1>4 DEF Types, CallTypes
<1>9. Ranged'
  BY <1>3 DEF Ranged
<1>10. Phases'
  BY <1>1, <1>2, <1>3 DEF Phases
<1>11. Ends'
  BY <1>1 DEF Inv, Ends, flash
<1>12. BufEnds'
  BY <1>4 DEF BufEnds
<1>13. Room'
  BY <1>3 DEF Room
<1>14. QED BY <1>5, <1>6, <1>7, <1>8, <1>9, <1>10, <1>11, <1>12, <1>13 DEF Inv, Types

LEMMA OpenEraseKeeps ==
  ASSUME Inv, OpenErase
  PROVE  Inv'
<1>1. /\ op.kind = "open" /\ op.step = "erase" /\ EraseBBlk /\ buf' = [buf EXCEPT !.cp = 0]
      /\ GoTo("store")
      /\ UNCHANGED <<pages, active, stored, pmt, storedBBlk, open, map, cp,
                     unscanned, delGrp, flushing, writes, losses, secured, reverted>>
  BY DEF OpenErase, At
<1>2. Types /\ open
  BY <1>1, Opened DEF Inv
<1>3. op' \in Ops /\ op'.step = "store" /\ op'.kind = "open" /\ Ranged'
  BY <1>1, <1>2, StepIs DEF Inv, Types, CallTypes, Steps
<1>4. buf' \in Bufs /\ buf'.dirty = buf.dirty /\ buf'.lpn = buf.lpn /\ buf'.cp = 0
  BY <1>1, <1>2, SizesAssumption DEF Types, CallTypes, Bufs
<1>5. /\ bblk' \in [{1, 2} -> Seq(BufPage)] /\ \A b \in {1, 2} : Len(bblk'[b]) <= BufPages
      /\ bBlkVbn' \in {1, 2} /\ bblk'[bBlkVbn'] = <<>> /\ dropped' \in BOOLEAN
  BY <1>1, <1>2, EraseIs
<1>6. LogTypes'
  BY <1>1, <1>2 DEF Types, LogTypes
<1>7. BlkTypes'
  BY <1>1, <1>2, <1>5 DEF Types, BlkTypes
<1>8. MapTypes'
  BY <1>1, <1>2, <1>5 DEF Types, MapTypes
<1>9. CallTypes'
  BY <1>1, <1>2, <1>3, <1>4 DEF Types, CallTypes
<1>10. Phases'
  BY <1>1, <1>2, <1>3, <1>4, <1>5 DEF Inv, Phases
<1>11. Ends'
  BY <1>1 DEF Inv, Ends
<1>12. BufEnds'
  BY <1>4, <1>5 DEF BufEnds
<1>13. Room'
  BY <1>3 DEF Room
<1>14. QED BY <1>3, <1>6, <1>7, <1>8, <1>9, <1>10, <1>11, <1>12, <1>13 DEF Inv, Types

\* The map of the flushed page's group is stored, with the end of its log.
LEMMA OpenStoreKeeps ==
  ASSUME Inv, OpenStore
  PROVE  Inv'
<1> DEFINE g == Grp(buf.lpn)
<1>1. /\ op.kind = "open" /\ op.step = "store" /\ StorePMTCtx(g, cp[g])
      /\ buf' = NoBuf(0) /\ op' = Idle
      /\ UNCHANGED <<pages, active, bblk, open, map, cp, unscanned, bBlkVbn,
                     delGrp, flushing, writes, losses, reverted>>
  BY DEF OpenStore, At
<1>2. Types /\ open /\ bblk[bBlkVbn] = <<>>
  BY <1>1, Opened DEF Inv, Phases
<1> HIDE DEF g
<1>3. /\ stored' \in [Groups -> 0 .. PagesPerSBlk]
      /\ pmt' \in [Lpns -> Data] /\ secured' \in [Lpns -> Data]
      /\ dropped' \in BOOLEAN /\ storedBBlk' \in {1, 2}
  <2>1. g \in Groups => cp[g] \in 0 .. PagesPerSBlk
    BY <1>2 DEF Types, LogTypes
  <2> DEFINE n == cp[g]
  <2>2. (g \in Groups => n \in 0 .. PagesPerSBlk) /\ StorePMTCtx(g, n)
    BY <1>1, <2>1
  <2> HIDE DEF n
  <2>3. QED BY <1>2, <2>2, StoreTypes
<1>4. stored' = [stored EXCEPT ![g] = cp[g]]
  BY <1>1 DEF StorePMTCtx
<1>5. op' \in Ops /\ op'.kind = "none" /\ buf' \in Bufs /\ ~buf'.dirty /\ buf'.cp = 0
  BY <1>1, IdleType, NoBufType, SizesAssumption
<1>6. LogTypes'
  BY <1>1, <1>2, <1>3 DEF Types, LogTypes
<1>7. BlkTypes'
  BY <1>1, <1>2, <1>3 DEF Types, BlkTypes
<1>8. MapTypes'
  BY <1>1, <1>2, <1>3 DEF Types, MapTypes
<1>9. CallTypes'
  BY <1>1, <1>2, <1>5 DEF Types, CallTypes
<1>10. Ranged'
  BY <1>5 DEF Ranged
<1>11. Phases'
  BY <1>1, <1>2, <1>5 DEF Inv, Phases
<1>12. Ends'
  <2>1. \A h \in Groups : h \notin active /\ stored'[h] < PagesPerSBlk => Len(pages[h]) = stored'[h]
    <3>1. SUFFICES ASSUME NEW h \in Groups, h \notin active, stored'[h] < PagesPerSBlk
          PROVE  Len(pages[h]) = stored'[h]
      OBVIOUS
    <3>2. h \notin unscanned
      BY <1>2, <3>1 DEF Types, LogTypes
    <3>3. CASE h = g
      BY <1>2, <1>4, <3>1, <3>2, <3>3 DEF Inv, Ends, Types, LogTypes
    <3>4. CASE h # g
      BY <1>2, <1>4, <3>1, <3>4 DEF Inv, Ends, Types, LogTypes
    <3>5. QED BY <3>3, <3>4
  <2>2. QED BY <1>1, <2>1 DEF Inv, Ends
<1>13. BufEnds'
  BY <1>1, <1>2, <1>5 DEF BufEnds
<1>14. Room'
  BY <1>5 DEF Room
<1>15. QED BY <1>6, <1>7, <1>8, <1>9, <1>10, <1>11, <1>12, <1>13, <1>14 DEF Inv, Types
\* A scanned log is closed for writing, and it is not the log of a buffered page
\* a write is just storing the context for.
LEMMA ScanKeeps ==
  ASSUME Inv, ScanStep
  PROVE  Inv'
<1>1. PICK g \in ToScan : Scan(g)
  BY DEF ScanStep
<1> DEFINE first == stored[g] + 1
           to    == RecoverTo(pages[g], first, buf)
           found == FoundInLog(pages[g], first, buf)
<1>2. /\ g \in unscanned /\ unscanned' = unscanned \ {g}
      /\ UNCHANGED <<flash, open, bBlkVbn, delGrp, op, flushing, writes, losses, secured>>
  BY <1>1 DEF Scan
<1>3. IF cp[g] < PagesPerSBlk
      THEN /\ map' = Apply(map, pages[g], first, to)
           /\ cp' = [cp EXCEPT ![g] = PagesPerSBlk]
           /\ buf' = IF found THEN NoBuf(BufPages) ELSE buf
           /\ dropped' = (dropped \/ found)
           /\ reverted' = IF found /\ Overtaken(g)
                          THEN reverted \cup {buf.lpn} ELSE reverted
      ELSE UNCHANGED <<map, cp, buf, dropped, reverted>>
  BY <1>1 DEF Scan
<1>4. Types /\ open /\ g \in Groups /\ g \in active
  BY <1>2 DEF Inv, Types, LogTypes, ScanStep
<1>5. pages[g] \in Seq(LogPage) /\ first \in Nat \ {0}
  BY <1>4 DEF Types, LogTypes
<1>6. map' \in [Lpns -> Data]
  <2>1. to \in Int /\ (to <= Len(pages[g]) \/ to < first)
    BY <1>5, RecoverIs
  <2> HIDE DEF to, first
  <2>2. Apply(map, pages[g], first, to) \in [Lpns -> Data]
    BY <1>4, <1>5, <2>1, ApplyType DEF Types, MapTypes
  <2>3. QED BY <1>3, <1>4, <2>2 DEF Types, MapTypes
<1>7. found => buf.lpn \in Lpns
  BY <1>4 DEF FoundInLog, LastIsBuffered, Types, CallTypes, Bufs
<1> HIDE DEF first, to, found
<1>8. NoBuf(BufPages) \in Bufs /\ NoBuf(BufPages).cp = BufPages /\ ~NoBuf(BufPages).dirty
  BY NoBufType, SizesAssumption
<1>9. /\ buf' \in Bufs /\ (buf' = buf \/ (buf'.cp = BufPages /\ ~buf'.dirty))
      /\ reverted' \subseteq Lpns
  BY <1>3, <1>4, <1>7, <1>8 DEF Types, MapTypes, CallTypes
<1>10. /\ cp' \in [Groups -> 0 .. PagesPerSBlk] /\ ~(cp'[g] < PagesPerSBlk)
       /\ \A h \in Groups : h # g => cp'[h] = cp[h]
  <2>1. cp \in [Groups -> 0 .. PagesPerSBlk] /\ PagesPerSBlk \in Nat
    BY <1>4, SizesAssumption DEF Types, LogTypes
  <2>2. QED BY <1>3, <1>4, <2>1
<1>11. LogTypes'
  BY <1>2, <1>4, <1>10 DEF Types, LogTypes, flash
<1>12. BlkTypes'
  BY <1>2, <1>4 DEF Types, BlkTypes, flash
<1>13. dropped' \in BOOLEAN
  BY <1>3, <1>4 DEF Types, MapTypes
<1>14. MapTypes'
  BY <1>2, <1>4, <1>6, <1>9, <1>13 DEF Types, MapTypes, flash
<1>15. CallTypes'
  BY <1>2, <1>4, <1>9 DEF Types, CallTypes
<1>16. Ranged'
  BY <1>2 DEF Inv, Ranged, InRange
<1>17. ~(op.kind = "write" /\ op.step = "bmt")
  <2>1. SUFFICES ASSUME op.kind = "write", op.step = "bmt" PROVE FALSE
    OBVIOUS
  <2>2. ~flushing
    BY <2>1 DEF Inv, Phases
  <2>3. \A h \in Groups \ unscanned : ~WantsSlot(h)
    BY <2>1, <2>2 DEF WantsSlot
  <2>4. ToScan = {}
    BY <2>1, <2>3 DEF ToScan
  <2>5. QED BY <1>1, <2>4
<1>18. Phases'
  BY <1>2, <1>4, <1>9, <1>17 DEF Inv, Phases, flash
<1>19. Ends'
  BY <1>2, <1>10 DEF Inv, Ends, flash
<1>20. BufEnds'
  BY <1>2, <1>9 DEF Inv, BufEnds, flash
<1>21. Room'
  <2>1. SUFFICES ASSUME buf'.dirty, op.kind # "open"
        PROVE  /\ Grp(buf'.lpn) \notin unscanned'
               /\ \/ Grp(buf'.lpn) \in active /\ cp'[Grp(buf'.lpn)] < PagesPerSBlk
                  \/ op.kind = "write" /\ op.step # "start" /\ Grp(op.lpn) = Grp(buf'.lpn)
    BY <1>2 DEF Room, HasRoom, flash
  <2>2. buf' = buf
    BY <1>9, <2>1
  <2>3. Grp(buf.lpn) \in Groups
    BY <1>4, <2>1, <2>2, GrpType DEF Types, CallTypes
  <2>4. QED BY <1>2, <1>4, <1>10, <2>1, <2>2, <2>3 DEF Inv, Room, HasRoom
<1>22. QED BY <1>11, <1>12, <1>14, <1>15, <1>16, <1>18, <1>19, <1>20, <1>21 DEF Inv, Types
-----------------------------------------------------------------------------
(***************************************************************************)
(* The theorems.                                                           *)
(***************************************************************************)
LEMMA InitInv ==
  ASSUME Init
  PROVE  Inv
<1>1. op = Idle /\ buf = NoBuf(0) /\ open = FALSE /\ flushing = FALSE
  BY DEF Init
<1>2. buf \in Bufs /\ ~buf.dirty /\ op \in Ops /\ op.kind = "none"
  BY <1>1, NoBufType, IdleType, SizesAssumption
<1>3. LogTypes
  <2>1. <<>> \in Seq(LogPage) /\ Len(<<>>) = 0
    OBVIOUS
  <2>2. QED BY <2>1, SizesAssumption DEF Init, LogTypes
<1>4. BlkTypes
  <2>1. <<>> \in Seq(BufPage) /\ Len(<<>>) = 0
    OBVIOUS
  <2>2. QED BY <2>1, SizesAssumption DEF Init, BlkTypes
<1>5. MapTypes
  <2>1. writes \in 0 .. MaxWrites /\ reverted \subseteq Lpns
    BY SizesAssumption DEF Init
  <2>2. dropped \in BOOLEAN
    BY Zenon DEF Init
  <2>3. pmt \in [Lpns -> Data] /\ map \in [Lpns -> Data] /\ secured \in [Lpns -> Data]
    BY BlankType DEF Init
  <2>4. QED BY <2>1, <2>2, <2>3 DEF MapTypes
<1>6. CallTypes
  BY <1>1, <1>2 DEF Init, CallTypes
<1>7. Ranged
  BY <1>2 DEF Ranged
<1>8. Phases
  BY <1>1, <1>2 DEF Init, Phases
<1>9. Ends
  BY <1>1, SizesAssumption DEF Init, Ends
<1>10. BufEnds /\ Room
  BY <1>1 DEF BufEnds, Room
<1>11. QED BY <1>3, <1>4, <1>5, <1>6, <1>7, <1>8, <1>9, <1>10 DEF Inv, Types

LEMMA Unmoved ==
  ASSUME Inv, UNCHANGED vars
  PROVE  Inv'
<1>1. UNCHANGED <<flash, open, map, cp, unscanned, buf, bBlkVbn, delGrp, secured, dropped, reverted>>
  BY DEF vars, ram, hist
<1>2. UNCHANGED <<op, flushing, writes>>
  BY DEF vars, ram, hist
<1>3. writes' \in 0 .. MaxWrites /\ op' \in Ops /\ flushing' \in BOOLEAN
  BY <1>2 DEF Inv, Types, MapTypes, CallTypes
<1>4. Ranged'
  BY <1>2 DEF Inv, Ranged, InRange
<1>5. Phases'
  BY <1>1, <1>2 DEF Inv, Phases, flash
<1>6. Room'
  BY <1>1, <1>2 DEF Inv, Room, HasRoom, flash
<1>7. QED BY <1>1, <1>3, <1>4, <1>5, <1>6, CallMoves

LEMMA NextInv ==
  ASSUME Inv, [Next]_vars
  PROVE  Inv'
<1>1. CASE BeginOpen
  BY <1>1, BeginOpenKeeps
<1>2. CASE OpenStep
  BY <1>2, OpenFlushKeeps, OpenEraseKeeps, OpenStoreKeeps DEF OpenStep
<1>3. CASE BeginWrite
  BY <1>3, BeginWriteKeeps
<1>4. CASE WriteStep
  BY <1>4, WriteStartKeeps, WriteTakeLogKeeps, WriteToBufferKeeps, WriteLogPageKeeps,
     WriteBufferPageKeeps, WriteStoreBMTCtxKeeps, EndOfGroupKeeps DEF WriteStep
<1>5. CASE ReadStart
  BY <1>5, ReadStartKeeps
<1>6. CASE FlushStep
  BY <1>6, FlushPageKeeps, FlushTakeLogKeeps DEF FlushStep
<1>7. CASE ScanStep
  BY <1>7, ScanKeeps
<1>8. CASE \E l \in Deletable : BeginDelete(l)
  BY <1>8, BeginDeleteKeeps
<1>9. CASE DeleteStep
  BY <1>9, DeleteInvalidateKeeps, DeletePageKeeps DEF DeleteStep
<1>10. CASE EvictStep
  BY <1>10, EvictFlushKeeps, EvictStoreKeeps DEF EvictStep
<1>11. CASE BeginClose
  BY <1>11, BeginCloseKeeps
<1>12. CASE CloseStep
  BY <1>12, CloseStartKeeps, CloseEraseKeeps, CloseStoreKeeps, CloseDoneKeeps DEF CloseStep
<1>13. CASE PowerLoss
  BY <1>13, PowerLossKeeps
<1>14. CASE UNCHANGED vars
  BY <1>14, Unmoved
<1>15. QED BY <1>1, <1>2, <1>3, <1>4, <1>5, <1>6, <1>7, <1>8, <1>9, <1>10, <1>11, <1>12,
             <1>13, <1>14 DEF Next

LEMMA Invariance == Spec => []Inv
<1>1. Init => Inv
  BY InitInv
<1>2. Inv /\ [Next]_vars => Inv'
  BY NextInv
<1>3. QED BY <1>1, <1>2, PTL DEF Spec

\* Every variable keeps its type, whatever is written, deleted, closed and lost:
\* in particular no log block and no buffer block is programmed past its last
\* page, the scan of a log only takes over pages that are there, and the loop of
\* FSR_STL_Write over a request never writes a page outside the zone.
THEOREM TypeCorrect == Spec => []TypeOK
<1>1. Inv => TypeOK
  BY DEF Inv, Types, LogTypes, BlkTypes, MapTypes, CallTypes, Bufs, TypeOK
<1>2. QED BY <1>1, Invariance, PTL

\* "reserve one free log page for the future flush operation": between calls the
\* log of the buffered page is in the active list and has a page left.  No write
\* of another group, no eviction from the list, no deferred store of a delete and
\* no scan takes that page away.
THEOREM FlushRoomReserved == Spec => []FlushHasRoom
<1>1. Inv => FlushHasRoom
  BY DEF Inv, Room, FlushHasRoom
<1>2. QED BY <1>1, Invariance, PTL
=============================================================================
