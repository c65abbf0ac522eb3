-------------------------- MODULE RfsLogRingProofs --------------------------
(***************************************************************************)
(* Proofs about RfsLogRing, for every size of the ring, of its groups and  *)
(* its transactions, and any number of laps, crashes and mounts: the       *)
(* search of a mount finds the newest record, the walk back from it meets  *)
(* the open transaction, and the position taken from it is the next one.   *)
(***************************************************************************)
EXTENDS RfsLogRing, Integers, TLAPS

(***************************************************************************)
(* Positions in the ring.                                                  *)
(***************************************************************************)
\* The sector k places before sector h.
Back(h, k) == IF k <= h THEN h - k ELSE h - k + N

LEMMA NextSectorIs ==
  ASSUME NEW i \in Index, NEW n \in 0..N
  PROVE  /\ NextSector(i, n) = IF i + n < N THEN i + n ELSE i + n - N
         /\ NextSector(i, n) \in Index
BY RingAssumption DEF NextSector, Index

LEMMA NextIs ==
  ASSUME NEW h \in Index
  PROVE  /\ NextSector(h, 1) = IF h = N - 1 THEN 0 ELSE h + 1
         /\ NextSector(h, 1) \in Index /\ N \in Nat /\ N > 1
<1>1. N \in Nat /\ N > 1
  BY RingAssumption
<1>2. h \in 0..(N - 1) /\ 1 \in 0..N
  BY <1>1 DEF Index
<1>3. QED BY <1>1, <1>2, NextSectorIs DEF Index

LEMMA BackIs ==
  ASSUME NEW i \in Index, NEW k \in 0..(N - 1)
  PROVE  (i + N - k) % N = Back(NextSector(i, 1), k + 1)
BY RingAssumption DEF NextSector, Index, Back

(***************************************************************************)
(* The ring as the writer leaves it: h is the sector to write next and t   *)
(* the sequence number it will get.  In the first lap the sectors from h   *)
(* on are cleared; later they hold the records of the lap before.          *)
(***************************************************************************)
Tip(h) == IF h = 0 THEN N - 1 ELSE h - 1

Sectors == {None, Junk} \cup [seq : 1..MaxSeq, kind : {"record", "mark"}]
Put(s, h, t, kind) == [s EXCEPT ![h] = [seq |-> t, kind |-> kind]]
Written(x, n) == x = [seq |-> n, kind |-> "record"] \/ x = [seq |-> n, kind |-> "mark"]
SectorIs(x, i, h, t) ==
  \/ i < h /\ Written(x, t - h + i)
  \/ i >= h /\ t = h + 1 /\ x = None
  \/ i >= h /\ t > N /\ Written(x, t - h - N + i)

Ring(s, h, t) == /\ t = h + 1 \/ t > N
                 /\ \A i \in Index : SectorIs(s[i], i, h, t)

\* The records written since the last mark end before h.
Chain(s, h, n) ==
  /\ \A k \in 1..n : s[Back(h, k)].kind = "record"
  /\ s[Back(h, n + 1)].kind # "record"

\* Writing a record or a mark moves the ring on by one sector.
LEMMA RingWrite ==
  ASSUME NEW s \in [Index -> Sectors], NEW h \in Index, NEW t \in Nat \ {0},
         Ring(s, h, t),
         NEW kind \in {"record", "mark"}
  PROVE  Ring(Put(s, h, t, kind), NextSector(h, 1), t + 1)
<1> DEFINE w == Put(s, h, t, kind)
           g == NextSector(h, 1)
<1> SUFFICES Ring(w, g, t + 1)
  OBVIOUS
<1>1. g = (IF h = N - 1 THEN 0 ELSE h + 1) /\ N \in Nat /\ N > 1
  BY NextIs
<1>2. w[h] = [seq |-> t, kind |-> kind] /\ \A i \in Index : i # h => w[i] = s[i]
  BY DEF Put
<1> HIDE DEF w, g
<1>3. t + 1 = g + 1 \/ t + 1 > N
  BY <1>1 DEF Ring, Index
<1>4. ASSUME NEW i \in Index
      PROVE  SectorIs(w[i], i, g, t + 1)
  <2>1. i \in 0..(N - 1) /\ h \in 0..(N - 1)
    BY DEF Index
  <2>2. CASE i = h
    <3>1. Written(w[i], t)
      BY <1>2, <2>2 DEF Written
    <3>2. t = h + 1 \/ t > N
      BY DEF Ring
    <3>3. CASE h = N - 1
      <4>1. t = t + 1 - g - N + i
        BY <1>1, <2>1, <2>2, <3>3
      <4>2. QED BY <1>1, <2>1, <3>1, <3>2, <3>3, <4>1 DEF SectorIs
    <3>4. CASE h # N - 1
      <4>1. t = t + 1 - g + i
        BY <1>1, <2>1, <2>2, <3>4
      <4>2. QED BY <1>1, <2>1, <2>2, <3>1, <3>4, <4>1 DEF SectorIs
    <3>5. QED BY <3>3, <3>4
  <2>3. CASE i # h
    <3>1. w[i] = s[i] /\ SectorIs(s[i], i, h, t)
      BY <1>2, <2>3 DEF Ring
    <3>2. CASE h = N - 1
      <4>1. i < h /\ Written(s[i], t - h + i)
        BY <2>1, <2>3, <3>1, <3>2 DEF SectorIs
      <4>2. t - h + i = t + 1 - g - N + i
        BY <1>1, <2>1, <3>2
      <4>3. i >= g /\ t + 1 > N
        BY <1>1, <1>3, <2>1, <3>2
      <4>4. Written(w[i], t + 1 - g - N + i)
        BY <3>1, <4>1, <4>2
      <4>5. QED BY <1>1, <2>1, <4>3, <4>4 DEF SectorIs
    <3>3. CASE h # N - 1
      <4>1. t - h + i = t + 1 - g + i /\ t - h - N + i = t + 1 - g - N + i
        BY <1>1, <2>1, <3>3
      <4>2. (i < h <=> i < g) /\ (t = h + 1 <=> t + 1 = g + 1) /\ (t > N => t + 1 > N)
        BY <1>1, <2>1, <2>3, <3>3
      <4>3. QED BY <1>1, <2>1, <2>3, <3>1, <3>3, <4>1, <4>2 DEF SectorIs
    <3>4. QED BY <3>2, <3>3
  <2>4. QED BY <2>2, <2>3
<1>5. QED BY <1>3, <1>4 DEF Ring

\* A record lengthens the open transaction as long as there is room in the ring.
LEMMA ChainRecord ==
  ASSUME NEW s \in [Index -> Sectors], NEW h \in Index, NEW t,
         NEW n \in 0..(N - 2), Chain(s, h, n)
  PROVE  Chain(Put(s, h, t, "record"), NextSector(h, 1), n + 1)
<1> DEFINE g == NextSector(h, 1)
           w == Put(s, h, t, "record")
<1> SUFFICES Chain(w, g, n + 1)
  OBVIOUS
<1>1. g = (IF h = N - 1 THEN 0 ELSE h + 1) /\ N \in Nat /\ N > 1
  BY NextIs
<1>2. Back(g, 1) = h
  BY <1>1 DEF Back, Index
<1>3. ASSUME NEW k \in 1..(n + 1)
      PROVE  Back(g, k + 1) = Back(h, k) /\ Back(h, k) \in Index /\ Back(h, k) # h
  BY <1>1 DEF Back, Index
<1>4. w[h].kind = "record" /\ \A i \in Index : i # h => w[i] = s[i]
  BY DEF Put
<1> HIDE DEF g, w
<1>5. ASSUME NEW k \in 1..(n + 1) PROVE w[Back(g, k)].kind = "record"
  <2>1. CASE k = 1
    BY <1>2, <1>4, <2>1
  <2>2. CASE k # 1
    <3>1. k - 1 \in 1..(n + 1) /\ k - 1 \in 1..n /\ k = (k - 1) + 1
      BY <1>5, <2>2
    <3>2. Back(g, k) = Back(h, k - 1) /\ Back(h, k - 1) \in Index /\ Back(h, k - 1) # h
      BY <1>3, <3>1
    <3>3. QED BY <1>4, <3>1, <3>2 DEF Chain
  <2>3. QED BY <2>1, <2>2
<1>6. w[Back(g, n + 1 + 1)].kind # "record"
  BY <1>3, <1>4 DEF Chain
<1>7. QED BY <1>5, <1>6 DEF Chain

\* A mark ends it.
LEMMA ChainMark ==
  ASSUME NEW s \in [Index -> Sectors], NEW h \in Index, NEW t
  PROVE  Chain(Put(s, h, t, "mark"), NextSector(h, 1), 0)
<1>1. Back(NextSector(h, 1), 1) = h
  BY NextIs DEF Back, Index
<1>2. QED BY <1>1 DEF Chain, Put

-----------------------------------------------------------------------------
(***************************************************************************)
(* Search.                                                                 *)
(***************************************************************************)
LEMMA MinIs ==
  ASSUME NEW S \in SUBSET Int, NEW m \in S, \A y \in S : m <= y
  PROVE  Min(S) = m
<1>1. ASSUME NEW x \in S, \A y \in S : x <= y PROVE x = m
  BY <1>1
<1>2. QED BY <1>1 DEF Min

\* The sequence numbers of a ring that holds a record.
LEMMA RingSeq ==
  ASSUME NEW s, NEW h \in Index, NEW t \in Nat, t > 1, Ring(s, h, t)
  PROVE  /\ h \in Int /\ N \in Nat /\ N > 1 /\ 0 <= h /\ h < N
         /\ \A i \in 0..(N - 1) :
              s[i].seq = IF i < h THEN t - h + i
                         ELSE IF t = h + 1 THEN 0 ELSE t - h - N + i
         /\ t = h + 1 \/ t > N
<1>1. N \in Nat /\ N > 1 /\ h \in Int /\ 0 <= h /\ h < N
  BY RingAssumption DEF Index
<1>2. t = h + 1 \/ t > N
  BY DEF Ring
<1>3. ASSUME NEW i \in 0..(N - 1)
      PROVE  s[i].seq = IF i < h THEN t - h + i
                        ELSE IF t = h + 1 THEN 0 ELSE t - h - N + i
  <2>1. SectorIs(s[i], i, h, t)
    BY DEF Ring, Index
  <2>2. ASSUME NEW n, Written(s[i], n) PROVE s[i].seq = n
    BY <2>2 DEF Written
  <2>3. CASE i < h /\ Written(s[i], t - h + i)
    BY <2>2, <2>3
  <2>4. CASE i >= h /\ t = h + 1 /\ s[i] = None
    BY <1>1, <2>4 DEF None
  <2>5. CASE i >= h /\ t > N /\ Written(s[i], t - h - N + i)
    <3>1. s[i].seq = t - h - N + i
      BY <2>2, <2>5
    <3>2. ~(i < h) /\ t # h + 1
      BY <1>1, <2>5
    <3>3. QED BY <3>1, <3>2
  <2>6. QED BY <2>1, <2>3, <2>4, <2>5 DEF SectorIs
<1>4. QED BY <1>1, <1>2, <1>3

\* __sequential_search_max finds the sector before h, in the first lap, at the
\* wrap and after it.
LEMMA SearchFinds ==
  ASSUME NEW s, NEW h \in Index, NEW t \in Nat, t > 1, Ring(s, h, t)
  PROVE  SearchMax(s) = Tip(h)
<1> DEFINE stops == {i \in 1..(N - 1) : Stops(s, i)}
           end == IF stops = {} THEN N ELSE Min(stops)
           sane == /\ \A j \in 1..(end - 1) : Consecutive(s, j)
                   /\ end < N => SaneFrom(s, end)
<1>1. SearchMax(s) = IF sane THEN end - 1 ELSE N
  BY DEF SearchMax
<1>2. /\ h \in Int /\ N \in Nat /\ N > 1 /\ 0 <= h /\ h < N
      /\ \A i \in 0..(N - 1) :
           s[i].seq = IF i < h THEN t - h + i
                      ELSE IF t = h + 1 THEN 0 ELSE t - h - N + i
      /\ t = h + 1 \/ t > N
  BY RingSeq
<1>3. ASSUME NEW i \in 1..(N - 1)
      PROVE  /\ i # h => (~Stops(s, i) \/ (t = h + 1 /\ i > h))
             /\ i = h => Stops(s, i)
  <2>1. /\ i \in 0..(N - 1) /\ i - 1 \in 0..(N - 1)
        /\ s[i].seq = IF i < h THEN t - h + i
                      ELSE IF t = h + 1 THEN 0 ELSE t - h - N + i
        /\ s[i - 1].seq = IF i - 1 < h THEN t - h + (i - 1)
                          ELSE IF t = h + 1 THEN 0 ELSE t - h - N + (i - 1)
    <3>1. i \in 0..(N - 1) /\ i - 1 \in 0..(N - 1)
      BY <1>2
    <3>2. QED BY <1>2, <3>1
  <2>2. QED BY <1>2, <2>1 DEF Stops
<1>4. end = IF h = 0 THEN N ELSE h
  <2>1. CASE h = 0
    <3>1. stops = {}
      BY <1>2, <1>3, <2>1
    <3>2. QED BY <2>1, <3>1
  <2>2. CASE h # 0
    <3>1. h \in stops
      BY <1>2, <1>3, <2>2
    <3>2. ASSUME NEW y \in stops PROVE h <= y
      BY <1>2, <1>3
    <3>3. stops \in SUBSET Int
      BY <1>2
    <3>4. Min(stops) = h
      BY <3>1, <3>2, <3>3, MinIs
    <3>5. QED BY <2>2, <3>1, <3>4
  <2>3. QED BY <2>1, <2>2
<1> HIDE DEF end, stops
<1>5. ASSUME NEW j \in 1..(end - 1) PROVE Consecutive(s, j)
  <2>1. j \in 0..(N - 1) /\ j - 1 \in 0..(N - 1) /\ (h # 0 => j < h)
    BY <1>2, <1>4
  <2>2. /\ s[j].seq = IF j < h THEN t - h + j
                      ELSE IF t = h + 1 THEN 0 ELSE t - h - N + j
        /\ s[j - 1].seq = IF j - 1 < h THEN t - h + (j - 1)
                          ELSE IF t = h + 1 THEN 0 ELSE t - h - N + (j - 1)
    BY <1>2, <2>1
  <2>3. QED BY <1>2, <2>1, <2>2 DEF Consecutive
<1>6. end < N => SaneFrom(s, end)
  <2> SUFFICES ASSUME end < N, NEW j \in (end + 1)..(N - 1)
               PROVE  IF s[end].seq = 0 THEN s[j].seq = 0 ELSE Consecutive(s, j)
    BY DEF SaneFrom
  <2>1. end = h /\ h # 0
    BY <1>2, <1>4
  <2>2. h \in 0..(N - 1) /\ j \in 0..(N - 1) /\ j - 1 \in 0..(N - 1) /\ j > h
    BY <1>2, <2>1
  <2>3. /\ s[h].seq = IF t = h + 1 THEN 0 ELSE t - N
        /\ s[j].seq = IF t = h + 1 THEN 0 ELSE t - h - N + j
        /\ s[j - 1].seq = IF t = h + 1 THEN 0 ELSE t - h - N + (j - 1)
    BY <1>2, <2>2
  <2>4. QED BY <1>2, <2>1, <2>2, <2>3 DEF Consecutive
<1>7. sane
  BY <1>5, <1>6
<1>8. QED BY <1>1, <1>2, <1>4, <1>7 DEF Tip

\* The sector before h holds the highest number.
LEMMA NewestIs ==
  ASSUME NEW h \in Index, NEW t \in Nat, t > 1, Ring(sec, h, t)
  PROVE  Newest = Tip(h) /\ Tip(h) \in Index /\ sec[Tip(h)].seq = t - 1
<1>1. /\ h \in Int /\ N \in Nat /\ N > 1 /\ 0 <= h /\ h < N
      /\ \A i \in 0..(N - 1) :
           sec[i].seq = IF i < h THEN t - h + i
                        ELSE IF t = h + 1 THEN 0 ELSE t - h - N + i
      /\ t = h + 1 \/ t > N
  BY RingSeq
<1>2. Tip(h) \in 0..(N - 1)
  BY <1>1 DEF Tip
<1>3. sec[Tip(h)].seq = t - 1
  BY <1>1, <1>2 DEF Tip
<1>4. ASSUME NEW i \in Index, i # Tip(h)
      PROVE  sec[i].seq \in Int /\ sec[i].seq < t - 1
  BY <1>1, <1>4 DEF Index, Tip
<1>5. \A j \in Index : sec[j].seq <= sec[Tip(h)].seq
  BY <1>2, <1>3, <1>4 DEF Index
<1>6. ASSUME NEW i \in Index, \A j \in Index : sec[j].seq <= sec[i].seq
      PROVE  i = Tip(h)
  BY <1>2, <1>3, <1>4, <1>6 DEF Index
<1>7. QED BY <1>2, <1>3, <1>5, <1>6 DEF Newest, Index

-----------------------------------------------------------------------------
(***************************************************************************)
(* The inductive invariant.                                                *)
(***************************************************************************)
\* Types, and the room that a group has in its transaction and in the sequence.
Types ==
  /\ sec \in [Index -> Sectors]
  /\ isec \in Index /\ seq \in 1..(MaxSeq + 1) /\ open \in 0..MaxRecords
  /\ group \in [size : 0..MaxGroup, done : 0..MaxGroup]
  /\ group.done <= group.size
  /\ open + (group.size - group.done) <= MaxRecords /\ seq + group.size <= MaxSeq + 1
  /\ mode \in {"make", "up", "down", "replay", "failed"}
  /\ entry \in BOOLEAN /\ made \in BOOLEAN

\* What goes with the mode: RAM is reset when the volume is down or its log file
\* is being made, a group is under way only when it is up, and a log file that
\* was made is never made again.
Modes ==
  /\ mode \in {"make", "down"} => isec = 0 /\ seq = 1
  /\ mode # "up" => group = NoGroup
  /\ mode = "make" => ~made /\ open = 0
  /\ ~entry => mode \in {"make", "down"} /\ ~made /\ open = 0

\* The ring on the device, and the position in RAM.
RingAt(h, t) ==
  /\ Ring(sec, h, t) /\ Chain(sec, h, open)
  /\ mode \in {"up", "replay"} =>
       h = NextSector(isec, group.done) /\ t = seq + group.done
RingInv ==
  made => mode # "failed" /\ \E h \in Index, t \in Nat \ {0} : RingAt(h, t)

Inv == Types /\ Modes /\ RingInv

LEMMA Limits ==
  /\ N \in Nat /\ N > 1 /\ MaxRecords \in Nat /\ MaxRecords < N /\ 0 \in Index
  /\ MaxGroup \in Nat /\ MaxGroup <= MaxRecords /\ MaxSeq \in Nat
BY RingAssumption DEF Index

\* A primed sum with zero, stated once for the provers.
LEMMA PlusZero ==
  ASSUME NEW a \in Int
  PROVE  a + 0 = a
OBVIOUS

LEMMA NextZero ==
  ASSUME NEW i \in Index
  PROVE  NextSector(i, 0) = i
BY RingAssumption DEF NextSector, Index

\* Going on by n sectors and one more.
LEMMA NextStep ==
  ASSUME NEW i \in Index, NEW n \in 0..(N - 1)
  PROVE  /\ NextSector(i, n) \in Index
         /\ NextSector(NextSector(i, n), 1) = NextSector(i, n + 1)
BY RingAssumption DEF NextSector, Index

LEMMA InvInit == Init => Inv
<1> SUFFICES ASSUME Init PROVE Inv OBVIOUS
<1>1. Types
  <2>1. sec \in [Index -> Sectors]
    BY DEF Init, Sectors
  <2>2. /\ group \in [size : 0..MaxGroup, done : 0..MaxGroup]
        /\ group.size = 0 /\ group.done = 0
    BY Limits DEF Init, NoGroup
  <2>3. isec \in Index /\ seq \in 1..(MaxSeq + 1) /\ open \in 0..MaxRecords
    BY Limits DEF Init
  <2>4. /\ group.done <= group.size
        /\ open + (group.size - group.done) <= MaxRecords
        /\ seq + group.size <= MaxSeq + 1
    BY <2>2, Limits DEF Init
  <2>5. QED BY <2>1, <2>2, <2>3, <2>4 DEF Init, Types
<1>2. Modes /\ RingInv
  BY DEF Init, Modes, RingInv
<1>3. QED BY <1>1, <1>2 DEF Inv

\* One sector is written at the position in RAM.
LEMMA WriteStep ==
  ASSUME Inv, mode \in {"up", "replay"}, NEW kind \in {"record", "mark"},
         seq + group.done <= MaxSeq,
         sec' = Put(sec, NextSector(isec, group.done), seq + group.done, kind),
         open' = IF kind = "mark" THEN 0 ELSE open + 1,
         kind = "record" => open < MaxRecords
  PROVE  /\ sec' \in [Index -> Sectors] /\ open' \in 0..MaxRecords
         /\ NextSector(isec, group.done + 1) \in Index
         /\ made => /\ Ring(sec', NextSector(isec, group.done + 1), seq + group.done + 1)
                    /\ Chain(sec', NextSector(isec, group.done + 1), open')
<1> DEFINE i == NextSector(isec, group.done)
           n == seq + group.done
<1>1. group.done \in 0..(N - 1) /\ n \in 1..MaxSeq /\ open \in Nat
  BY Limits DEF Inv, Types
<1>2. i \in Index /\ NextSector(i, 1) = NextSector(isec, group.done + 1)
  BY <1>1, NextStep DEF Inv, Types
<1>3. sec \in [Index -> Sectors] /\ sec' = Put(sec, i, n, kind)
  BY DEF Inv, Types
<1> HIDE DEF i, n
<1>4. sec' \in [Index -> Sectors]
  <2>1. [seq |-> n, kind |-> kind] \in Sectors
    BY <1>1 DEF Sectors
  <2>2. QED BY <1>2, <1>3, <2>1 DEF Put
<1>5. open' \in 0..MaxRecords
  BY <1>1, Limits
<1>6. ASSUME made
      PROVE  /\ Ring(sec', NextSector(i, 1), n + 1)
             /\ Chain(sec', NextSector(i, 1), open')
  <2>1. Ring(sec, i, n) /\ Chain(sec, i, open)
    BY <1>6 DEF Inv, RingInv, RingAt, i, n
  <2>2. Ring(sec', NextSector(i, 1), n + 1)
    <3>1. n \in Nat \ {0}
      BY <1>1, Limits
    <3>2. QED BY <1>2, <1>3, <2>1, <3>1, RingWrite
  <2>3. CASE kind = "record"
    <3>1. open \in 0..(N - 2) /\ open' = open + 1
      BY <1>1, <2>3, Limits
    <3>2. Chain(sec', NextSector(i, 1), open + 1)
      BY <1>2, <1>3, <2>1, <2>3, <3>1, ChainRecord
    <3>3. QED BY <2>2, <3>1, <3>2
  <2>4. CASE kind = "mark"
    <3>1. open' = 0
      BY <2>4
    <3>2. Chain(sec', NextSector(i, 1), 0)
      BY <1>2, <1>3, <2>4, ChainMark
    <3>3. QED BY <2>2, <3>1, <3>2
  <2>5. QED BY <2>3, <2>4
<1>7. NextSector(i, 1) \in Index
  BY <1>2, NextIs
<1>8. QED BY <1>2, <1>4, <1>5, <1>6, <1>7 DEF n

\* What the next state has to show for the ring.
LEMMA RingNext ==
  ASSUME NEW h \in Index, NEW t \in Nat \ {0}, Ring(sec', h, t), Chain(sec', h, open'),
         mode' \in {"up", "replay"} =>
           h = NextSector(isec', group'.done) /\ t = seq' + group'.done,
         mode' # "failed"
  PROVE  RingInv'
<1>1. RingAt(h, t)'
  BY DEF RingAt, Ring, Chain
<1>2. QED BY <1>1 DEF RingInv

LEMMA InvRecord ==
  ASSUME Inv, Record \/ MarkEnd
  PROVE  Inv'
<1>1. PICK kind \in {"record", "mark"} :
         /\ sec' = Put(sec, isec, seq, kind)
         /\ open' = IF kind = "mark" THEN 0 ELSE open + 1
         /\ kind = "record" => open < MaxRecords
  BY DEF Record, MarkEnd, Put
<1>2. /\ mode \in {"up", "replay"} /\ group = NoGroup /\ seq <= MaxSeq
      /\ isec' = NextSector(isec, 1) /\ seq' = seq + 1 /\ mode' = "up"
      /\ UNCHANGED <<group, entry, made>>
  BY DEF Record, MarkEnd, file
<1>3. group.done = 0 /\ group.size = 0 /\ isec \in Index /\ seq \in 1..(MaxSeq + 1)
  BY <1>2 DEF NoGroup, Inv, Types
<1>4. NextSector(isec, group.done) = isec /\ seq + group.done = seq
  BY <1>3, NextZero
<1>5. /\ sec' \in [Index -> Sectors] /\ open' \in 0..MaxRecords
      /\ made => /\ Ring(sec', NextSector(isec, group.done + 1), seq + group.done + 1)
                 /\ Chain(sec', NextSector(isec, group.done + 1), open')
  BY <1>1, <1>2, <1>4, WriteStep
<1>6. isec' \in Index /\ NextSector(isec', group'.done) = isec' /\ seq' \in 1..(MaxSeq + 1)
  BY <1>2, <1>3, NextIs, NextZero, Limits
<1>7. Types'
  <2>1. group'.done = 0 /\ group'.size = 0
    BY <1>2, <1>3
  <2>2. open' \in 0..MaxRecords /\ seq' \in 1..(MaxSeq + 1)
    BY <1>5, <1>6
  <2>3. open' \in Int /\ seq' \in Int /\ open' <= MaxRecords /\ seq' <= MaxSeq + 1
    BY <2>2, Limits
  <2>4. /\ open' + (group'.size - group'.done) <= MaxRecords
        /\ seq' + group'.size <= MaxSeq + 1 /\ group'.done <= group'.size
    BY <2>1, <2>3
  <2>5. QED BY <1>2, <1>5, <1>6, <2>4 DEF Types, Inv
<1>8. Modes'
  BY <1>2 DEF Modes, Inv
<1>9. RingInv'
  <2> SUFFICES ASSUME made PROVE RingInv'
    BY <1>2 DEF RingInv
  <2>1. group.done + 1 = 1 /\ seq + group.done + 1 = seq' /\ seq' + group'.done = seq'
    BY <1>2, <1>3, <1>6
  <2>2. Ring(sec', isec', seq') /\ Chain(sec', isec', open')
    BY <1>2, <1>5, <2>1
  <2>3. seq' \in Nat \ {0} /\ mode' # "failed"
    BY <1>2, <1>6, Limits
  <2>4. QED BY <1>6, <2>1, <2>2, <2>3, RingNext
<1>10. QED BY <1>7, <1>8, <1>9 DEF Inv

LEMMA InvGroup ==
  ASSUME Inv, (\E n \in 1..MaxGroup : GroupStart(n)) \/ GroupWrite \/ GroupEnd
  PROVE  Inv'
<1> USE DEF Inv
<1>1. ASSUME NEW n \in 1..MaxGroup, GroupStart(n) PROVE Inv'
  <2>1. /\ mode = "up" /\ group.done = 0 /\ group'.done = 0 /\ group'.size = n
        /\ group' \in [size : 0..MaxGroup, done : 0..MaxGroup]
        /\ open + n <= MaxRecords /\ seq + n <= MaxSeq + 1
        /\ UNCHANGED <<sec, isec, seq, mode, open, entry, made>>
    BY <1>1, Limits DEF GroupStart, NoGroup, file
  <2>2. group'.done <= group'.size /\ open' + (group'.size - group'.done) <= MaxRecords
    BY <2>1, Limits DEF Types
  <2>3. Types'
    BY <2>1, <2>2 DEF Types
  <2>4. Modes'
    BY <2>1 DEF Modes
  <2>5. RingInv'
    BY <2>1 DEF RingInv, RingAt
  <2>6. QED BY <2>3, <2>4, <2>5
<1>2. CASE GroupWrite
  <2>1. /\ group.done < group.size /\ group' = [group EXCEPT !.done = group.done + 1]
        /\ sec' = Put(sec, NextSector(isec, group.done), seq + group.done, "record")
        /\ open' = open + 1 /\ UNCHANGED <<isec, seq, mode, entry, made>>
    BY <1>2 DEF GroupWrite, Put, file
  <2>2. mode = "up"
    BY <2>1 DEF Modes, NoGroup
  <2>3. /\ group'.done = group.done + 1 /\ group'.size = group.size
        /\ group' \in [size : 0..MaxGroup, done : 0..MaxGroup]
        /\ group.done \in Nat /\ group.size \in Nat /\ seq \in Nat \ {0}
        /\ seq + group.done <= MaxSeq /\ open < MaxRecords
    BY <2>1, Limits DEF Types
  <2>4. /\ sec' \in [Index -> Sectors] /\ open' \in 0..MaxRecords
        /\ NextSector(isec, group.done + 1) \in Index
        /\ made => /\ Ring(sec', NextSector(isec, group.done + 1), seq + group.done + 1)
                   /\ Chain(sec', NextSector(isec, group.done + 1), open')
    BY <2>1, <2>2, <2>3, WriteStep
  <2>5. Types'
    <3>1. /\ open' + (group'.size - group'.done) <= MaxRecords
          /\ seq' + group'.size <= MaxSeq + 1 /\ group'.done <= group'.size
      BY <2>1, <2>3, <2>4, Limits DEF Types
    <3>2. QED BY <2>1, <2>3, <2>4, <3>1 DEF Types
  <2>6. Modes'
    BY <2>1, <2>2 DEF Modes
  <2>7. RingInv'
    <3> SUFFICES ASSUME made PROVE RingInv'
      BY <2>1 DEF RingInv
    <3>1. /\ NextSector(isec, group.done + 1) = NextSector(isec', group'.done)
          /\ seq + group.done + 1 = seq' + group'.done
          /\ seq + group.done + 1 \in Nat \ {0} /\ mode' # "failed"
      BY <2>1, <2>2, <2>3
    <3>2. QED BY <2>4, <3>1, RingNext
  <2>8. QED BY <2>5, <2>6, <2>7
<1>3. CASE GroupEnd
  <2>1. /\ group # NoGroup /\ group.done = group.size /\ group' = NoGroup
        /\ isec' = NextSector(isec, group.size) /\ seq' = seq + group.size
        /\ UNCHANGED <<sec, mode, open, entry, made>>
    BY <1>3 DEF GroupEnd, file
  <2>2. /\ group'.done = 0 /\ group'.size = 0 /\ mode = "up"
        /\ group' \in [size : 0..MaxGroup, done : 0..MaxGroup]
    BY <2>1, Limits DEF NoGroup, Modes
  <2>3. group.size \in 0..N /\ seq' \in 1..(MaxSeq + 1)
    BY <2>1, Limits DEF Types
  <2>4. isec' \in Index /\ NextSector(isec', group'.done) = isec' /\ seq' + group'.done = seq'
    BY <2>1, <2>2, <2>3, NextSectorIs, NextZero DEF Types
  <2>5. Types'
    <3>1. /\ open' + (group'.size - group'.done) <= MaxRecords
          /\ seq' + group'.size <= MaxSeq + 1 /\ group'.done <= group'.size
      BY <2>1, <2>2, <2>3, Limits DEF Types
    <3>2. QED BY <2>1, <2>2, <2>3, <2>4, <3>1 DEF Types
  <2>6. Modes'
    BY <2>1, <2>2 DEF Modes
  <2>7. RingInv'
    <3> SUFFICES ASSUME made PROVE RingInv'
      BY <2>1 DEF RingInv
    <3>1. Ring(sec', isec', seq') /\ Chain(sec', isec', open')
      BY <2>1, <2>2 DEF RingInv, RingAt
    <3>2. seq' \in Nat \ {0} /\ mode' # "failed"
      BY <2>1, <2>2, <2>3, Limits
    <3>3. QED BY <2>4, <3>1, <3>2, RingNext
  <2>8. QED BY <2>5, <2>6, <2>7
<1>4. QED BY <1>1, <1>2, <1>3

\* Making the log file: the ring starts empty.
LEMMA InvMake ==
  ASSUME Inv, WriteEntry \/ (\E i \in Index : ClearSector(i)) \/ Made \/ MountMakes
  PROVE  Inv'
<1> USE DEF Inv
<1>1. CASE WriteEntry
  <2>1. mode = "make" /\ entry' = TRUE /\ UNCHANGED <<sec, isec, seq, group, mode, made, open>>
    BY <1>1 DEF WriteEntry
  <2>2. QED BY <2>1 DEF Types, Modes, RingInv
<1>2. ASSUME NEW i \in Index, ClearSector(i) PROVE Inv'
  <2>1. /\ mode = "make" /\ sec' = [sec EXCEPT ![i] = None]
        /\ UNCHANGED <<isec, seq, group, mode, entry, made, open>>
    BY <1>2 DEF ClearSector, file
  <2>2. sec' \in [Index -> Sectors]
    BY <2>1 DEF Types, Sectors
  <2>3. QED BY <2>1, <2>2 DEF Types, Modes, RingInv
<1>3. CASE Made
  <2>1. /\ mode = "make" /\ entry /\ (\A i \in Index : sec[i] = None)
        /\ mode' = "up" /\ made' = TRUE
        /\ UNCHANGED <<sec, isec, seq, group, entry, open>>
    BY <1>3 DEF Made
  <2>2. isec' = 0 /\ seq' = 1 /\ group' = NoGroup /\ group'.done = 0 /\ open' = 0
    BY <2>1 DEF Modes, NoGroup
  <2>3. Types' /\ Modes'
    BY <2>1, <2>2 DEF Types, Modes
  <2>4. Ring(sec', 0, 1)
    BY <2>1, Limits DEF Ring, SectorIs, Index
  <2>5. Chain(sec', 0, 0)
    <3>1. Back(0, 0 + 1) \in Index
      BY Limits DEF Back, Index
    <3>2. QED BY <2>1, <3>1 DEF Chain, None
  <2>6. NextSector(isec', group'.done) = 0 /\ seq' + group'.done = 1
    BY <2>2, Limits, NextZero
  <2>7. RingInv'
    BY <2>1, <2>2, <2>4, <2>5, <2>6, Limits, RingNext
  <2>8. QED BY <2>3, <2>7
<1>4. CASE MountMakes
  <2>1. /\ mode = "down" /\ ~entry /\ mode' = "make"
        /\ UNCHANGED <<sec, isec, seq, group, open, entry, made>>
    BY <1>4 DEF MountMakes, file
  <2>2. QED BY <2>1 DEF Types, Modes, RingInv
<1>5. QED BY <1>1, <1>2, <1>3, <1>4

\* The power goes off, also in a group or a replay: the ring is what it was.
LEMMA InvPowerOff ==
  ASSUME Inv, PowerOff
  PROVE  Inv'
<1> USE DEF Inv
<1>1. /\ mode \in {"make", "up", "replay"} /\ mode' = "down" /\ group' = NoGroup
      /\ isec' = 0 /\ seq' = 1 /\ UNCHANGED <<sec, open, entry, made>>
  BY DEF PowerOff, file
<1>2. Types'
  <2>1. /\ group'.done = 0 /\ group'.size = 0
        /\ group' \in [size : 0..MaxGroup, done : 0..MaxGroup]
    BY <1>1, Limits DEF NoGroup
  <2>2. /\ open' + (group'.size - group'.done) <= MaxRecords
        /\ seq' + group'.size <= MaxSeq + 1 /\ group'.done <= group'.size
        /\ isec' \in Index /\ seq' \in 1..(MaxSeq + 1)
    BY <1>1, <2>1, Limits DEF Types
  <2>3. QED BY <1>1, <2>1, <2>2 DEF Types
<1>3. Modes'
  BY <1>1 DEF Modes
<1>4. RingInv'
  BY <1>1 DEF RingInv, RingAt
<1>5. QED BY <1>2, <1>3, <1>4

\* A ring at t = 1 is empty, and no other is.
LEMMA EmptyIs ==
  ASSUME NEW s, NEW h \in Index, NEW t \in Nat \ {0}, Ring(s, h, t)
  PROVE  Empty(s) <=> t = 1
<1>1. CASE t = 1
  <2>1. h = 0
    BY <1>1, Limits DEF Ring, Index
  <2>2. SectorIs(s[0], 0, h, t)
    BY Limits DEF Ring
  <2>3. QED BY <1>1, <2>1, <2>2, Limits DEF SectorIs, Empty
<1>2. CASE t # 1
  <2>1. s[0].seq # 0
    BY <1>2, RingSeq, Limits
  <2>2. QED BY <1>2, <2>1 DEF Empty, None
<1>3. QED BY <1>1, <1>2

\* A mount of a log file that was made takes up the ring where it is.
LEMMA InvMount ==
  ASSUME Inv, MountEmpty \/ MountFound \/ MountFails
  PROVE  Inv'
<1> USE DEF Inv
<1>1. mode = "down" /\ entry /\ UNCHANGED <<sec, group, open, entry, made>>
  BY DEF MountEmpty, MountFound, MountFails, file
<1>2. /\ isec = 0 /\ seq = 1 /\ group' = NoGroup /\ group = NoGroup
      /\ group'.done = 0 /\ group'.size = 0
  BY <1>1 DEF Modes, NoGroup
<1>3. /\ mode' \in {"up", "replay", "failed"}
      /\ mode' = "failed" <=> MountFails
  BY <1>1 DEF MountEmpty, MountFound, MountFails
<1>4. Modes'
  BY <1>1, <1>2, <1>3 DEF Modes
<1>5. isec' \in Index /\ seq' \in 1..(MaxSeq + 1)
  <2>1. CASE MountFound
    <3>1. SearchMax(sec) \in Index /\ sec[SearchMax(sec)] # Junk
      BY <2>1 DEF MountFound, Found
    <3>2. sec[SearchMax(sec)].seq \in 0..MaxSeq
      BY <3>1, Limits DEF Types, Sectors, None
    <3>3. /\ isec' = NextSector(SearchMax(sec), 1)
          /\ seq' = sec[SearchMax(sec)].seq + 1
      BY <2>1 DEF MountFound, SeqAfter
    <3>4. QED BY <3>1, <3>2, <3>3, NextIs, Limits
  <2>2. CASE MountEmpty \/ MountFails
    BY <1>2, <2>2, Limits DEF MountEmpty, MountFails
  <2>3. QED BY <2>1, <2>2
<1>6. Types'
  <2>1. open' \in 0..MaxRecords /\ seq' \in 1..(MaxSeq + 1)
    BY <1>1, <1>5 DEF Types
  <2>2. open' \in Int /\ seq' \in Int /\ open' <= MaxRecords /\ seq' <= MaxSeq + 1
    BY <2>1, Limits
  <2>3. /\ open' + (group'.size - group'.done) <= MaxRecords
        /\ seq' + group'.size <= MaxSeq + 1 /\ group'.done <= group'.size
    BY <1>2, <2>2
  <2>4. QED BY <1>1, <1>3, <1>5, <2>3 DEF Types
<1>7. RingInv'
  <2> SUFFICES ASSUME made PROVE RingInv'
    BY <1>1 DEF RingInv
  <2>1. PICK h \in Index, t \in Nat \ {0} : Ring(sec, h, t) /\ Chain(sec, h, open)
    BY DEF RingInv, RingAt
  <2>2. NextSector(isec', group'.done) = isec' /\ seq' + group'.done = seq'
    <3>1. seq' \in Int
      BY <1>5, Limits
    <3>2. NextSector(isec', group'.done) = isec'
      BY <1>2, <1>5, NextZero
    <3>3. group'.done = 0
      BY <1>2
    <3>4. seq' + 0 = seq'
      BY <3>1, PlusZero
    <3>5. seq' + group'.done = seq'
      BY <3>3, <3>4, Zenon
    <3>6. QED BY <3>2, <3>5
  <2>3. CASE Empty(sec)
    <3>1. t = 1 /\ h = 0
      BY <2>1, <2>3, EmptyIs, Limits DEF Ring, Index
    <3>2. isec' = 0 /\ seq' = 1 /\ mode' # "failed"
      BY <1>2, <1>3, <2>3 DEF MountEmpty, MountFound, MountFails
    <3>3. QED BY <1>1, <2>1, <2>2, <3>1, <3>2, RingNext
  <2>4. CASE ~Empty(sec)
    <3>1. t > 1
      BY <2>1, <2>4, EmptyIs
    <3>2. SearchMax(sec) = Tip(h) /\ Tip(h) \in Index /\ sec[Tip(h)].seq = t - 1
      BY <2>1, <3>1, SearchFinds, NewestIs
    <3>3. Found(sec)
      <4>1. SectorIs(sec[Tip(h)], Tip(h), h, t)
        BY <2>1, <3>2 DEF Ring
      <4>2. sec[Tip(h)] # None
        BY <3>1, <3>2 DEF None
      <4>3. sec[Tip(h)] # Junk
        BY <4>1, <4>2 DEF SectorIs, Written, Junk
      <4>4. QED BY <3>2, <4>3 DEF Found
    <3>4. MountFound
      BY <2>4, <3>3 DEF MountEmpty, MountFails
    <3>5. isec' = NextSector(Tip(h), 1) /\ seq' = t - 1 + 1 /\ mode' # "failed"
      BY <1>3, <3>2, <3>4 DEF MountFound, SeqAfter
    <3>6. NextSector(Tip(h), 1) = h
      BY <3>2, NextIs DEF Tip, Index
    <3>7. isec' = h /\ seq' = t
      BY <3>5, <3>6
    <3>8. QED BY <1>1, <2>1, <2>2, <3>5, <3>7, RingNext
  <2>5. QED BY <2>3, <2>4
<1>8. QED BY <1>4, <1>6, <1>7

LEMMA InvAlways == Spec => []Inv
<1>1. Inv /\ [Next]_vars => Inv'
  <2> SUFFICES ASSUME Inv, [Next]_vars PROVE Inv' OBVIOUS
  <2>1. CASE UNCHANGED vars
    BY <2>1 DEF vars, Inv, Types, Modes, RingInv, RingAt
  <2>2. QED BY <2>1, InvRecord, InvGroup, InvMake, InvPowerOff, InvMount DEF Next
<1>2. QED BY InvInit, <1>1, PTL DEF Spec

-----------------------------------------------------------------------------
(***************************************************************************)
(* The properties.                                                         *)
(***************************************************************************)
\* The variables keep their types, and no mount of a log file that was made
\* gives up: __log_open and __sequential_search_max never return -EIO on it,
\* whichever write the last crash cut short.
THEOREM TypeCorrect == Spec => []TypeOK
<1>1. Inv => TypeOK
  <2> SUFFICES ASSUME Inv PROVE TypeOK OBVIOUS
  <2> USE DEF Inv
  <2>1. ASSUME NEW x \in Sectors
        PROVE  x \in [seq : 0..(MaxSeq + 3), kind : {"none", "record", "mark", "junk"}]
    BY Limits DEF Sectors, None, Junk
  <2>2. sec \in [Index -> [seq : 0..(MaxSeq + 3), kind : {"none", "record", "mark", "junk"}]]
    BY <2>1 DEF Types
  <2>3. seq \in 1..(MaxSeq + 3)
    BY Limits DEF Types
  <2>4. mode \in {"make", "up", "down", "replay"} \cup IF made THEN {} ELSE {"failed"}
    BY DEF Types, RingInv
  <2>5. QED BY <2>2, <2>3, <2>4 DEF Types, TypeOK
<1>2. QED BY <1>1, InvAlways, PTL

\* The binary decision of log_replay.c, the first place where the sequence
\* breaks, is right at any moment: in the first lap, at the wrap, and with a
\* group cut short by a crash.
THEOREM SearchCorrect == Spec => []SearchFindsNewest
<1>1. Inv => SearchFindsNewest
  <2> SUFFICES ASSUME Inv, made, ~Empty(sec) PROVE SearchMax(sec) = Newest
    BY DEF SearchFindsNewest
  <2>1. PICK h \in Index, t \in Nat \ {0} : Ring(sec, h, t)
    BY DEF Inv, RingInv, RingAt
  <2>2. t > 1
    BY <2>1, EmptyIs
  <2>3. QED BY <2>1, <2>2, SearchFinds, NewestIs
<1>2. QED BY <1>1, InvAlways, PTL

\* Walking back from the newest record, the undo of log_replay.c:1049 meets all
\* records of the transaction that was open and stops before any other.
THEOREM WalkCorrect == Spec => []WalkReturnsOpen
<1> DEFINE walked(k) == sec[(Newest + N - k) % N].kind = "record"
<1>1. Inv => WalkReturnsOpen
  <2> SUFFICES ASSUME Inv, made
               PROVE  (\A k \in 0..(open - 1) : walked(k)) /\ ~walked(open)
    BY DEF WalkReturnsOpen
  <2>1. PICK h \in Index, t \in Nat \ {0} : Ring(sec, h, t) /\ Chain(sec, h, open)
    BY DEF Inv, RingInv, RingAt
  <2>2. open \in 0..(N - 1)
    BY Limits DEF Inv, Types
  <2>3. CASE t > 1
    <3>1. Newest = Tip(h) /\ Tip(h) \in Index
      BY <2>1, <2>3, NewestIs
    <3>2. NextSector(Tip(h), 1) = h
      BY <3>1, NextIs DEF Tip, Index
    <3>3. ASSUME NEW k \in 0..(N - 1)
          PROVE  (Newest + N - k) % N = Back(h, k + 1)
      BY <3>1, <3>2, BackIs
    <3>4. ASSUME NEW k \in 0..(open - 1) PROVE walked(k)
      <4>1. k \in 0..(N - 1) /\ k + 1 \in 1..open
        BY <2>2, <3>4, Limits
      <4>2. QED BY <2>1, <3>3, <4>1 DEF Chain
    <3>5. ~walked(open)
      BY <2>1, <2>2, <3>3 DEF Chain
    <3>6. QED BY <3>4, <3>5
  <2>4. CASE t = 1
    <3>1. h = 0
      BY <2>1, <2>4, Limits DEF Ring, Index
    <3>2. ASSUME NEW i \in Index PROVE sec[i] = None
      <4>1. SectorIs(sec[i], i, h, t)
        BY <2>1 DEF Ring
      <4>2. QED BY <2>4, <3>1, <4>1, Limits DEF SectorIs, Index
    <3>3. Newest \in Index
      BY <3>2, Limits DEF Newest, None
    <3>4. ASSUME NEW k \in 0..(N - 1) PROVE ~walked(k)
      <4>1. (Newest + N - k) % N \in Index
        BY <3>3, Limits DEF Index
      <4>2. QED BY <3>2, <4>1 DEF None
    <3>5. open = 0
      <4>1. ASSUME open # 0 PROVE FALSE
        <5>1. 1 \in 1..open /\ Back(h, 1) \in Index
          BY <2>2, <3>1, <4>1, Limits DEF Back, Index
        <5>2. sec[Back(h, 1)].kind = "record"
          BY <2>1, <5>1 DEF Chain
        <5>3. QED BY <3>2, <5>1, <5>2 DEF None
      <4>2. QED BY <4>1
    <3>6. QED BY <2>2, <3>4, <3>5
  <2>5. QED BY <2>3, <2>4
<1>2. QED BY <1>1, InvAlways, PTL

\* After any number of crashes and mounts the next record goes behind the newest
\* one, with the next number: no record of an open transaction is overwritten
\* and the sequence never breaks.
THEOREM PositionCorrect == Spec => []PositionFollows
<1>1. Inv => PositionFollows
  <2> SUFFICES ASSUME Inv, made, mode \in {"up", "replay"}, group = NoGroup, ~Empty(sec)
               PROVE  isec = (Newest + 1) % N /\ seq = sec[Newest].seq + 1
    BY DEF PositionFollows
  <2>1. PICK h \in Index, t \in Nat \ {0} :
          /\ Ring(sec, h, t)
          /\ h = NextSector(isec, group.done) /\ t = seq + group.done
    BY DEF Inv, RingInv, RingAt
  <2>2. group.done = 0 /\ isec \in Index /\ seq \in 1..(MaxSeq + 1)
    BY DEF Inv, Types, NoGroup
  <2>3. h = isec /\ t = seq
    BY <2>1, <2>2, NextZero
  <2>4. t > 1
    BY <2>1, EmptyIs
  <2>5. Newest = Tip(h) /\ Tip(h) \in Index /\ sec[Tip(h)].seq = t - 1
    BY <2>1, <2>4, NewestIs
  <2>6. NextSector(Tip(h), 1) = h
    BY <2>5, NextIs DEF Tip, Index
  <2>7. QED BY <2>2, <2>3, <2>5, <2>6 DEF NextSector
<1>2. QED BY <1>1, InvAlways, PTL
=============================================================================
