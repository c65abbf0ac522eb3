----------------------- MODULE StlBufferSecuredProofs -----------------------
(***************************************************************************)
(* What was secured is never read back older: the invariant SecuredSurvives *)
(* of StlBuffer, for every number and size of groups, pages and buffer     *)
(* blocks, any number of writes and power losses, and every set of         *)
(* requests none of which ends in the middle of a page that is deleted.    *)
(* And under the same hypothesis nothing that reads return between calls   *)
(* depends on the RAM: the invariant AtRestDurable.                        *)
(***************************************************************************)
EXTENDS StlBufferProofs

\* A write leaves no half page of a page that FSR_STL_Delete may be called for
\* in the buffer block.  A delete drops neither the buffered copy of its page
\* in RAM nor the one on flash, and the invariant Kept below does not survive
\* that; whether SecuredSurvives does is open: TLC has not seen it violated.
DeletesUnbuffered ==
    \A r \in Requests, l \in Deletable :
        r[1] + r[2] \notin l * SecPerVPg + 1 .. l * SecPerVPg + SecPerVPg - 1
-----------------------------------------------------------------------------
(***************************************************************************)
(* One logical page l in the log ps of its group: the pages behind the     *)
(* first n are not in the stored map, which has m for l.  x is what a      *)
(* sector s has somewhere else.                                            *)
(***************************************************************************)
Logged(ps, n, l) == {i \in n + 1 .. Len(ps) : ps[i].lpn = l}

\* A scan takes a page over when this page or a later one is confirmed.
Marked(ps, i) == \E j \in i .. Len(ps) : ps[j].confirm

\* x is no newer than what an open finds, than what is on flash at all.
Held(ps, n, m, l, s, x) ==
    x <= m[s] \/ \E i \in Logged(ps, n, l) : x <= ps[i].data[s] /\ Marked(ps, i)
Traces(ps, n, m, l, s, x) ==
    x <= m[s] \/ \E i \in Logged(ps, n, l) : x <= ps[i].data[s]

\* x is as new as everything on flash, as everything an open finds.
Tops(ps, n, m, l, s, x) ==
    m[s] <= x /\ \A i \in Logged(ps, n, l) : ps[i].data[s] <= x
Covers(ps, n, m, l, s, x) ==
    m[s] <= x /\ \A i \in Logged(ps, n, l) : Marked(ps, i) => ps[i].data[s] <= x

\* A later page of the log is newer than an earlier one and the stored map.
Rises(ps, n, m, l, s) ==
    \A i \in Logged(ps, n, l) :
        /\ m[s] <= ps[i].data[s]
        /\ \A j \in Logged(ps, n, l) : i <= j => ps[i].data[s] <= ps[j].data[s]

\* d has a newer sector than each page of the log.
Overtakes(ps, n, l, v, d) ==
    \A i \in Logged(ps, n, l) : \E s \in v : ps[i].data[s] < d[s]

\* The pages of a log and their types.
LEMMA LogPages ==
  ASSUME NEW ps \in Seq(LogPage), NEW n \in Nat, NEW l
  PROVE  /\ Len(ps) \in Nat
         /\ Logged(ps, n, l) \subseteq 1 .. Len(ps)
         /\ \A i \in 1 .. Len(ps) : ps[i] \in LogPage /\ ps[i].data \in Data
                                    /\ \A s \in Secs : ps[i].data[s] \in Nat
<1>1. \A i \in 1 .. Len(ps) : ps[i] \in LogPage
  OBVIOUS
<1>2. \A i \in 1 .. Len(ps) : ps[i].data \in Data
  BY <1>1 DEF LogPage
<1>3. \A i \in 1 .. Len(ps) : \A s \in Secs : ps[i].data[s] \in Nat
  BY <1>2, SizesAssumption DEF Data
<1>4. QED BY <1>1, <1>2, <1>3 DEF Logged

\* A page is added to the log.
LEMMA Appended ==
  ASSUME NEW ps \in Seq(LogPage), NEW p \in LogPage, NEW n \in Nat, NEW l
  PROVE  /\ Append(ps, p) \in Seq(LogPage) /\ Len(Append(ps, p)) = Len(ps) + 1
         /\ \A i \in 1 .. Len(ps) : Append(ps, p)[i] = ps[i]
         /\ Append(ps, p)[Len(ps) + 1] = p
         /\ \A i \in 1 .. Len(ps) : Marked(ps, i) \/ p.confirm => Marked(Append(ps, p), i)
         /\ p.confirm => Marked(Append(ps, p), Len(ps) + 1)
         /\ p.lpn # l => Logged(Append(ps, p), n, l) = Logged(ps, n, l)
         /\ p.lpn = l /\ n <= Len(ps) =>
                Logged(Append(ps, p), n, l) = Logged(ps, n, l) \cup {Len(ps) + 1}
         /\ Logged(ps, n, l) \subseteq Logged(Append(ps, p), n, l)
         /\ Logged(Append(ps, p), n, l) \subseteq Logged(ps, n, l) \cup {Len(ps) + 1}
         /\ Len(ps) + 1 \in Logged(Append(ps, p), n, l) => p.lpn = l
<1> DEFINE qs == Append(ps, p)
<1>1. qs \in Seq(LogPage) /\ Len(qs) = Len(ps) + 1 /\ Len(ps) \in Nat
      /\ (\A i \in 1 .. Len(ps) : qs[i] = ps[i]) /\ qs[Len(ps) + 1] = p
  OBVIOUS
<1> HIDE DEF qs
<1>2. \A i \in 1 .. Len(ps) : Marked(ps, i) \/ p.confirm => Marked(qs, i)
  <2> SUFFICES ASSUME NEW i \in 1 .. Len(ps), Marked(ps, i) \/ p.confirm PROVE Marked(qs, i)
    OBVIOUS
  <2>1. CASE p.confirm
    <3>1. Len(ps) + 1 \in i .. Len(qs)
      BY <1>1
    <3>2. QED BY <1>1, <2>1, <3>1 DEF Marked
  <2>2. CASE Marked(ps, i)
    <3>1. PICK j \in i .. Len(ps) : ps[j].confirm
      BY <2>2 DEF Marked
    <3>2. j \in i .. Len(qs) /\ qs[j] = ps[j]
      BY <1>1
    <3>3. QED BY <3>1, <3>2 DEF Marked
  <2>3. QED BY <2>1, <2>2
<1>3. p.confirm => Marked(qs, Len(ps) + 1)
  BY <1>1 DEF Marked
<1>4. \A i : i \in Logged(qs, n, l) <=>
               i \in Logged(ps, n, l) \/ (i = Len(ps) + 1 /\ n <= Len(ps) /\ p.lpn = l)
  <2> SUFFICES ASSUME NEW i
               PROVE  i \in Logged(qs, n, l) <=>
                        i \in Logged(ps, n, l) \/ (i = Len(ps) + 1 /\ n <= Len(ps) /\ p.lpn = l)
    OBVIOUS
  <2>1. CASE i \in 1 .. Len(ps)
    BY <1>1, <2>1 DEF Logged
  <2>2. CASE i = Len(ps) + 1
    BY <1>1, <2>2 DEF Logged
  <2>3. CASE i \notin 1 .. Len(ps) + 1
    BY <1>1, <2>3 DEF Logged
  <2>4. QED BY <1>1, <2>1, <2>2, <2>3
<1>5. Len(ps) + 1 \notin Logged(ps, n, l)
  BY <1>1 DEF Logged
<1>6. QED BY <1>1, <1>2, <1>3, <1>4, <1>5 DEF qs

\* Whatever is added, what was held stays held; a confirmed page holds itself
\* and everything in front of it.
LEMMA AppendHolds ==
  ASSUME NEW ps \in Seq(LogPage), NEW p \in LogPage, NEW n \in Nat, NEW m \in Data,
         NEW l, NEW s \in Secs, NEW x \in Nat
  PROVE  /\ Held(ps, n, m, l, s, x) => Held(Append(ps, p), n, m, l, s, x)
         /\ Traces(ps, n, m, l, s, x) => Traces(Append(ps, p), n, m, l, s, x)
         /\ Traces(ps, n, m, l, s, x) /\ p.confirm => Held(Append(ps, p), n, m, l, s, x)
         /\ p.lpn = l /\ n <= Len(ps) /\ x <= p.data[s] => Traces(Append(ps, p), n, m, l, s, x)
         /\ p.lpn = l /\ n <= Len(ps) /\ x <= p.data[s] /\ p.confirm =>
                Held(Append(ps, p), n, m, l, s, x)
<1> DEFINE qs == Append(ps, p)
<1>1. /\ \A i \in 1 .. Len(ps) : qs[i] = ps[i]
      /\ qs[Len(ps) + 1] = p
      /\ \A i \in 1 .. Len(ps) : Marked(ps, i) \/ p.confirm => Marked(qs, i)
      /\ p.confirm => Marked(qs, Len(ps) + 1)
      /\ p.lpn = l /\ n <= Len(ps) => Len(ps) + 1 \in Logged(qs, n, l)
      /\ Logged(ps, n, l) \subseteq Logged(qs, n, l)
  <2>1. /\ \A i \in 1 .. Len(ps) : qs[i] = ps[i]
        /\ qs[Len(ps) + 1] = p
        /\ Logged(ps, n, l) \subseteq Logged(qs, n, l)
    BY Appended
  <2>2. /\ \A i \in 1 .. Len(ps) : Marked(ps, i) \/ p.confirm => Marked(qs, i)
        /\ p.confirm => Marked(qs, Len(ps) + 1)
    BY Appended
  <2>3. p.lpn = l /\ n <= Len(ps) => Len(ps) + 1 \in Logged(qs, n, l)
    BY Appended
  <2>4. QED BY <2>1, <2>2, <2>3
<1>2. Logged(ps, n, l) \subseteq 1 .. Len(ps)
  BY LogPages
<1> HIDE DEF qs
<1>3. Held(ps, n, m, l, s, x) => Held(qs, n, m, l, s, x)
  BY <1>1, <1>2 DEF Held
<1>4. Traces(ps, n, m, l, s, x) => Traces(qs, n, m, l, s, x)
  BY <1>1, <1>2 DEF Traces
<1>5. Traces(ps, n, m, l, s, x) /\ p.confirm => Held(qs, n, m, l, s, x)
  BY <1>1, <1>2 DEF Traces, Held
<1>6. p.lpn = l /\ n <= Len(ps) /\ x <= p.data[s] => Traces(qs, n, m, l, s, x)
  BY <1>1, <1>2 DEF Traces
<1>7. p.lpn = l /\ n <= Len(ps) /\ x <= p.data[s] /\ p.confirm => Held(qs, n, m, l, s, x)
  BY <1>1, <1>2 DEF Held
<1>8. QED BY <1>3, <1>4, <1>5, <1>6, <1>7 DEF qs

\* What tops the log and the page added tops the longer log.
LEMMA AppendTops ==
  ASSUME NEW ps \in Seq(LogPage), NEW p \in LogPage, NEW n \in Nat, NEW m \in Data,
         NEW l, NEW s \in Secs, NEW x \in Nat,
         Tops(ps, n, m, l, s, x), p.lpn = l => p.data[s] <= x
  PROVE  Tops(Append(ps, p), n, m, l, s, x)
<1>1. /\ \A i \in 1 .. Len(ps) : Append(ps, p)[i] = ps[i]
      /\ Append(ps, p)[Len(ps) + 1] = p
      /\ Logged(Append(ps, p), n, l) \subseteq Logged(ps, n, l) \cup {Len(ps) + 1}
      /\ Len(ps) + 1 \in Logged(Append(ps, p), n, l) => p.lpn = l
  BY Appended
<1>2. Logged(ps, n, l) \subseteq 1 .. Len(ps)
  BY LogPages
<1>3. QED BY <1>1, <1>2 DEF Tops

\* A page that is as new as everything in front of it keeps the order.
LEMMA AppendRises ==
  ASSUME NEW ps \in Seq(LogPage), NEW p \in LogPage, NEW n \in Nat, NEW m \in Data,
         NEW l, NEW s \in Secs, Rises(ps, n, m, l, s),
         p.lpn = l => Tops(ps, n, m, l, s, p.data[s])
  PROVE  Rises(Append(ps, p), n, m, l, s)
<1> DEFINE qs == Append(ps, p)
<1>1. /\ \A i \in 1 .. Len(ps) : qs[i] = ps[i]
      /\ qs[Len(ps) + 1] = p
      /\ Logged(qs, n, l) \subseteq Logged(ps, n, l) \cup {Len(ps) + 1}
      /\ Len(ps) + 1 \in Logged(qs, n, l) => p.lpn = l
  BY Appended
<1>2. Logged(ps, n, l) \subseteq 1 .. Len(ps) /\ Len(ps) \in Nat
  BY LogPages
<1>3. p.data[s] \in Nat
  BY SizesAssumption DEF LogPage, Data
<1> HIDE DEF qs
<1>4. ASSUME NEW i \in Logged(qs, n, l)
      PROVE  /\ m[s] <= qs[i].data[s]
             /\ \A j \in Logged(qs, n, l) : i <= j => qs[i].data[s] <= qs[j].data[s]
  <2>1. CASE i \in Logged(ps, n, l)
    <3>1. i \in 1 .. Len(ps) /\ qs[i] = ps[i]
      BY <1>1, <1>2, <2>1
    <3>2. m[s] <= qs[i].data[s]
      BY <2>1, <3>1 DEF Rises
    <3>3. ASSUME NEW j \in Logged(qs, n, l), i <= j
          PROVE  qs[i].data[s] <= qs[j].data[s]
      <4>1. CASE j \in Logged(ps, n, l)
        <5>1. qs[j] = ps[j]
          BY <1>1, <1>2, <4>1
        <5>2. QED BY <2>1, <3>1, <3>3, <4>1, <5>1 DEF Rises
      <4>2. CASE j = Len(ps) + 1
        <5>1. qs[j] = p /\ p.lpn = l
          BY <1>1, <3>3, <4>2
        <5>2. QED BY <2>1, <3>1, <5>1 DEF Tops
      <4>3. QED BY <1>1, <4>1, <4>2
    <3>4. QED BY <3>2, <3>3
  <2>2. CASE i = Len(ps) + 1
    <3>1. qs[i] = p /\ p.lpn = l
      BY <1>1, <2>2
    <3>2. m[s] <= qs[i].data[s]
      BY <3>1 DEF Tops
    <3>3. ASSUME NEW j \in Logged(qs, n, l), i <= j
          PROVE  qs[i].data[s] <= qs[j].data[s]
      <4>1. j = i
        BY <1>1, <1>2, <2>2, <3>3
      <4>2. QED BY <1>3, <3>1, <4>1
    <3>4. QED BY <3>2, <3>3
  <2>3. QED BY <1>1, <2>1, <2>2
<1>5. QED BY <1>4 DEF Rises, qs

\* What overtakes the log and the page added overtakes the longer log.
LEMMA AppendOvertakes ==
  ASSUME NEW ps \in Seq(LogPage), NEW p \in LogPage, NEW n \in Nat, NEW l, NEW v, NEW d,
         p.lpn # l
  PROVE  Overtakes(ps, n, l, v, d) => Overtakes(Append(ps, p), n, l, v, d)
<1>1. /\ \A i \in 1 .. Len(ps) : Append(ps, p)[i] = ps[i]
      /\ Logged(Append(ps, p), n, l) = Logged(ps, n, l)
  BY Appended
<1>2. Logged(ps, n, l) \subseteq 1 .. Len(ps)
  BY LogPages
<1>3. QED BY <1>1, <1>2 DEF Overtakes

\* What is as new as the whole log is as new as what an open finds.
LEMMA TopsCovers ==
  ASSUME NEW ps, NEW n, NEW m, NEW l, NEW s, NEW x, Tops(ps, n, m, l, s, x)
  PROVE  Covers(ps, n, m, l, s, x)
BY DEF Tops, Covers

\* What an open finds is in the log.
LEMMA HeldTraces ==
  ASSUME NEW ps, NEW n, NEW m, NEW l, NEW s, NEW x, Held(ps, n, m, l, s, x)
  PROVE  Traces(ps, n, m, l, s, x)
BY DEF Held, Traces

\* What is held is no newer than what covers the log.
LEMMA HeldBelow ==
  ASSUME NEW ps \in Seq(LogPage), NEW n \in Nat, NEW m \in Data, NEW l, NEW s \in Secs,
         NEW x \in Nat, NEW y \in Nat,
         Held(ps, n, m, l, s, x), Covers(ps, n, m, l, s, y)
  PROVE  x <= y
<1>1. m[s] \in Nat /\ \A i \in Logged(ps, n, l) : ps[i].data[s] \in Nat
  BY LogPages, SizesAssumption DEF Data
<1>2. QED BY <1>1 DEF Held, Covers

\* What is in the log is no newer than what tops it.
LEMMA TracesBelow ==
  ASSUME NEW ps \in Seq(LogPage), NEW n \in Nat, NEW m \in Data, NEW l, NEW s \in Secs,
         NEW x \in Nat, NEW y \in Nat,
         Traces(ps, n, m, l, s, x), Tops(ps, n, m, l, s, y)
  PROVE  x <= y
<1>1. m[s] \in Nat /\ \A i \in Logged(ps, n, l) : ps[i].data[s] \in Nat
  BY LogPages, SizesAssumption DEF Data
<1>2. QED BY <1>1 DEF Traces, Tops

\* Something older is held, traced and topped by something newer too.
LEMMA Older ==
  ASSUME NEW ps \in Seq(LogPage), NEW n \in Nat, NEW m \in Data, NEW l, NEW s \in Secs,
         NEW x \in Nat, NEW y \in Nat, x <= y
  PROVE  /\ Held(ps, n, m, l, s, y) => Held(ps, n, m, l, s, x)
         /\ Traces(ps, n, m, l, s, y) => Traces(ps, n, m, l, s, x)
         /\ Tops(ps, n, m, l, s, x) => Tops(ps, n, m, l, s, y)
<1>1. m[s] \in Nat /\ \A i \in Logged(ps, n, l) : ps[i].data[s] \in Nat
  BY LogPages, SizesAssumption DEF Data
<1>2. QED BY <1>1 DEF Held, Traces, Tops

\* The log has no page behind the stored map.
LEMMA Stored ==
  ASSUME NEW ps \in Seq(LogPage), NEW n \in Nat, NEW m \in Data, NEW l, NEW s \in Secs,
         NEW x \in Nat, Len(ps) <= n
  PROVE  /\ Logged(ps, n, l) = {}
         /\ Held(ps, n, m, l, s, x) <=> x <= m[s]
         /\ Traces(ps, n, m, l, s, x) <=> x <= m[s]
         /\ Tops(ps, n, m, l, s, x) <=> m[s] <= x
         /\ Covers(ps, n, m, l, s, x) <=> m[s] <= x
         /\ Rises(ps, n, m, l, s)
<1>1. Logged(ps, n, l) = {}
  BY DEF Logged
<1>2. QED BY <1>1 DEF Held, Traces, Tops, Covers, Rises
-----------------------------------------------------------------------------
(***************************************************************************)
(* What a scan of the log and of the buffer block finds.                   *)
(***************************************************************************)
LEMMA ScanReaches ==
  ASSUME NEW ps \in Seq(LogPage), NEW n \in Nat, NEW b, NEW l, l # None,
         NEW i \in Logged(ps, n, l), Marked(ps, i),
         \A k \in 1 .. Len(ps) : ps[k].confirm => ps[k].lpn # None
  PROVE  i <= RecoverTo(ps, n + 1, b)
<1> DEFINE ok == {k \in n + 1 .. Len(ps) : ps[k].lpn # None}
           last == LastValid(ps, n + 1)
           good == {k \in n + 1 .. last : ps[k].lpn # None /\ Confirmed(ps, k, b)}
<1>1. PICK j \in i .. Len(ps) : ps[j].confirm
  BY DEF Marked
<1>2. i \in n + 1 .. Len(ps) /\ j \in n + 1 .. Len(ps) /\ j \in 1 .. Len(ps) /\ Len(ps) \in Nat
  BY DEF Logged
<1>3. j \in ok
  BY <1>1, <1>2
<1>4. ok \subseteq 0 .. Len(ps)
  BY <1>2
<1>5. last = Max(ok) /\ Max(ok) \in ok /\ j <= Max(ok)
  BY <1>2, <1>3, <1>4, MaxIn DEF LastValid
<1>6. last \in Nat /\ last # 0 /\ j <= last
  BY <1>2, <1>5
<1> HIDE DEF ok, last
<1>7. j \in good
  BY <1>1, <1>2, <1>6 DEF Confirmed
<1>8. good \subseteq 0 .. last
  BY <1>6
<1>9. Max(good) \in good /\ j <= Max(good)
  BY <1>6, <1>7, <1>8, MaxIn
<1>10. RecoverTo(ps, n + 1, b) = Max(good)
  BY <1>6, <1>7 DEF RecoverTo, last
<1>11. Max(good) \in Nat
  BY <1>8, <1>9
<1> HIDE DEF good
<1>12. QED BY <1>2, <1>9, <1>10, <1>11

\* The map gets what an open is to find, and nothing that is not on flash.
LEMMA ScanTakes ==
  ASSUME NEW ps \in Seq(LogPage), NEW n \in Nat, NEW m \in [Lpns -> Data], NEW b,
         NEW l \in Lpns, NEW s \in Secs, Rises(ps, n, m[l], l, s),
         \A k \in 1 .. Len(ps) : ps[k].confirm => ps[k].lpn # None
  PROVE  LET y == Apply(m, ps, n + 1, RecoverTo(ps, n + 1, b))[l]
         IN  Covers(ps, n, m[l], l, s, y[s]) /\ Traces(ps, n, m[l], l, s, y[s])
<1> DEFINE to == RecoverTo(ps, n + 1, b)
           at == {i \in n + 1 .. to : ps[i].lpn = l}
           y == Apply(m, ps, n + 1, to)[l]
<1>1. to \in Int /\ (to <= Len(ps) \/ to < n + 1) /\ Len(ps) \in Nat
  BY RecoverIs
<1>2. y = IF at = {} THEN m[l] ELSE ps[Max(at)].data
  BY DEF Apply
<1>3. \A i \in Logged(ps, n, l) : Marked(ps, i) => i <= to
  BY ScanReaches, Sizes
<1> HIDE DEF to, y
<1>4. at \subseteq Logged(ps, n, l)
  BY <1>1 DEF Logged
<1>5. \A i \in Logged(ps, n, l) : Marked(ps, i) => i \in at
  BY <1>1, <1>3 DEF Logged
<1>6. m[l] \in Data /\ m[l][s] \in Nat
  BY SizesAssumption DEF Data
<1>7. CASE at = {}
  <2>1. y = m[l]
    BY <1>2, <1>7
  <2>2. Covers(ps, n, m[l], l, s, y[s])
    BY <1>5, <1>6, <1>7, <2>1 DEF Covers
  <2>3. Traces(ps, n, m[l], l, s, y[s])
    BY <1>6, <2>1 DEF Traces
  <2>4. QED BY <2>2, <2>3 DEF y, to
<1>8. CASE at # {}
  <2>1. at \subseteq 0 .. Len(ps)
    BY <1>1
  <2>2. Max(at) \in at /\ \A i \in at : i <= Max(at)
    BY <1>1, <1>8, <2>1, MaxIn
  <2>3. Max(at) \in Logged(ps, n, l) /\ y = ps[Max(at)].data
    BY <1>2, <1>4, <1>8, <2>2
  <2> HIDE DEF at
  <2>4. m[l][s] <= y[s]
    BY <2>3 DEF Rises
  <2>5. ASSUME NEW i \in Logged(ps, n, l), Marked(ps, i)
        PROVE  ps[i].data[s] <= y[s]
    <3>1. i <= Max(at)
      BY <1>5, <2>2, <2>5
    <3>2. QED BY <2>3, <3>1 DEF Rises
  <2>6. Covers(ps, n, m[l], l, s, y[s])
    BY <2>4, <2>5 DEF Covers
  <2>7. Traces(ps, n, m[l], l, s, y[s])
    <3>1. y[s] \in Nat
      BY <2>3, LogPages
    <3>2. QED BY <2>3, <3>1 DEF Traces
  <2>8. QED BY <2>6, <2>7 DEF y, to
<1>9. QED BY <1>7, <1>8

\* The page that passes for the flush of the buffered one is in the log.
LEMMA FoundIsLogged ==
  ASSUME NEW ps \in Seq(LogPage), NEW n \in Nat, NEW b, FoundInLog(ps, n + 1, b)
  PROVE  b.lpn # None /\ LastValid(ps, n + 1) \in Logged(ps, n, b.lpn)
<1> DEFINE ok == {k \in n + 1 .. Len(ps) : ps[k].lpn # None}
<1>1. LastValid(ps, n + 1) # 0 /\ b.lpn # None /\ ps[LastValid(ps, n + 1)].lpn = b.lpn
  BY DEF FoundInLog, LastIsBuffered
<1>2. ok # {} /\ LastValid(ps, n + 1) = Max(ok)
  BY <1>1 DEF LastValid
<1>3. Len(ps) \in Nat /\ ok \subseteq 0 .. Len(ps)
  OBVIOUS
<1>4. Max(ok) \in ok
  BY <1>2, <1>3, MaxIn
<1>5. Max(ok) \in n + 1 .. Len(ps)
  BY <1>4
<1> HIDE DEF ok
<1>6. QED BY <1>1, <1>2, <1>5 DEF Logged
-----------------------------------------------------------------------------
Prefix(v) == \E k \in Secs : v = 0 .. k

\* What a page of the buffer block is like: the sectors in front of one, one of
\* them written, of a page that is not deleted.
Good(p) ==
    /\ Prefix(p.valid)
    /\ \E s \in p.valid : p.data[s] > 0
    /\ p.lpn \notin Deletable

\* The number of valid sectors tells which they are.
LEMMA PrefixCount ==
  ASSUME NEW v, Prefix(v)
  PROVE  0 .. Cardinality(v) - 1 = v
<1>1. PICK k \in Secs : v = 0 .. k
  BY DEF Prefix
<1>2. k \in Nat
  BY <1>1, Sizes
<1>3. Cardinality(v) = k + 1
  <2>1. (IF 0 > k THEN 0 ELSE k - 0 + 1) = k + 1
    BY <1>2
  <2>2. QED BY <1>1, <1>2, <2>1, FS_Interval
<1>4. QED BY <1>1, <1>2, <1>3

\* Of a block without a torn page the last page is found.
LEMMA ScanBufferLast ==
  ASSUME NEW ps \in Seq(BufPage), \A i \in 1 .. Len(ps) : ps[i].lpn # None,
         NEW p \in BufPage, p.lpn # None, Prefix(p.valid)
  PROVE  ScanBufferBlk(Append(ps, p)) =
           [lpn |-> p.lpn, dirty |-> TRUE, valid |-> p.valid, data |-> p.data, cp |-> BufPages]
<1> DEFINE qs == Append(ps, p)
           bad == {i \in 1 .. Len(qs) : qs[i].lpn = None}
<1>1. Len(qs) = Len(ps) + 1 /\ Len(ps) \in Nat /\ qs[Len(ps) + 1] = p
      /\ \A i \in 1 .. Len(ps) : qs[i] = ps[i]
  OBVIOUS
<1> HIDE DEF qs
<1>2. bad = {}
  BY <1>1
<1>3. 0 .. Cardinality(p.valid) - 1 = p.valid
  BY PrefixCount
<1>4. (IF bad = {} THEN Len(qs) ELSE Min(bad) - 1) = Len(ps) + 1 /\ Len(ps) + 1 # 0
  BY <1>1, <1>2
<1>5. QED BY <1>1, <1>3, <1>4 DEF ScanBufferBlk, qs

\* A torn page behind them changes nothing.
LEMMA ScanBufferTorn ==
  ASSUME NEW ps \in Seq(BufPage), \A i \in 1 .. Len(ps) : ps[i].lpn # None
  PROVE  ScanBufferBlk(Append(ps, TornBuf)) = ScanBufferBlk(ps)
<1> DEFINE qs == Append(ps, TornBuf)
           bad1 == {i \in 1 .. Len(ps) : ps[i].lpn = None}
           bad2 == {i \in 1 .. Len(qs) : qs[i].lpn = None}
           n1 == IF bad1 = {} THEN Len(ps) ELSE Min(bad1) - 1
           n2 == IF bad2 = {} THEN Len(qs) ELSE Min(bad2) - 1
<1>1. Len(qs) = Len(ps) + 1 /\ Len(ps) \in Nat /\ qs[Len(ps) + 1] = TornBuf
      /\ \A i \in 1 .. Len(ps) : qs[i] = ps[i]
  BY TornType
<1>2. ScanBufferBlk(qs) =
        IF n2 = 0 THEN NoBuf(BufPages)
        ELSE [lpn |-> qs[n2].lpn, dirty |-> TRUE,
              valid |-> 0 .. Cardinality(qs[n2].valid) - 1,
              data |-> qs[n2].data, cp |-> BufPages]
  BY DEF ScanBufferBlk
<1>3. ScanBufferBlk(ps) =
        IF n1 = 0 THEN NoBuf(BufPages)
        ELSE [lpn |-> ps[n1].lpn, dirty |-> TRUE,
              valid |-> 0 .. Cardinality(ps[n1].valid) - 1,
              data |-> ps[n1].data, cp |-> BufPages]
  BY DEF ScanBufferBlk
<1> HIDE DEF qs
<1>4. bad1 = {}
  OBVIOUS
<1>5. n1 = Len(ps)
  BY <1>4
<1>6. bad2 = {Len(ps) + 1}
  <2>1. qs[Len(ps) + 1].lpn = None
    BY <1>1 DEF TornBuf
  <2>2. QED BY <1>1, <2>1
<1>7. Min({Len(ps) + 1}) = Len(ps) + 1
  BY <1>1, MinIn
<1> HIDE DEF bad1, bad2
<1>8. n2 = Len(ps)
  BY <1>1, <1>6, <1>7
<1> HIDE DEF n1, n2
<1>9. CASE Len(ps) = 0
  BY <1>2, <1>3, <1>5, <1>8, <1>9 DEF qs
<1>10. CASE Len(ps) # 0
  <2>1. qs[Len(ps)] = ps[Len(ps)]
    BY <1>1, <1>10
  <2>2. QED BY <1>2, <1>3, <1>5, <1>8, <1>10, <2>1 DEF qs
<1>11. QED BY <1>9, <1>10

\* A scan of an erased block finds nothing.
LEMMA ScanBufferEmpty == ScanBufferBlk(<<>>) = NoBuf(BufPages)
BY DEF ScanBufferBlk

\* A scan of a block with one page finds this page.
LEMMA ScanBufferOne ==
  ASSUME NEW p \in BufPage
  PROVE  /\ p.lpn # None /\ Prefix(p.valid) =>
              ScanBufferBlk(<<p>>) = [lpn |-> p.lpn, dirty |-> TRUE, valid |-> p.valid,
                                      data |-> p.data, cp |-> BufPages]
<1>1. <<>> \in Seq(BufPage) /\ Append(<<>>, p) = <<p>> /\ \A i \in 1 .. Len(<<>>) : <<>>[i].lpn # None
  OBVIOUS
<1>2. QED BY <1>1, ScanBufferLast

\* What is found is a page of the block.
LEMMA ScanBufferGood ==
  ASSUME NEW ps \in Seq(BufPage), \A i \in 1 .. Len(ps) : ps[i].lpn # None => Good(ps[i]),
         ScanBufferBlk(ps).lpn # None
  PROVE  Good(ScanBufferBlk(ps)) /\ ScanBufferBlk(ps).dirty
<1> DEFINE bad == {i \in 1 .. Len(ps) : ps[i].lpn = None}
           n == IF bad = {} THEN Len(ps) ELSE Min(bad) - 1
           r == [lpn |-> ps[n].lpn, dirty |-> TRUE,
                 valid |-> 0 .. Cardinality(ps[n].valid) - 1,
                 data |-> ps[n].data, cp |-> BufPages]
<1>1. ScanBufferBlk(ps) = IF n = 0 THEN NoBuf(BufPages) ELSE r
  BY DEF ScanBufferBlk
<1>2. Len(ps) \in Nat /\ n \in 0 .. Len(ps)
  <2>1. CASE bad = {}
    BY <2>1
  <2>2. CASE bad # {}
    <3>1. bad \in SUBSET Nat
      OBVIOUS
    <3>2. Min(bad) \in bad
      BY <2>2, <3>1, MinIn
    <3>3. Min(bad) \in 1 .. Len(ps)
      BY <3>2
    <3>4. n = Min(bad) - 1
      BY <2>2
    <3> HIDE DEF n
    <3>5. QED BY <3>3, <3>4
  <2>3. QED BY <2>1, <2>2
<1> HIDE DEF n
<1>3. n # 0 /\ ScanBufferBlk(ps) = r
  BY <1>1 DEF NoBuf
<1>4. n \in 1 .. Len(ps) /\ ps[n].lpn # None
  BY <1>2, <1>3
<1>5. Good(ps[n])
  BY <1>4
<1>6. r.valid = ps[n].valid /\ r.data = ps[n].data /\ r.lpn = ps[n].lpn /\ r.dirty
  BY <1>5, PrefixCount DEF Good
<1> HIDE DEF r
<1>7. Good(r)
  BY <1>5, <1>6 DEF Good
<1>8. QED BY <1>3, <1>6, <1>7
-----------------------------------------------------------------------------
(***************************************************************************)
(* The invariant.                                                          *)
(***************************************************************************)
\* What a scan finds in the buffer block of the context on flash and in RAM.
Old == ScanBufferBlk(bblk[storedBBlk])
Cur == ScanBufferBlk(bblk[bBlkVbn])

\* The map has every page of the log of group g.
Live(g) ==
    /\ open
    /\ g \notin unscanned
    /\ \/ g \notin active
       \/ cp[g] < PagesPerSBlk
       \/ op.kind = "write" /\ op.step = "buffer" /\ Grp(op.lpn) = g

\* A delete of page l may wait for the store of its map.
Deleting(l) == l \in Deletable /\ delGrp = Grp(l)

Buffered(l, s) == buf.dirty /\ buf.lpn = l /\ s \in buf.valid

\* The page an open has found in the buffer block is not one given up before.
Trusted == ~(op.kind = "open" /\ dropped)

\* Of each sector of each page that has not been reverted: the log rises; the
\* flash holds what was secured, in the log or in the buffer block; what reads
\* return is no older; and the map follows the log.
Rising(l, s) == Rises(pages[Grp(l)], stored[Grp(l)], pmt[l], l, s)
Safe(l, s) ==
    \/ Old.lpn = l /\ s \in Old.valid
    \/ Held(pages[Grp(l)], stored[Grp(l)], pmt[l], l, s, secured[l][s])
Mapped(l, s) ==
    open /\ Grp(l) \notin unscanned => secured[l][s] <= map[l][s] \/ Buffered(l, s)
Traced(l, s) ==
    Live(Grp(l)) => Traces(pages[Grp(l)], stored[Grp(l)], pmt[l], l, s, map[l][s])
Newest(l, s) ==
    Live(Grp(l)) /\ ~Deleting(l) =>
        Tops(pages[Grp(l)], stored[Grp(l)], pmt[l], l, s, map[l][s])
Covered(l, s) ==
    open /\ Grp(l) \notin unscanned /\ ~Deleting(l) =>
        Covers(pages[Grp(l)], stored[Grp(l)], pmt[l], l, s, map[l][s])
PageKept(l, s) ==
    /\ Rising(l, s) /\ Safe(l, s) /\ Mapped(l, s)
    /\ Traced(l, s) /\ Newest(l, s) /\ Covered(l, s)
PagesKept == \A l \in Lpns \ reverted, s \in Secs : PageKept(l, s)

\* The page of the buffer block on flash is in the log, or it is newer than
\* the log; while the zone is open it is in the log, or in the buffer.
OldHeld ==
    LET l == Old.lpn
    IN  \A s \in Old.valid :
            /\ Held(pages[Grp(l)], stored[Grp(l)], pmt[l], l, s, secured[l][s])
            /\ Held(pages[Grp(l)], stored[Grp(l)], pmt[l], l, s, Old.data[s])
OldNewer ==
    LET l == Old.lpn
    IN  /\ ~dropped
        /\ Overtakes(pages[Grp(l)], stored[Grp(l)], l, Old.valid, Old.data)
OldTops ==
    LET l == Old.lpn
    IN  \A s \in Old.valid :
            /\ secured[l][s] <= Old.data[s]
            /\ Tops(pages[Grp(l)], stored[Grp(l)], pmt[l], l, s, Old.data[s])
OldInBuf == buf.dirty /\ buf.lpn = Old.lpn /\ Old.valid \subseteq buf.valid
OldKept ==
    Old.lpn \in Lpns \ reverted =>
        /\ OldHeld \/ OldNewer
        /\ ~dropped => OldTops
        /\ open => OldHeld \/ OldInBuf

\* A flushed page reads as it was buffered; a dirty one is the newest.
BufClean == open /\ buf.lpn # None /\ ~buf.dirty =>
    \A s \in buf.valid : map[buf.lpn][s] = buf.data[s]
BufNewest == open /\ buf.dirty /\ Trusted /\ buf.lpn \notin reverted =>
    \A s \in buf.valid : /\ secured[buf.lpn][s] <= buf.data[s]
                         /\ map[buf.lpn][s] <= buf.data[s]
BufTops == open /\ op.step = "bmt" =>
    LET l == buf.lpn
    IN  /\ buf.dirty
        /\ l \notin reverted =>
            /\ \A s \in buf.valid :
                  Tops(pages[Grp(l)], stored[Grp(l)], pmt[l], l, s, buf.data[s])
            /\ Overtakes(pages[Grp(l)], stored[Grp(l)], l, buf.valid, buf.data)

\* The pages of a log are of its group, a torn one is not confirmed.
LogsClean == \A g \in Groups : \A i \in 1 .. Len(pages[g]) :
    /\ pages[g][i].lpn # None => Grp(pages[g][i].lpn) = g
    /\ pages[g][i].confirm => pages[g][i].lpn # None

\* The map in RAM is the stored one until the log is scanned, and the log goes
\* on behind it.
Unread == open => \A g \in unscanned :
    cp[g] = stored[g] /\ \A l \in Lpns : Grp(l) = g => map[l] = pmt[l]
Behind == open => \A g \in Groups \ unscanned :
    cp[g] < PagesPerSBlk => stored[g] <= cp[g]

Data0 == LogsClean /\ PagesKept /\ OldKept /\ BufClean /\ BufNewest /\ BufTops
         /\ Unread /\ Behind

\* The pages of the buffer block, and the buffered one.
BufForm ==
    /\ \A k \in {1, 2} : \A i \in 1 .. Len(bblk[k]) :
           bblk[k][i].lpn # None => Good(bblk[k][i])
    /\ buf.lpn # None => Good(buf)
    /\ open /\ buf.cp < BufPages =>
           \A i \in 1 .. Len(bblk[bBlkVbn]) : bblk[bBlkVbn][i].lpn # None

\* Nothing is newer than the last write, and what the running write has still
\* to do is older.
UpTo(d, n) == \A s \in Secs : d[s] <= n
Past ==
    /\ \A l \in Lpns : UpTo(map[l], writes) /\ UpTo(pmt[l], writes) /\ UpTo(secured[l], writes)
    /\ UpTo(buf.data, writes)
    /\ \A g \in Groups : \A i \in 1 .. Len(pages[g]) : UpTo(pages[g][i].data, writes)
    /\ \A k \in {1, 2} : \A i \in 1 .. Len(bblk[k]) : UpTo(bblk[k][i].data, writes)
Ahead(l) ==
    /\ op.kind = "write"
    /\ \/ l > op.lpn
       \/ l = op.lpn /\ op.step \in {"start", "page", "buffer"}
ToCome == \A l \in Lpns : Ahead(l) => \A s \in Secs :
    /\ map[l][s] < writes
    /\ buf.lpn = l => buf.data[s] < writes
    /\ \A i \in Logged(pages[Grp(l)], stored[Grp(l)], l) : pages[Grp(l)][i].data[s] < writes

\* The steps of each call.
StepsOf ==
    /\ op.kind = "none" => op.step = "none"
    /\ op.kind = "write" => op.step \in {"start", "page", "buffer", "bmt", "reserve"}
    /\ op.kind = "delete" => op.step \in {"invalidate", "map"}
    /\ op.kind = "close" => op.step \in {"start", "erase", "store"}
    /\ op.kind = "open" => op.step \in {"flush", "erase", "store"}

\* Where the buffered page is: in the buffer block of the context, except
\* between the change of the block and the store of the context.
Opening(step) == op.kind = "open" /\ op.step = step
InBlock == buf.lpn # None /\ ~Opening("store") =>
    Cur.lpn = buf.lpn /\ Cur.valid = buf.valid /\ Cur.data = buf.data
SameBlock == bBlkVbn # storedBBlk => op.step \in {"bmt", "store"}
GivenUp == buf.lpn = None /\ Old.lpn # None =>
    (dropped \/ bBlkVbn # storedBBlk) /\ Grp(Old.lpn) \notin unscanned
Scanned == ~Opening("flush") =>
    /\ buf.lpn # None => Grp(buf.lpn) \notin unscanned
    /\ Old.lpn # None => Grp(Old.lpn) \notin unscanned
Flushed ==
    /\ Opening("flush") => ~flushing /\ (buf.lpn # None => buf.dirty)
    /\ Opening("erase") \/ Opening("store") => buf.lpn # None
    /\ op.step \in {"erase", "invalidate"} /\ ~flushing => ~buf.dirty
Storing == op.step = "store" =>
    /\ ~flushing
    /\ ~buf.dirty
    /\ bBlkVbn # storedBBlk => bblk[bBlkVbn] = <<>>
    /\ op.kind = "open" /\ Old.lpn # None => Old.lpn = buf.lpn
Place == open => InBlock /\ SameBlock /\ GivenUp /\ Scanned /\ Flushed /\ Storing

\* A write leaves no half page of a page that may be deleted in the buffer.
Whole(t) == \A l \in Deletable : t + 1 \notin l * SecPerVPg + 1 .. l * SecPerVPg + SecPerVPg - 1
WriteWhole == op.kind = "write" =>
    /\ Whole(op.to) /\ Whole(op.last)
    /\ op.to = op.last \/ \E k \in Nat : op.to + 1 = k * SecPerVPg
    /\ op.step # "start" => delGrp = None
ToBuffer == op.kind = "write" /\ op.step = "buffer" =>
    /\ \/ ~flushing /\ buf.lpn = op.lpn /\ Bits(op.lpn) \cap buf.valid # {}
       \/ Prefix(Bits(op.lpn))
    /\ op.lpn \notin Deletable
    /\ ~flushing /\ buf.dirty => buf.lpn = op.lpn
DeletesOne == op.kind = "delete" => op.lpn \in Deletable
Calls == StepsOf /\ WriteWhole /\ ToBuffer /\ DeletesOne

Kept == Data0 /\ BufForm /\ Past /\ ToCome /\ Place /\ Calls
-----------------------------------------------------------------------------
(***************************************************************************)
(* Types of what the invariant speaks of.                                  *)
(***************************************************************************)
LEMMA Typed ==
  ASSUME Types, NEW l \in Lpns
  PROVE  /\ Grp(l) \in Groups /\ l # None
         /\ pages[Grp(l)] \in Seq(LogPage) /\ stored[Grp(l)] \in Nat /\ Len(pages[Grp(l)]) \in Nat
         /\ pmt[l] \in Data /\ map[l] \in Data /\ secured[l] \in Data /\ buf.data \in Data
         /\ \A s \in Secs : /\ pmt[l][s] \in Nat /\ map[l][s] \in Nat
                            /\ secured[l][s] \in Nat /\ buf.data[s] \in Nat
<1>1. Grp(l) \in Groups /\ l # None
  BY GrpType, Sizes
<1>2. pages[Grp(l)] \in Seq(LogPage) /\ stored[Grp(l)] \in Nat
  BY <1>1, SizesAssumption DEF Types, LogTypes
<1>3. pmt[l] \in Data /\ map[l] \in Data /\ secured[l] \in Data /\ buf.data \in Data
  BY DEF Types, MapTypes, CallTypes, Bufs
<1>4. \A d \in Data : \A s \in Secs : d[s] \in Nat
  BY SizesAssumption DEF Data
<1>5. QED BY <1>1, <1>2, <1>3, <1>4

\* The same after a step.
LEMMA TypedNext ==
  ASSUME Types', NEW l \in Lpns
  PROVE  /\ pages'[Grp(l)] \in Seq(LogPage) /\ stored'[Grp(l)] \in Nat /\ Len(pages'[Grp(l)]) \in Nat
         /\ pmt'[l] \in Data /\ map'[l] \in Data /\ secured'[l] \in Data /\ buf'.data \in Data
         /\ \A s \in Secs : /\ pmt'[l][s] \in Nat /\ map'[l][s] \in Nat
                            /\ secured'[l][s] \in Nat /\ buf'.data[s] \in Nat
<1>1. Grp(l) \in Groups
  BY GrpType
<1>2. pages'[Grp(l)] \in Seq(LogPage) /\ stored'[Grp(l)] \in Nat
  BY <1>1, SizesAssumption DEF Types, LogTypes
<1>3. pmt'[l] \in Data /\ map'[l] \in Data /\ secured'[l] \in Data /\ buf'.data \in Data
  BY DEF Types, MapTypes, CallTypes, Bufs
<1>4. \A d \in Data : \A s \in Secs : d[s] \in Nat
  BY SizesAssumption DEF Data
<1>5. QED BY <1>1, <1>2, <1>3, <1>4

\* The types of the buffered page and of what the block on flash has.
LEMMA BufTyped ==
  ASSUME Types
  PROVE  /\ buf \in Bufs /\ buf.lpn \in Lpns \cup {None} /\ (buf.dirty => buf.lpn \in Lpns)
         /\ buf.valid \subseteq Secs
         /\ Old \in Bufs /\ Old.lpn \in Lpns \cup {None} /\ Old.valid \subseteq Secs
         /\ Cur \in Bufs
         /\ \A s \in Secs : Old.data[s] \in Nat /\ buf.data[s] \in Nat
<1>1. buf \in Bufs /\ (buf.dirty => buf.lpn \in Lpns)
  BY DEF Types, CallTypes
<1>2. Old \in Bufs /\ Cur \in Bufs
  BY ScanBufferType DEF Types, BlkTypes, Old, Cur
<1>3. \A d \in Data : \A s \in Secs : d[s] \in Nat
  BY SizesAssumption DEF Data
<1>4. QED BY <1>1, <1>2, <1>3 DEF Bufs

\* What the block on flash has is a page that is not deleted.
LEMMA OldGood ==
  ASSUME Types, BufForm
  PROVE  /\ Old.lpn # None => Good(Old) /\ Old.dirty
         /\ Old.lpn = None => ~Old.dirty
<1>1. bblk[storedBBlk] \in Seq(BufPage) /\ storedBBlk \in {1, 2}
  BY DEF Types, BlkTypes
<1>2. \A i \in 1 .. Len(bblk[storedBBlk]) : bblk[storedBBlk][i].lpn # None => Good(bblk[storedBBlk][i])
  BY <1>1 DEF BufForm
<1>3. Old.lpn # None => Good(Old) /\ Old.dirty
  BY <1>1, <1>2, ScanBufferGood DEF Old
<1>4. Old.lpn = None => ~Old.dirty
  BY <1>1, ScanBufferType, Sizes DEF Old
<1>5. QED BY <1>3, <1>4

\* The greater of two numbers of writes is one of them.
LEMMA MaxEither ==
  ASSUME NEW a \in 0 .. MaxWrites, NEW b \in 0 .. MaxWrites
  PROVE  Max({a, b}) \in {a, b} /\ a <= Max({a, b}) /\ b <= Max({a, b})
BY MaxIn, SizesAssumption

\* The history after a store: what is secured of a page is what was, or what
\* reads return.
LEMMA SecureIs ==
  ASSUME NEW g, NEW m \in [Lpns -> Data], NEW b \in Bufs, secured \in [Lpns -> Data],
         NEW l \in Lpns, NEW s \in Secs
  PROVE  /\ Grp(l) # g => Secure(g, m, b)[l][s] = secured[l][s]
         /\ Grp(l) = g =>
              /\ Secure(g, m, b)[l][s] \in {secured[l][s], Merged(l, m, b)[s]}
              /\ secured[l][s] <= Secure(g, m, b)[l][s]
         /\ Merged(l, m, b)[s] = IF b.dirty /\ b.lpn = l /\ s \in b.valid
                                 THEN b.data[s] ELSE m[l][s]
<1>1. secured[l][s] \in 0 .. MaxWrites /\ Merged(l, m, b)[s] \in 0 .. MaxWrites
  BY MergedType DEF Data
<1>2. Secure(g, m, b)[l][s] = IF Grp(l) = g THEN Max({secured[l][s], Merged(l, m, b)[s]})
                              ELSE secured[l][s]
  BY DEF Secure
<1>3. Merged(l, m, b)[s] = IF b.dirty /\ b.lpn = l /\ s \in b.valid THEN b.data[s] ELSE m[l][s]
  BY DEF Merged
<1>4. QED BY <1>1, <1>2, <1>3, MaxEither
-----------------------------------------------------------------------------
(***************************************************************************)
(* Steps of a call that touch neither the logs nor the buffer.             *)
(***************************************************************************)
still == <<pages, active, stored, pmt, bblk, storedBBlk, open, map, cp, unscanned, buf,
           bBlkVbn, delGrp, secured, dropped, reverted>>

\* A block that is not written has what it had.
LEMMA BlocksStill ==
  ASSUME bblk' = bblk
  PROVE  /\ storedBBlk' = storedBBlk => Old' = Old
         /\ bBlkVbn' = bBlkVbn => Cur' = Cur
BY DEF Old, Cur

\* A call that moves on leaves the data as they are.
LEMMA DataStill ==
  ASSUME Kept, UNCHANGED still,
         op'.kind = "write" /\ op'.step = "buffer" => cp[Grp(op'.lpn)] < PagesPerSBlk,
         Trusted' => Trusted \/ ~buf.dirty,
         op'.step # "bmt"
  PROVE  Data0' /\ BufForm'
<1>0. Data0 /\ BufForm /\ Old' = Old
  BY BlocksStill DEF Kept, still
<1>1. LogsClean' /\ Unread' /\ Behind'
  BY <1>0 DEF still, Data0, LogsClean, Unread, Behind
<1>2. PagesKept'
  <2> SUFFICES ASSUME NEW l \in Lpns \ reverted, NEW s \in Secs PROVE PageKept(l, s)'
    BY DEF PagesKept, still
  <2>1. PageKept(l, s)
    BY <1>0 DEF Data0, PagesKept
  <2>2. Live(Grp(l))' => Live(Grp(l))
    BY DEF Live, still
  <2>3. Rising(l, s)'
    BY <2>1 DEF PageKept, Rising, still
  <2>4. Safe(l, s)'
    BY <1>0, <2>1 DEF PageKept, Safe, still
  <2>5. Mapped(l, s)'
    BY <2>1 DEF PageKept, Mapped, Buffered, still
  <2>6. Traced(l, s)'
    BY <2>1, <2>2 DEF PageKept, Traced, still
  <2>7. Newest(l, s)'
    BY <2>1, <2>2 DEF PageKept, Newest, Deleting, still
  <2>8. Covered(l, s)'
    BY <2>1 DEF PageKept, Covered, Deleting, still
  <2>9. QED BY <2>3, <2>4, <2>5, <2>6, <2>7, <2>8 DEF PageKept
<1>3. OldKept'
  BY <1>0 DEF still, Data0, OldKept, OldHeld, OldNewer, OldTops, OldInBuf
<1>4. BufClean'
  BY <1>0 DEF still, Data0, BufClean
<1>5. BufNewest'
  BY <1>0 DEF still, Data0, BufNewest
<1>6. BufTops'
  BY DEF BufTops
<1>7. BufForm'
  BY <1>0 DEF still, BufForm
<1>8. QED BY <1>1, <1>2, <1>3, <1>4, <1>5, <1>6, <1>7 DEF Data0

\* The count of the writes may grow by one.
LEMMA PastStill ==
  ASSUME Inv, Kept, UNCHANGED still, writes' = writes \/ writes' = writes + 1
  PROVE  Past'
<1>1. Past /\ Types /\ writes \in Nat
  BY SizesAssumption DEF Kept, Inv, Types, MapTypes
<1>2. \A d \in Data : UpTo(d, writes) => UpTo(d, writes')
  BY <1>1, SizesAssumption DEF UpTo, Data
<1>3. \A l \in Lpns : UpTo(map[l], writes') /\ UpTo(pmt[l], writes') /\ UpTo(secured[l], writes')
  BY <1>1, <1>2 DEF Past, Types, MapTypes
<1>4. UpTo(buf.data, writes')
  BY <1>1, <1>2 DEF Past, Types, CallTypes, Bufs
<1>5. \A g \in Groups : \A i \in 1 .. Len(pages[g]) : UpTo(pages[g][i].data, writes')
  <2> SUFFICES ASSUME NEW g \in Groups, NEW i \in 1 .. Len(pages[g])
               PROVE UpTo(pages[g][i].data, writes')
    OBVIOUS
  <2>1. pages[g] \in Seq(LogPage)
    BY <1>1 DEF Types, LogTypes
  <2>2. pages[g][i].data \in Data
    BY <2>1, LogPages, SizesAssumption
  <2>3. QED BY <1>1, <1>2, <2>2 DEF Past
<1>6. \A k \in {1, 2} : \A i \in 1 .. Len(bblk[k]) : UpTo(bblk[k][i].data, writes')
  <2> SUFFICES ASSUME NEW k \in {1, 2}, NEW i \in 1 .. Len(bblk[k])
               PROVE UpTo(bblk[k][i].data, writes')
    OBVIOUS
  <2>1. bblk[k] \in Seq(BufPage)
    BY <1>1 DEF Types, BlkTypes
  <2>2. bblk[k][i] \in BufPage
    BY <2>1
  <2>3. bblk[k][i].data \in Data
    BY <2>2 DEF BufPage
  <2>4. QED BY <1>1, <1>2, <2>3 DEF Past
<1>7. QED BY <1>3, <1>4, <1>5, <1>6 DEF Past, still
-----------------------------------------------------------------------------
(***************************************************************************)
(* The store of the map of a group whose log is scanned.                   *)
(***************************************************************************)
\* The group g is stored, with all its log has; nothing else moves.
Stores(g) ==
    /\ pmt' = Overlay(pmt, g, map)
    /\ secured' = Secure(g, map, buf)
    /\ storedBBlk' = bBlkVbn
    /\ dropped' = (dropped /\ bBlkVbn = storedBBlk)
    /\ Len(pages'[g]) <= stored'[g]
    /\ cp'[g] < PagesPerSBlk => stored'[g] <= cp'[g]
    /\ Len(pages'[g]) <= Len(pages[g])
    /\ \A i \in 1 .. Len(pages'[g]) : pages'[g][i] = pages[g][i]
    /\ \A h \in Groups \ {g} : /\ pages'[h] = pages[h] /\ stored'[h] = stored[h]
                               /\ cp'[h] = cp[h] /\ (h \in active' <=> h \in active)
    /\ delGrp' = delGrp \/ (delGrp' = None /\ delGrp = g)
    /\ UNCHANGED <<bblk, open, map, unscanned, buf, bBlkVbn, op, flushing, writes, reverted>>

\* What the block on flash is afterwards.
LEMMA StoreBlock ==
  ASSUME Inv, Kept, open, NEW g, Stores(g), op.step # "bmt", ~Opening("store")
  PROVE  /\ Cur' = Cur /\ Old' = Cur
         /\ Old'.lpn = None \/ (Old' = Old /\ bBlkVbn = storedBBlk /\ dropped' = dropped)
         /\ bBlkVbn # storedBBlk => ~buf.dirty /\ Old'.lpn = None
         /\ \A l, s : Buffered(l, s) => Old'.lpn = l /\ s \in Old'.valid /\ buf.data[s] = Old'.data[s]
<1>1. Cur' = Cur /\ Old' = Cur
  BY DEF Stores, Old, Cur
<1>2. Place /\ Types
  BY DEF Kept, Inv
<1>3. bBlkVbn # storedBBlk => ~buf.dirty /\ Cur.lpn = None
  <2>1. SUFFICES ASSUME bBlkVbn # storedBBlk PROVE ~buf.dirty /\ Cur.lpn = None
    OBVIOUS
  <2>2. op.step = "store"
    BY <1>2, <2>1 DEF Place, SameBlock
  <2>3. ~buf.dirty /\ bblk[bBlkVbn] = <<>>
    BY <1>2, <2>1, <2>2 DEF Place, Storing
  <2>4. QED BY <2>3, ScanBufferEmpty DEF Cur, NoBuf
<1>4. bBlkVbn = storedBBlk => Old = Cur
  BY DEF Old, Cur
<1>5. ASSUME NEW l, NEW s, Buffered(l, s)
      PROVE  Cur.lpn = l /\ s \in Cur.valid /\ buf.data[s] = Cur.data[s]
  <2>1. buf.lpn # None
    BY <1>2, <1>5, BufTyped, Sizes DEF Buffered
  <2>2. QED BY <1>2, <1>5, <2>1 DEF Buffered, Place, InBlock
<1>6. dropped' = (dropped /\ bBlkVbn = storedBBlk) /\ dropped \in BOOLEAN
  BY <1>2 DEF Stores, Types, MapTypes
<1>7. QED BY <1>1, <1>3, <1>4, <1>5, <1>6

\* The store leaves the pages of the other groups as they are.
LEMMA StoreOthers ==
  ASSUME Inv, Kept, open, NEW g, Stores(g), op.step # "bmt", ~Opening("store"),
         NEW l \in Lpns \ reverted, NEW s \in Secs, Grp(l) # g
  PROVE  PageKept(l, s)'
<1>0. PageKept(l, s) /\ Types /\ OldKept
  BY DEF Kept, Data0, PagesKept, Inv
<1>1. Grp(l) \in Groups \ {g}
  BY <1>0, Typed
<1>2. /\ pages'[Grp(l)] = pages[Grp(l)] /\ stored'[Grp(l)] = stored[Grp(l)]
      /\ cp'[Grp(l)] = cp[Grp(l)] /\ (Grp(l) \in active' <=> Grp(l) \in active)
  BY <1>1 DEF Stores
<1>3. pmt'[l] = pmt[l]
  BY <1>0 DEF Stores, Overlay
<1>4. secured'[l][s] = secured[l][s]
  BY <1>0, SecureIs DEF Stores, Types, MapTypes, CallTypes
<1>5. Live(Grp(l))' <=> Live(Grp(l))
  BY <1>2 DEF Live, Stores
<1>6. Deleting(l)' <=> Deleting(l)
  BY <1>1, Sizes DEF Deleting, Stores
<1>7. Rising(l, s)'
  BY <1>0, <1>2, <1>3 DEF PageKept, Rising
<1>8. Safe(l, s)'
  <2>1. CASE Old.lpn = l /\ s \in Old.valid
    <3>1. CASE Old' = Old
      BY <2>1, <3>1 DEF Safe
    <3>2. CASE Old' # Old
      <4>1. Old'.lpn = None /\ ~buf.dirty
        <5>1. bBlkVbn # storedBBlk
          BY <3>2, StoreBlock DEF Old, Stores
        <5>2. QED BY <5>1, StoreBlock
      <4>2. OldHeld
        BY <1>0, <2>1, <4>1 DEF OldKept, OldInBuf
      <4>3. Held(pages[Grp(l)], stored[Grp(l)], pmt[l], l, s, secured[l][s])
        BY <2>1, <4>2 DEF OldHeld
      <4>4. QED BY <1>2, <1>3, <1>4, <4>3 DEF Safe
    <3>3. QED BY <3>1, <3>2
  <2>2. CASE ~(Old.lpn = l /\ s \in Old.valid)
    BY <1>0, <1>2, <1>3, <1>4, <2>2 DEF PageKept, Safe
  <2>3. QED BY <2>1, <2>2
<1>9. Mapped(l, s)'
  BY <1>0, <1>4 DEF PageKept, Mapped, Buffered, Stores
<1>10. map'[l][s] = map[l][s] /\ open' = open /\ unscanned' = unscanned
  BY DEF Stores
<1>11. Traced(l, s)'
  BY <1>0, <1>2, <1>3, <1>5, <1>10 DEF PageKept, Traced
<1>12. Newest(l, s)'
  BY <1>0, <1>2, <1>3, <1>5, <1>6, <1>10 DEF PageKept, Newest
<1>13. Covered(l, s)'
  BY <1>0, <1>2, <1>3, <1>6, <1>10 DEF PageKept, Covered
<1>14. QED BY <1>7, <1>8, <1>9, <1>11, <1>12, <1>13 DEF PageKept

\* The pages of the group are in the map on flash.
LEMMA StoreOwn ==
  ASSUME Inv, Types', Kept, open, NEW g, g \notin unscanned, Stores(g),
         op.step # "bmt", ~Opening("store"),
         NEW l \in Lpns \ reverted, NEW s \in Secs, Grp(l) = g
  PROVE  PageKept(l, s)'
<1>0. PageKept(l, s) /\ Types
  BY DEF Kept, Data0, PagesKept, Inv
<1>1. pmt'[l] = map[l] /\ map' = map /\ buf' = buf /\ open' = open
  BY DEF Stores, Overlay
<1>2. /\ secured'[l][s] \in {secured[l][s], Merged(l, map, buf)[s]}
      /\ Merged(l, map, buf)[s] = IF Buffered(l, s) THEN buf.data[s] ELSE map[l][s]
  <2>1. map \in [Lpns -> Data] /\ buf \in Bufs /\ secured \in [Lpns -> Data]
    BY <1>0 DEF Types, MapTypes, CallTypes
  <2>2. QED BY <2>1, SecureIs DEF Stores, Buffered
<1>3. secured[l][s] <= map[l][s] \/ Buffered(l, s)
  BY <1>0 DEF PageKept, Mapped
<1>4. ~Buffered(l, s) => secured'[l][s] <= map[l][s]
  BY <1>0, <1>2, <1>3, Typed
<1>5. \A x \in Nat : /\ Held(pages'[g], stored'[g], pmt'[l], l, s, x) <=> x <= map[l][s]
                     /\ Traces(pages'[g], stored'[g], pmt'[l], l, s, x) <=> x <= map[l][s]
                     /\ Tops(pages'[g], stored'[g], pmt'[l], l, s, x) <=> map[l][s] <= x
                     /\ Covers(pages'[g], stored'[g], pmt'[l], l, s, x) <=> map[l][s] <= x
                     /\ Rises(pages'[g], stored'[g], pmt'[l], l, s)
  <2>1. pages'[g] \in Seq(LogPage) /\ stored'[g] \in Nat /\ pmt'[l] \in Data
    BY TypedNext
  <2>2. Len(pages'[g]) <= stored'[g]
    BY DEF Stores
  <2>3. QED BY <1>1, <2>1, <2>2, Stored
<1>6. map[l][s] \in Nat /\ secured'[l][s] \in Nat
  BY <1>0, Typed, TypedNext
<1>7. Rising(l, s)'
  BY <1>5, <1>6 DEF Rising
<1>8. Safe(l, s)'
  <2>1. CASE Buffered(l, s)
    BY <2>1, StoreBlock DEF Safe
  <2>2. CASE ~Buffered(l, s)
    BY <1>4, <1>5, <1>6, <2>2 DEF Safe
  <2>3. QED BY <2>1, <2>2
<1>9. Mapped(l, s)'
  BY <1>1, <1>4 DEF Mapped, Buffered
<1>10. Traced(l, s)' /\ Newest(l, s)' /\ Covered(l, s)'
  <2>1. map'[l][s] = map[l][s]
    BY <1>1
  <2>2. QED BY <1>5, <1>6, <2>1 DEF Traced, Newest, Covered
<1>11. QED BY <1>7, <1>8, <1>9, <1>10 DEF PageKept

\* The page of the block on flash is still in the log or newer than it.
LEMMA StoreOld ==
  ASSUME Inv, Types', Kept, open, NEW g, g \notin unscanned, Stores(g),
         op.step # "bmt", ~Opening("store")
  PROVE  OldKept'
<1> DEFINE l == Old.lpn
<1>0. SUFFICES ASSUME Old'.lpn \in Lpns \ reverted
      PROVE  /\ OldHeld' \/ OldNewer'
             /\ ~dropped' => OldTops'
             /\ OldHeld' \/ OldInBuf'
  BY DEF OldKept, Stores
<1>1. Old'.lpn # None
  BY <1>0, Sizes
<1>2. Old' = Old /\ Cur = Old /\ bBlkVbn = storedBBlk /\ dropped' = dropped
  BY <1>1, StoreBlock
<1>3. l \in Lpns \ reverted /\ Old'.lpn = l
  BY <1>0, <1>2
<1>4. Types /\ OldKept /\ Place /\ BufForm /\ PagesKept
  BY DEF Kept, Data0, Inv
<1>5. map' = map /\ buf' = buf
  BY DEF Stores
<1>6. Old.valid \subseteq Secs
  BY <1>4, BufTyped
<1>7. buf.lpn # None => buf.lpn = l /\ buf.valid = Old.valid /\ buf.data = Old.data
  BY <1>2, <1>4 DEF Place, InBlock
<1>8. buf.dirty => OldInBuf'
  <2>1. ASSUME buf.dirty PROVE OldInBuf'
    <3>1. buf.lpn # None
      BY <1>4, <2>1, BufTyped, Sizes
    <3>2. QED BY <1>2, <1>5, <1>7, <2>1, <3>1 DEF OldInBuf
  <2>2. QED BY <2>1
<1>9. CASE Grp(l) # g
  <2>1. Grp(l) \in Groups \ {g}
    BY <1>3, <1>4, <1>9, Typed
  <2>2. pages'[Grp(l)] = pages[Grp(l)] /\ stored'[Grp(l)] = stored[Grp(l)]
    BY <2>1 DEF Stores
  <2>3. pmt'[l] = pmt[l]
    BY <1>3, <1>9 DEF Stores, Overlay
  <2>4. \A s \in Secs : secured'[l][s] = secured[l][s]
    BY <1>3, <1>4, <1>9, SecureIs DEF Stores, Types, MapTypes, CallTypes
  <2>5. OldHeld => OldHeld'
    BY <1>2, <1>6, <2>2, <2>3, <2>4 DEF OldHeld
  <2>6. OldNewer => OldNewer'
    BY <1>2, <2>2 DEF OldNewer
  <2>7. OldTops => OldTops'
    BY <1>2, <1>6, <2>2, <2>3, <2>4 DEF OldTops
  <2>8. (OldHeld \/ OldNewer) /\ (~dropped => OldTops) /\ (OldHeld \/ OldInBuf)
    BY <1>3, <1>4 DEF OldKept
  <2>9. OldInBuf => OldInBuf'
    BY <1>2, <1>5 DEF OldInBuf
  <2>10. QED BY <1>2, <2>5, <2>6, <2>7, <2>8, <2>9
<1>10. CASE Grp(l) = g
  <2>1. pmt'[l] = map[l]
    BY <1>3, <1>10 DEF Stores, Overlay
  <2>2. \A s \in Secs :
          /\ secured'[l][s] \in {secured[l][s], Merged(l, map, buf)[s]}
          /\ Merged(l, map, buf)[s] = IF Buffered(l, s) THEN buf.data[s] ELSE map[l][s]
    <3>1. map \in [Lpns -> Data] /\ buf \in Bufs /\ secured \in [Lpns -> Data]
      BY <1>4 DEF Types, MapTypes, CallTypes
    <3>2. secured' = Secure(g, map, buf)
      BY DEF Stores
    <3> HIDE DEF l
    <3>3. QED BY <1>3, <1>10, <3>1, <3>2, SecureIs DEF Buffered
  <2>3. pages'[g] \in Seq(LogPage) /\ stored'[g] \in Nat /\ pmt'[l] \in Data /\ Len(pages'[g]) <= stored'[g]
    BY <1>3, <1>10, TypedNext DEF Stores
  <2>4. /\ Logged(pages'[g], stored'[g], l) = {}
        /\ \A s \in Secs, x \in Nat :
             /\ Held(pages'[g], stored'[g], pmt'[l], l, s, x) <=> x <= map[l][s]
             /\ Tops(pages'[g], stored'[g], pmt'[l], l, s, x) <=> map[l][s] <= x
    <3>1. ASSUME NEW s \in Secs, NEW x \in Nat
          PROVE  /\ Logged(pages'[g], stored'[g], l) = {}
                 /\ Held(pages'[g], stored'[g], pmt'[l], l, s, x) <=> x <= map[l][s]
                 /\ Tops(pages'[g], stored'[g], pmt'[l], l, s, x) <=> map[l][s] <= x
      BY <2>1, <2>3, Stored
    <3>2. QED BY <3>1, Sizes
  <2>5. \A s \in Secs : map[l][s] \in Nat /\ secured[l][s] \in Nat /\ secured'[l][s] \in Nat
                        /\ Old.data[s] \in Nat /\ buf.data[s] \in Nat
    BY <1>3, <1>4, Typed, TypedNext, BufTyped
  <2>6. ~dropped => OldNewer'
    BY <1>2, <1>10, <2>4 DEF OldNewer, Overtakes
  <2>7. OldHeld => OldHeld'
    <3>1. SUFFICES ASSUME OldHeld, NEW s \in Old.valid
                   PROVE  secured'[l][s] <= map[l][s] /\ Old.data[s] <= map[l][s]
      BY <1>2, <1>6, <1>10, <2>4, <2>5 DEF OldHeld
    <3>2. s \in Secs
      BY <1>6
    <3>3. l \notin Deletable
      BY <1>1, <1>2, <1>4, OldGood DEF Good
    <3>4. Covered(l, s)
      BY <1>3, <1>4, <3>2 DEF PagesKept, PageKept
    <3>5. Covers(pages[g], stored[g], pmt[l], l, s, map[l][s])
      BY <1>10, <3>3, <3>4 DEF Covered, Deleting
    <3>6. /\ Held(pages[g], stored[g], pmt[l], l, s, secured[l][s])
          /\ Held(pages[g], stored[g], pmt[l], l, s, Old.data[s])
      BY <1>10, <3>1 DEF OldHeld
    <3>7. pages[g] \in Seq(LogPage) /\ stored[g] \in Nat /\ pmt[l] \in Data
      BY <1>3, <1>4, <1>10, Typed
    <3>8. secured[l][s] <= map[l][s] /\ Old.data[s] <= map[l][s]
      BY <2>5, <3>2, <3>5, <3>6, <3>7, HeldBelow
    <3>9. Buffered(l, s) => buf.data[s] = Old.data[s]
      BY <1>2, StoreBlock
    <3>10. QED BY <2>2, <3>2, <3>8, <3>9, <2>5
  <2>8. ~dropped => OldTops'
    <3>1. SUFFICES ASSUME ~dropped, NEW s \in Old.valid
                   PROVE  secured'[l][s] <= Old.data[s] /\ map[l][s] <= Old.data[s]
      BY <1>2, <1>6, <1>10, <2>4, <2>5 DEF OldTops
    <3>2. s \in Secs
      BY <1>6
    <3>3. buf.lpn = l /\ buf.valid = Old.valid /\ buf.data = Old.data
      BY <1>1, <1>2, <1>4, <1>7, <3>1 DEF Place, GivenUp
    <3>4. secured[l][s] <= Old.data[s]
      BY <1>3, <1>4, <3>1 DEF OldKept, OldTops
    <3>5. map[l][s] <= Old.data[s]
      <4>1. CASE buf.dirty
        BY <1>3, <3>1, <3>3, <4>1 DEF Kept, Data0, BufNewest, Trusted
      <4>2. CASE ~buf.dirty
        <5>1. map[l][s] = buf.data[s]
          BY <1>1, <1>2, <3>1, <3>3, <4>2 DEF Kept, Data0, BufClean
        <5>2. QED BY <2>5, <3>2, <3>3, <5>1
      <4>3. QED BY <4>1, <4>2
    <3>6. QED BY <2>2, <2>5, <3>2, <3>3, <3>4, <3>5
  <2>9. (OldHeld \/ ~dropped) /\ (OldHeld \/ buf.dirty)
    BY <1>3, <1>4 DEF OldKept, OldNewer, OldInBuf
  <2>10. QED BY <1>2, <1>8, <2>6, <2>7, <2>8, <2>9
<1>11. QED BY <1>9, <1>10

\* The buffered page is as it was.
LEMMA StoreBuf ==
  ASSUME Inv, Types', Kept, open, NEW g, Stores(g), op.step # "bmt", ~Opening("store")
  PROVE  BufClean' /\ BufNewest' /\ BufTops' /\ BufForm'
<1>0. Types /\ BufClean /\ BufNewest /\ BufForm
  BY DEF Kept, Data0, Inv
<1>1. map' = map /\ buf' = buf /\ open' = open /\ op' = op /\ reverted' = reverted
      /\ bblk' = bblk /\ bBlkVbn' = bBlkVbn
  BY DEF Stores
<1>2. BufClean'
  BY <1>0, <1>1 DEF BufClean
<1>3. BufNewest'
  <2>1. SUFFICES ASSUME buf.dirty, Trusted', buf.lpn \notin reverted, NEW s \in buf.valid
                 PROVE  secured'[buf.lpn][s] <= buf.data[s] /\ map[buf.lpn][s] <= buf.data[s]
    BY <1>1 DEF BufNewest
  <2>2. bBlkVbn = storedBBlk
    BY <2>1, StoreBlock
  <2>3. Trusted
    BY <1>1, <2>1, <2>2 DEF Trusted, Stores
  <2>4. secured[buf.lpn][s] <= buf.data[s] /\ map[buf.lpn][s] <= buf.data[s]
    BY <1>0, <2>1, <2>3 DEF BufNewest
  <2>5. buf.lpn \in Lpns /\ s \in Secs
    BY <1>0, <2>1, BufTyped
  <2>6. \/ secured'[buf.lpn][s] = secured[buf.lpn][s]
        \/ secured'[buf.lpn][s] = buf.data[s]
    <3>1. map \in [Lpns -> Data] /\ buf \in Bufs /\ secured \in [Lpns -> Data]
      BY <1>0 DEF Types, MapTypes, CallTypes
    <3>2. QED BY <2>1, <2>5, <3>1, SecureIs DEF Stores
  <2>7. buf.data[s] \in Nat
    BY <1>0, <2>5, BufTyped
  <2>8. QED BY <2>4, <2>6, <2>7
<1>4. BufTops'
  BY <1>1 DEF BufTops
<1>5. BufForm'
  BY <1>0, <1>1 DEF BufForm
<1>6. QED BY <1>2, <1>3, <1>4, <1>5

\* The logs, and what the running write has still to do.
LEMMA StoreFlow ==
  ASSUME Inv, Types', Kept, open, NEW g \in Groups, g \notin unscanned, Stores(g),
         op.step # "bmt", ~Opening("store")
  PROVE  LogsClean' /\ Unread' /\ Behind' /\ Past' /\ ToCome'
<1>0. Types /\ LogsClean /\ Unread /\ Behind /\ Past /\ ToCome
  BY DEF Kept, Data0, Inv
<1>1. \A h \in Groups : /\ Len(pages'[h]) <= Len(pages[h])
                        /\ \A i \in 1 .. Len(pages'[h]) : pages'[h][i] = pages[h][i]
  <2> SUFFICES ASSUME NEW h \in Groups
               PROVE /\ Len(pages'[h]) <= Len(pages[h])
                     /\ \A i \in 1 .. Len(pages'[h]) : pages'[h][i] = pages[h][i]
    OBVIOUS
  <2>1. pages[h] \in Seq(LogPage) /\ Len(pages[h]) \in Nat
    BY <1>0 DEF Types, LogTypes
  <2>2. QED BY <2>1 DEF Stores
<1>2. \A h \in Groups : Len(pages'[h]) \in Nat /\ Len(pages[h]) \in Nat
  BY <1>0 DEF Types, LogTypes
<1>3. \A h \in Groups : 1 .. Len(pages'[h]) \subseteq 1 .. Len(pages[h])
  BY <1>1, <1>2
<1>4. LogsClean'
  <2> SUFFICES ASSUME NEW h \in Groups, NEW i \in 1 .. Len(pages'[h])
               PROVE  /\ pages'[h][i].lpn # None => Grp(pages'[h][i].lpn) = h
                      /\ pages'[h][i].confirm => pages'[h][i].lpn # None
    BY DEF LogsClean
  <2>1. i \in 1 .. Len(pages[h]) /\ pages'[h][i] = pages[h][i]
    BY <1>1, <1>3
  <2>2. QED BY <1>0, <2>1 DEF LogsClean
<1>5. Unread'
  <2> SUFFICES ASSUME NEW h \in unscanned
               PROVE  cp'[h] = stored'[h] /\ \A l \in Lpns : Grp(l) = h => map[l] = pmt'[l]
    BY DEF Unread, Stores
  <2>1. h \in Groups \ {g}
    BY <1>0 DEF Types, LogTypes
  <2>2. cp'[h] = cp[h] /\ stored'[h] = stored[h]
    BY <2>1 DEF Stores
  <2>3. \A l \in Lpns : Grp(l) = h => pmt'[l] = pmt[l]
    BY <2>1 DEF Stores, Overlay
  <2>4. QED BY <1>0, <2>2, <2>3 DEF Unread
<1>6. Behind'
  <2> SUFFICES ASSUME NEW h \in Groups \ unscanned, cp'[h] < PagesPerSBlk
               PROVE  stored'[h] <= cp'[h]
    BY DEF Behind, Stores
  <2>1. CASE h = g
    BY <2>1 DEF Stores
  <2>2. CASE h # g
    BY <1>0, <2>2 DEF Stores, Behind
  <2>3. QED BY <2>1, <2>2
<1>7. Past'
  <2>1. \A l \in Lpns : UpTo(map[l], writes) /\ UpTo(pmt'[l], writes)
    BY <1>0 DEF Past, Stores, Overlay
  <2>2. \A l \in Lpns : UpTo(secured'[l], writes)
    <3> SUFFICES ASSUME NEW l \in Lpns, NEW s \in Secs PROVE secured'[l][s] <= writes
      BY DEF UpTo
    <3>1. map[l][s] <= writes /\ secured[l][s] <= writes /\ buf.data[s] <= writes
      BY <1>0 DEF Past, UpTo
    <3>2. map \in [Lpns -> Data] /\ buf \in Bufs /\ secured \in [Lpns -> Data]
      BY <1>0 DEF Types, MapTypes, CallTypes
    <3>3. secured'[l][s] \in {secured[l][s], buf.data[s], map[l][s]}
      BY <3>2, SecureIs DEF Stores
    <3>4. QED BY <3>1, <3>3
  <2>3. \A h \in Groups : \A i \in 1 .. Len(pages'[h]) : UpTo(pages'[h][i].data, writes)
    BY <1>0, <1>1, <1>3 DEF Past
  <2>4. QED BY <1>0, <2>1, <2>2, <2>3 DEF Past, Stores
<1>8. ToCome'
  <2> SUFFICES ASSUME NEW l \in Lpns, Ahead(l), NEW s \in Secs
               PROVE  /\ map[l][s] < writes
                      /\ buf.lpn = l => buf.data[s] < writes
                      /\ \A i \in Logged(pages'[Grp(l)], stored'[Grp(l)], l) :
                             pages'[Grp(l)][i].data[s] < writes
    BY DEF ToCome, Ahead, Stores
  <2>1. /\ map[l][s] < writes
        /\ buf.lpn = l => buf.data[s] < writes
        /\ \A i \in Logged(pages[Grp(l)], stored[Grp(l)], l) : pages[Grp(l)][i].data[s] < writes
    BY <1>0 DEF ToCome
  <2>2. Grp(l) \in Groups
    BY <1>0, Typed
  <2>3. CASE Grp(l) = g
    <3>1. stored'[g] \in Nat
      BY SizesAssumption DEF Types, LogTypes
    <3>2. Logged(pages'[g], stored'[g], l) = {}
      BY <1>2, <3>1 DEF Stores, Logged
    <3>3. QED BY <2>1, <2>3, <3>2
  <2>4. CASE Grp(l) # g
    BY <2>1, <2>2, <2>4 DEF Stores
  <2>5. QED BY <2>3, <2>4
<1>9. QED BY <1>4, <1>5, <1>6, <1>7, <1>8

\* The buffered page is where it was.
LEMMA StorePlace ==
  ASSUME Inv, Types', Kept, open, NEW g \in Groups, Stores(g),
         op.step # "bmt", ~Opening("store")
  PROVE  Place' /\ Calls'
<1>0. Types /\ Place /\ Calls
  BY DEF Kept, Data0, Inv
<1>1. buf' = buf /\ open' = open /\ op' = op /\ unscanned' = unscanned /\ flushing' = flushing
      /\ storedBBlk' = bBlkVbn /\ bBlkVbn' = bBlkVbn /\ bblk' = bblk
  BY DEF Stores
<1>2. Cur' = Cur /\ (Old'.lpn # None => Old' = Old /\ bBlkVbn = storedBBlk /\ dropped' = dropped)
  BY StoreBlock
<1>3. InBlock'
  BY <1>0, <1>1, <1>2 DEF Place, InBlock, Opening
<1>4. SameBlock'
  BY <1>1 DEF SameBlock
<1>5. GivenUp'
  BY <1>0, <1>1, <1>2 DEF Place, GivenUp
<1>6. Scanned'
  BY <1>0, <1>1, <1>2 DEF Place, Scanned, Opening
<1>7. Flushed'
  BY <1>0, <1>1 DEF Place, Flushed, Opening
<1>8. Storing'
  BY <1>0, <1>1 DEF Place, Storing, Opening
<1>9. StepsOf' /\ DeletesOne'
  BY <1>0, <1>1 DEF Calls, StepsOf, DeletesOne
<1>10. WriteWhole'
  BY <1>0, <1>1 DEF Calls, WriteWhole, Whole, Stores
<1>11. ToBuffer'
  BY <1>0, <1>1 DEF Calls, ToBuffer, Bits, Prefix
<1>12. QED BY <1>3, <1>4, <1>5, <1>6, <1>7, <1>8, <1>9, <1>10, <1>11 DEF Place, Calls

\* A store keeps the invariant.
LEMMA StoreKept ==
  ASSUME Inv, Inv', Kept, open, NEW g \in Groups, g \notin unscanned, Stores(g),
         op.step # "bmt", ~Opening("store")
  PROVE  Kept'
<1>0. Types'
  BY DEF Inv
<1>1. PagesKept'
  <2>1. ASSUME NEW l \in Lpns \ reverted, NEW s \in Secs PROVE PageKept(l, s)'
    BY <1>0, StoreOwn, StoreOthers
  <2>2. QED BY <2>1 DEF PagesKept, Stores
<1>2. OldKept'
  BY <1>0, StoreOld
<1>3. BufClean' /\ BufNewest' /\ BufTops' /\ BufForm'
  BY <1>0, StoreBuf
<1>4. LogsClean' /\ Unread' /\ Behind' /\ Past' /\ ToCome'
  BY <1>0, StoreFlow
<1>5. Place' /\ Calls'
  BY <1>0, StorePlace
<1>6. QED BY <1>1, <1>2, <1>3, <1>4, <1>5 DEF Kept, Data0

\* A step that stores the map of a group whose log is scanned.
StoreStep ==
    /\ open /\ op.step # "bmt" /\ ~Opening("store")
    /\ \E g \in Groups \ unscanned : Stores(g)

LEMMA StoreStepKept ==
  ASSUME Inv, Inv', Kept, StoreStep
  PROVE  Kept'
BY StoreKept DEF StoreStep
-----------------------------------------------------------------------------
(***************************************************************************)
(* The actions that store a map.                                           *)
(***************************************************************************)
LEMMA FlushingIs ==
  ASSUME Inv, Kept, flushing
  PROVE  open /\ op.step # "bmt" /\ op.step # "store"
<1>1. open
  BY DEF Inv, Phases
<1>2. op.step # "store"
  BY <1>1 DEF Kept, Place, Storing
<1>3. op.step # "bmt"
  <2>1. op.kind \in Kinds
    BY DEF Inv, Types, CallTypes, Ops
  <2>2. op.step = "bmt" => op.kind = "write"
    BY <2>1 DEF Kept, Calls, StepsOf, Kinds
  <2>3. QED BY <2>2 DEF Inv, Phases
<1>4. QED BY <1>1, <1>2, <1>3

\* A log is taken, new or again: its pages behind nCPOffs go.
LEMMA TakeLogStores ==
  ASSUME Inv, open, NEW g \in Groups, TakeLog(g), op.step # "bmt", op.step # "store"
  PROVE  StoreStep
<1> DEFINE n == IF cp[g] < PagesPerSBlk THEN cp[g] ELSE 0
<1>1. /\ g \notin unscanned /\ pages' = [pages EXCEPT ![g] = SubSeq(@, 1, n)]
      /\ cp' = [cp EXCEPT ![g] = n] /\ StorePMTCtx(g, n) /\ active' = active \cup {g}
      /\ UNCHANGED <<bblk, open, map, unscanned, buf, bBlkVbn, delGrp, op,
                     flushing, writes, losses, reverted>>
  BY DEF TakeLog
<1>2. /\ pages \in [Groups -> Seq(LogPage)] /\ cp \in [Groups -> 0 .. PagesPerSBlk]
      /\ stored \in [Groups -> 0 .. PagesPerSBlk]
  BY DEF Inv, Types, LogTypes
<1>3. cp[g] < PagesPerSBlk => Len(pages[g]) = cp[g]
  BY <1>1 DEF Inv, Ends
<1>4. n \in Nat /\ n <= Len(pages[g]) /\ pages[g] \in Seq(LogPage)
  BY <1>2, <1>3
<1> HIDE DEF n
<1>5. /\ stored' = [stored EXCEPT ![g] = n] /\ pmt' = Overlay(pmt, g, map)
      /\ storedBBlk' = bBlkVbn /\ secured' = Secure(g, map, buf)
      /\ dropped' = (dropped /\ bBlkVbn = storedBBlk)
  BY <1>1 DEF StorePMTCtx
<1>6. pages'[g] = SubSeq(pages[g], 1, n) /\ stored'[g] = n /\ cp'[g] = n
  BY <1>1, <1>2, <1>5
<1>7. Len(pages'[g]) = n /\ \A i \in 1 .. n : pages'[g][i] = pages[g][i]
  BY <1>4, <1>6
<1>8. \A h \in Groups \ {g} : /\ pages'[h] = pages[h] /\ stored'[h] = stored[h]
                              /\ cp'[h] = cp[h] /\ (h \in active' <=> h \in active)
  BY <1>1, <1>2, <1>5
<1>9. Stores(g)
  BY <1>1, <1>4, <1>5, <1>6, <1>7, <1>8 DEF Stores
<1>10. QED BY <1>1, <1>9 DEF StoreStep, Opening

\* A store that leaves the logs alone.
LEMMA StoresInPlace ==
  ASSUME Inv, open, NEW g \in Groups, g \notin unscanned, StorePMTCtx(g, cp[g]),
         \A h \in Groups \ {g} : h \in active' <=> h \in active,
         delGrp' = delGrp \/ (delGrp' = None /\ delGrp = g),
         UNCHANGED <<pages, bblk, open, map, cp, unscanned, buf, bBlkVbn, op, flushing,
                     writes, reverted>>
  PROVE  Stores(g)
<1>1. /\ pages \in [Groups -> Seq(LogPage)] /\ cp \in [Groups -> 0 .. PagesPerSBlk]
      /\ stored \in [Groups -> 0 .. PagesPerSBlk] /\ Len(pages[g]) <= PagesPerSBlk
  BY DEF Inv, Types, LogTypes
<1>2. cp[g] < PagesPerSBlk => Len(pages[g]) = cp[g]
  BY DEF Inv, Ends
<1>3. /\ stored' = [stored EXCEPT ![g] = cp[g]] /\ pmt' = Overlay(pmt, g, map)
      /\ storedBBlk' = bBlkVbn /\ secured' = Secure(g, map, buf)
      /\ dropped' = (dropped /\ bBlkVbn = storedBBlk)
  BY DEF StorePMTCtx
<1>4. stored'[g] = cp[g] /\ cp[g] \in 0 .. PagesPerSBlk /\ Len(pages[g]) \in Nat
  BY <1>1, <1>3
<1>5. Len(pages'[g]) <= stored'[g] /\ stored'[g] <= cp'[g] /\ Len(pages'[g]) <= Len(pages[g])
  BY <1>1, <1>2, <1>4, SizesAssumption
<1>6. \A h \in Groups \ {g} : stored'[h] = stored[h]
  BY <1>1, <1>3
<1>7. QED BY <1>3, <1>5, <1>6 DEF Stores

\* The store a delete has put off.
LEMMA StoreDeletedStores ==
  ASSUME Inv, open, StoreDeletedInfo, op.step # "bmt", op.step # "store"
  PROVE  StoreStep
<1>1. /\ delGrp \in Groups /\ StorePMTCtx(delGrp, cp[delGrp]) /\ delGrp' = None
      /\ active' = IF LogEmptied(delGrp) THEN active \ {delGrp} ELSE active
      /\ UNCHANGED <<pages, bblk, open, map, cp, unscanned, buf, bBlkVbn, op,
                     flushing, writes, losses, reverted>>
  BY DEF StoreDeletedInfo, Inv, Types, CallTypes
<1>2. delGrp \notin unscanned
  BY <1>1, Sizes DEF Inv, Phases
<1>3. \A h \in Groups \ {delGrp} : h \in active' <=> h \in active
  BY <1>1
<1>4. Stores(delGrp)
  BY <1>1, <1>2, <1>3, StoresInPlace
<1>5. QED BY <1>1, <1>2, <1>4 DEF StoreStep, Opening

\* A log leaves the active list.
LEMMA DeactivateStores ==
  ASSUME Inv, open, NEW v \in active, v \notin unscanned, Deactivate(v),
         op.step # "bmt", ~Opening("store"),
         UNCHANGED <<pages, bblk, open, map, cp, unscanned, buf, bBlkVbn, delGrp,
                     op, flushing, writes, losses, reverted>>
  PROVE  StoreStep
<1>1. active' = active \ {v} /\ StorePMTCtx(v, cp[v]) /\ v \in Groups
  BY DEF Deactivate, Inv, Types, LogTypes
<1>2. \A h \in Groups \ {v} : h \in active' <=> h \in active
  BY <1>1
<1>3. Stores(v)
  BY <1>1, <1>2, StoresInPlace
<1>4. QED BY <1>1, <1>3 DEF StoreStep

\* The actions that take a log or give one up.
LEMMA FlushTakeLogStores ==
  ASSUME Inv, Kept, FlushTakeLog
  PROVE  StoreStep
<1>1. flushing /\ buf.dirty /\ TakeLog(Grp(buf.lpn))
  BY DEF FlushTakeLog
<1>2. Grp(buf.lpn) \in Groups
  BY <1>1, GrpType DEF Inv, Types, CallTypes
<1>3. open /\ op.step # "bmt" /\ op.step # "store"
  BY <1>1, FlushingIs
<1>4. QED BY <1>1, <1>2, <1>3, TakeLogStores

\* A write takes a log for its page, or for the flush to come.
LEMMA WriteTakeLogStores ==
  ASSUME Inv, Kept, WriteTakeLog \/ ReserveForFlush
  PROVE  StoreStep
<1>1. op.kind = "write" /\ op.step \in {"page", "reserve"} /\ TakeLog(Grp(op.lpn))
  BY DEF WriteTakeLog, ReserveForFlush, At
<1>2. open /\ Grp(op.lpn) \in Groups
  BY <1>1, Opened, WritesPage DEF Inv, Types, CallTypes, Ranged
<1>3. QED BY <1>1, <1>2, TakeLogStores

\* A log makes room for another one.
LEMMA EvictStores ==
  ASSUME Inv, Kept, EvictStore
  PROVE  StoreStep
<1>1. (op.kind = "write" /\ op.step = "page") \/ flushing
  BY DEF EvictStore, WantsSlot
<1>2. open /\ op.step # "bmt" /\ op.step # "store"
  BY <1>1, Opened, FlushingIs
<1>3. PICK v \in active \ unscanned : Deactivate(v)
  BY DEF EvictStore
<1>4. UNCHANGED <<pages, bblk, open, map, cp, unscanned, buf, bBlkVbn, delGrp,
                  op, flushing, writes, losses, reverted>>
  BY DEF EvictStore
<1>5. QED BY <1>2, <1>3, <1>4, DeactivateStores DEF Opening

\* A close gives up the active logs one by one.
LEMMA CloseStores ==
  ASSUME Inv, Kept, CloseStore
  PROVE  StoreStep
<1>1. op.kind = "close" /\ op.step = "store"
  BY DEF CloseStore, At
<1>2. open /\ unscanned = {}
  BY <1>1, Opened DEF Inv, Phases
<1>3. PICK g \in active : Deactivate(g)
  BY DEF CloseStore
<1>4. UNCHANGED <<pages, bblk, open, map, cp, unscanned, buf, bBlkVbn, delGrp,
                  op, flushing, writes, losses, reverted>>
  BY DEF CloseStore
<1>5. QED BY <1>1, <1>2, <1>3, <1>4, DeactivateStores DEF Opening
-----------------------------------------------------------------------------
(***************************************************************************)
(* The actions that only move a call on.                                   *)
(***************************************************************************)
LEMMA SameBlk ==
  ASSUME Kept, open, op.step # "bmt", op.step # "store"
  PROVE  /\ bBlkVbn = storedBBlk /\ Old = Cur
         /\ buf.lpn # None => Old.lpn = buf.lpn /\ Old.valid = buf.valid /\ Old.data = buf.data
         /\ buf.lpn = None /\ Old.lpn # None => dropped
         /\ Grp(Old.lpn) \in unscanned /\ Old.lpn # None => Opening("flush") /\ buf.lpn # None
<1>1. Place
  BY DEF Kept
<1>2. bBlkVbn = storedBBlk
  BY <1>1 DEF Place, SameBlock
<1>3. Old = Cur
  BY <1>2 DEF Old, Cur
<1>4. buf.lpn # None => Cur.lpn = buf.lpn /\ Cur.valid = buf.valid /\ Cur.data = buf.data
  BY <1>1 DEF Place, InBlock, Opening
<1>5. buf.lpn = None /\ Old.lpn # None => dropped /\ Grp(Old.lpn) \notin unscanned
  BY <1>1, <1>2 DEF Place, GivenUp
<1>6. Grp(Old.lpn) \in unscanned /\ Old.lpn # None => Opening("flush")
  BY <1>1 DEF Place, Scanned
<1>7. QED BY <1>2, <1>3, <1>4, <1>5, <1>6

\* A call that moves on leaves the buffered page where it is.
LEMMA PlaceMoves ==
  ASSUME Kept, open, op.step # "bmt", op.step # "store", UNCHANGED still,
         Opening("flush") /\ buf.lpn # None => Grp(buf.lpn) \notin unscanned,
         op'.kind = "open" => op'.step = "erase" /\ buf.lpn # None,
         op'.step \in {"erase", "invalidate"} => flushing' \/ ~buf.dirty,
         op'.step = "store" => ~flushing' /\ ~buf.dirty
  PROVE  Place'
<1>1. /\ bBlkVbn = storedBBlk /\ Old = Cur
      /\ buf.lpn # None => Old.lpn = buf.lpn /\ Old.valid = buf.valid /\ Old.data = buf.data
      /\ buf.lpn = None /\ Old.lpn # None => dropped
      /\ Grp(Old.lpn) \in unscanned /\ Old.lpn # None => Opening("flush") /\ buf.lpn # None
  BY SameBlk
<1>2. Old' = Old /\ Cur' = Cur
  BY BlocksStill DEF still
<1>3. Place
  BY DEF Kept
<1>4. InBlock'
  BY <1>1, <1>2 DEF InBlock, still
<1>5. SameBlock'
  BY <1>1 DEF SameBlock, still
<1>6. GivenUp'
  BY <1>1, <1>2, <1>3 DEF Place, GivenUp, still
<1>7. Scanned'
  BY <1>1, <1>2, <1>3 DEF Place, Scanned, still
<1>8. Flushed'
  BY DEF Flushed, Opening, still
<1>9. Storing'
  BY <1>1 DEF Storing, still
<1>10. QED BY <1>4, <1>5, <1>6, <1>7, <1>8, <1>9 DEF Place

\* A call that moves on has no more to do than before.
LEMMA ToComeStill ==
  ASSUME ToCome, UNCHANGED still, writes' = writes, \A l \in Lpns : Ahead(l)' => Ahead(l)
  PROVE  ToCome'
BY DEF ToCome, still

\* A call that ends with its group leaves no half page behind.
LEMMA AlignedWhole ==
  ASSUME NEW k \in Nat, NEW t \in Nat, t + 1 = k * SecPerVPg
  PROVE  Whole(t)
<1> SUFFICES ASSUME NEW l \in Deletable, t + 1 \in l * SecPerVPg + 1 .. l * SecPerVPg + SecPerVPg - 1
             PROVE  FALSE
  BY DEF Whole
<1> DEFINE n == SecPerVPg
<1>1. n \in Nat \ {0} /\ l \in Nat
  BY SizesAssumption, RequestsAssumption, Sizes
<1>2. n * k = k * n /\ n * l = l * n /\ n * k \in Nat /\ n * l \in Nat
  BY <1>1
<1> HIDE DEF n
<1>3. CASE k <= l
  <2>1. n * k <= n * l
    BY <1>1, <1>3, Products
  <2>2. n * l + 1 <= n * k
    BY <1>1, <1>2 DEF n
  <2>3. QED BY <1>2, <2>1, <2>2
<1>4. CASE l + 1 <= k
  <2>1. n * (l + 1) <= n * k /\ n * (l + 1) = n * l + n
    <3>1. l + 1 \in Nat
      BY <1>1
    <3>2. QED BY <1>1, <1>4, <3>1, Products
  <2>2. n * k <= n * l + n - 1
    BY <1>1, <1>2 DEF n
  <2>3. QED BY <1>1, <1>2, <2>1, <2>2
<1>5. QED BY <1>1, <1>3, <1>4

\* A call of FSR_STL_WriteZone ends at the end of its group or of the request.
LEMMA ZoneCallWhole ==
  ASSUME NEW from \in Nat, NEW last \in Nat, Whole(last)
  PROVE  LET o == ZoneCall(from, last)
         IN  /\ Whole(o.to) /\ Whole(o.last) /\ o.last = last
             /\ o.to = o.last \/ \E k \in Nat : o.to + 1 = k * SecPerVPg
             /\ o.kind = "write" /\ o.step = "start" /\ o.lpn = from \div SecPerVPg
<1> DEFINE o == ZoneCall(from, last)
           q == from \div SctsPerBlk
           e == (q + 1) * SctsPerBlk - 1
<1>1. SctsPerBlk \in Nat \ {0} /\ SecPerVPg \in Nat \ {0} /\ PagesPerSBlk \in Nat \ {0}
  BY Sizes, SizesAssumption
<1>2. q \in Nat
  BY <1>1, DivIs
<1> HIDE DEF q
<1>3. (q + 1) * PagesPerSBlk \in Nat /\ (q + 1) * SctsPerBlk = ((q + 1) * PagesPerSBlk) * SecPerVPg
  BY <1>1, <1>2 DEF SctsPerBlk
<1>4. (q + 1) * SctsPerBlk \in Nat \ {0}
  BY <1>1, <1>2
<1>5. e \in Nat /\ e + 1 = ((q + 1) * PagesPerSBlk) * SecPerVPg
  BY <1>3, <1>4
<1>6. o.to = Min({last, e}) /\ o.last = last /\ o.kind = "write" /\ o.step = "start"
      /\ o.lpn = from \div SecPerVPg
  BY DEF ZoneCall, q
<1> HIDE DEF e, o
<1>7. o.to \in {last, e}
  BY <1>5, <1>6, MinOfTwo
<1>8. CASE o.to = last
  BY <1>6, <1>8 DEF o
<1>9. CASE o.to = e
  <2>1. \E k \in Nat : e + 1 = k * SecPerVPg
    BY <1>3, <1>5
  <2>2. Whole(e)
    BY <1>5, <2>1, AlignedWhole
  <2>3. QED BY <1>6, <1>9, <2>1, <2>2 DEF o
<1>10. QED BY <1>7, <1>8, <1>9

\* The incomplete last page of a sequential write is written from its start.
LEMMA LastPage ==
  ASSUME op \in Ops, InRange(op), SecPerVPg - 1 \notin Bits(op.lpn),
         op.to - op.from + 1 >= SecPerVPg, Whole(op.to)
  PROVE  Prefix(Bits(op.lpn)) /\ op.lpn \notin Deletable
<1> DEFINE a == op.from \div SecPerVPg
           b == op.to \div SecPerVPg
           l == op.lpn
           n == SecPerVPg
<1>1. /\ op.from \in Nat /\ op.to \in Nat /\ op.from <= op.to /\ n \in Nat \ {0}
      /\ l \in Lpns /\ l \in Nat
  BY SizesAssumption, WritesPage, Sizes DEF Ops, InRange
<1>2. /\ a \in Nat /\ n * a <= op.from /\ op.from < n * a + n
      /\ b \in Nat /\ n * b <= op.to
  BY <1>1, DivIs
<1>3. l \in a .. b
  BY DEF InRange
<1> HIDE DEF a, b, n, l
<1>4. n * a <= n * l /\ n * l <= n * b /\ n * l \in Nat /\ n * a \in Nat /\ n * b \in Nat
  BY <1>1, <1>2, <1>3, Products
<1>5. l * n = n * l
  BY <1>1
<1>6. n - 1 \in Secs /\ l * n + (n - 1) \notin op.from .. op.to
  BY <1>1 DEF Bits, Secs, n, l
<1>7. op.from < l * n + n /\ l * n <= op.to
  BY <1>1, <1>2, <1>4, <1>5
<1>8. op.to < l * n + n - 1
  BY <1>1, <1>4, <1>5, <1>6, <1>7
<1>9. op.from <= l * n
  <2>1. op.to - op.from + 1 >= n
    BY DEF n
  <2>2. QED BY <1>1, <1>4, <1>5, <1>8, <2>1
<1> DEFINE k == op.to - l * n
<1>10. k \in 0 .. n - 2 /\ k \in Secs
  BY <1>1, <1>4, <1>5, <1>7, <1>8 DEF Secs, n
<1>11. Bits(l) = 0 .. k
  <2>1. ASSUME NEW s \in Secs PROVE l * n + s \in op.from .. op.to <=> s \in 0 .. k
    <3>1. s \in Nat
      BY Sizes
    <3>2. QED BY <1>1, <1>4, <1>5, <1>9, <1>10, <3>1
  <2>2. 0 .. k \subseteq Secs
    BY <1>1, <1>10 DEF Secs, n
  <2>3. QED BY <2>1, <2>2 DEF Bits, n
<1>12. op.to + 1 \in l * n + 1 .. l * n + n - 1
  BY <1>1, <1>4, <1>5, <1>7, <1>8
<1>13. l \notin Deletable
  BY <1>12 DEF Whole, n
<1>14. QED BY <1>10, <1>11, <1>13 DEF Prefix, l

\* A write begins: nothing is as new as it.
LEMMA BeginWriteKept ==
  ASSUME Inv, Kept, BeginWrite, DeletesUnbuffered
  PROVE  Kept'
<1>1. /\ open /\ op.kind = "none" /\ op.step = "none" /\ writes' = writes + 1 /\ UNCHANGED still
      /\ flushing' = flushing
  BY DEF BeginWrite, flash, still, Kept, Calls, StepsOf
<1>2. PICK r \in Requests : op' = ZoneCall(r[1], r[1] + r[2] - 1)
  BY DEF BeginWrite
<1> DEFINE last == r[1] + r[2] - 1
           from == r[1]
<1>3. from \in Nat /\ last \in Nat /\ last + 1 = r[1] + r[2]
  BY RequestsAssumption
<1>4. Whole(last)
  BY <1>3 DEF DeletesUnbuffered, Whole
<1> HIDE DEF last, from
<1>5. op' = ZoneCall(from, last)
  BY <1>2 DEF last, from
<1>6. /\ op'.kind = "write" /\ op'.step = "start" /\ Whole(op'.to) /\ Whole(op'.last)
      /\ op'.to = op'.last \/ \E k \in Nat : op'.to + 1 = k * SecPerVPg
  BY <1>3, <1>4, <1>5, ZoneCallWhole
<1>7. Data0' /\ BufForm'
  <2>1. Trusted
    BY <1>1 DEF Trusted
  <2>2. QED BY <1>1, <1>6, <2>1, DataStill
<1>8. Past'
  BY <1>1, PastStill
<1>9. ToCome'
  <2>1. Past /\ Types
    BY DEF Kept, Inv
  <2> SUFFICES ASSUME NEW l \in Lpns, NEW s \in Secs
               PROVE  /\ map[l][s] < writes + 1
                      /\ buf.data[s] < writes + 1
                      /\ \A i \in Logged(pages[Grp(l)], stored[Grp(l)], l) :
                             pages[Grp(l)][i].data[s] < writes + 1
    BY <1>1 DEF ToCome, still
  <2>2. writes \in Nat /\ map[l][s] \in Nat /\ buf.data[s] \in Nat
    BY <2>1, Typed, SizesAssumption DEF Types, MapTypes
  <2>3. map[l][s] <= writes /\ buf.data[s] <= writes
    BY <2>1 DEF Past, UpTo
  <2>4. ASSUME NEW i \in Logged(pages[Grp(l)], stored[Grp(l)], l)
        PROVE  pages[Grp(l)][i].data[s] < writes + 1
    <3>1. Grp(l) \in Groups /\ pages[Grp(l)] \in Seq(LogPage) /\ stored[Grp(l)] \in Nat
      BY <2>1, Typed
    <3>2. i \in 1 .. Len(pages[Grp(l)]) /\ pages[Grp(l)][i].data[s] \in Nat
      BY <3>1, LogPages
    <3>3. pages[Grp(l)][i].data[s] <= writes
      BY <2>1, <3>1, <3>2 DEF Past, UpTo
    <3>4. QED BY <2>2, <3>2, <3>3
  <2>5. QED BY <2>2, <2>3, <2>4
<1>10. Place'
  BY <1>1, <1>6, PlaceMoves DEF Opening
<1>11. Calls'
  BY <1>6 DEF Calls, StepsOf, WriteWhole, ToBuffer, DeletesOne
<1>12. QED BY <1>7, <1>8, <1>9, <1>10, <1>11 DEF Kept

\* What a delete has put off is stored first.
LEMMA WriteStartKept ==
  ASSUME Inv, Inv', Kept, WriteStart
  PROVE  Kept'
<1>1. op.kind = "write" /\ op.step = "start" /\ ~flushing /\ open
  BY Opened DEF WriteStart, At
<1>2. CASE StoreDeletedInfo
  BY <1>1, <1>2, StoreDeletedStores, StoreStepKept
<1>3. CASE /\ delGrp = None
           /\ GoTo("page")
           /\ UNCHANGED <<flash, open, map, cp, unscanned, buf, bBlkVbn, delGrp, flushing, hist>>
  <2>1. /\ op'.step = "page" /\ op'.kind = "write" /\ op'.lpn = op.lpn
        /\ op'.to = op.to /\ op'.last = op.last
    BY <1>1, <1>3, StepIs DEF Inv, Types, CallTypes, Steps
  <2>2. UNCHANGED still /\ writes' = writes
    BY <1>3 DEF still, flash, hist
  <2>3. Data0' /\ BufForm'
    <3>1. Trusted
      BY <1>1 DEF Trusted
    <3>2. QED BY <2>1, <2>2, <3>1, DataStill
  <2>4. Past'
    BY <2>2, PastStill
  <2>5. ToCome'
    <3>1. \A l \in Lpns : Ahead(l)' => Ahead(l)
      BY <1>1, <2>1 DEF Ahead
    <3>2. QED BY <2>2, <3>1, ToComeStill DEF Kept
  <2>6. Place'
    BY <1>1, <2>1, <2>2, PlaceMoves DEF Opening
  <2>7. Calls'
    BY <1>1, <1>3, <2>1 DEF Kept, Calls, StepsOf, WriteWhole, Whole, ToBuffer, DeletesOne
  <2>8. QED BY <2>3, <2>4, <2>5, <2>6, <2>7 DEF Kept
<1>4. QED BY <1>2, <1>3 DEF WriteStart

\* A page goes to the buffer block: it is the last of its call, or it overwrites
\* what is buffered.
LEMMA WriteToBufferKept ==
  ASSUME Inv, Kept, WriteToBuffer
  PROVE  Kept'
<1>1. /\ op.kind = "write" /\ op.step = "page" /\ ~flushing /\ open
      /\ HasRoom(Grp(op.lpn)) /\ DetermineBufferWrite(op.lpn)
      /\ GoTo("buffer") /\ flushing' = (buf.dirty /\ buf.lpn # op.lpn)
      /\ UNCHANGED still /\ writes' = writes
  BY Opened DEF WriteToBuffer, At, still, flash, hist
<1>2. /\ op \in Ops /\ InRange(op)
      /\ op'.step = "buffer" /\ op'.kind = "write" /\ op'.lpn = op.lpn
      /\ op'.from = op.from /\ op'.to = op.to /\ op'.last = op.last
  BY <1>1, StepIs DEF Inv, Types, CallTypes, Steps, Ranged
<1>3. Data0' /\ BufForm'
  <2>1. Trusted /\ cp[Grp(op'.lpn)] < PagesPerSBlk
    BY <1>1, <1>2 DEF Trusted, HasRoom
  <2>2. QED BY <1>1, <1>2, <2>1, DataStill
<1>4. Past'
  BY <1>1, PastStill
<1>5. ToCome'
  <2>1. \A l \in Lpns : Ahead(l)' => Ahead(l)
    BY <1>1, <1>2 DEF Ahead
  <2>2. QED BY <1>1, <2>1, ToComeStill DEF Kept
<1>6. Place'
  BY <1>1, <1>2, PlaceMoves DEF Opening
<1>7. ToBuffer'
  <2>1. Bits(op.lpn)' = Bits(op.lpn)
    BY <1>2 DEF Bits
  <2>2. buf' = buf
    BY <1>1 DEF still
  <2>3. flushing' = FALSE \/ flushing' = TRUE
    BY <1>1
  <2>4. CASE op.lpn = buf.lpn /\ Bits(op.lpn) \cap buf.valid # {}
    <3>1. buf.lpn # None
      BY <1>2, <2>4, WritesPage, Sizes
    <3>2. op.lpn \notin Deletable
      BY <2>4, <3>1 DEF Kept, BufForm, Good
    <3>3. ~flushing'
      BY <1>1, <2>4
    <3>4. QED BY <1>2, <2>1, <2>2, <2>4, <3>2, <3>3 DEF ToBuffer, Bits
  <2>5. CASE /\ SecPerVPg - 1 \notin Bits(op.lpn)
             /\ op.to - op.from + 1 >= SecPerVPg
    <3>1. Whole(op.to)
      BY <1>1 DEF Kept, Calls, WriteWhole
    <3>2. Prefix(Bits(op.lpn)) /\ op.lpn \notin Deletable
      BY <1>2, <2>5, <3>1, LastPage
    <3>3. ~flushing' /\ buf.dirty => buf.lpn = op.lpn
      BY <1>1
    <3>4. Prefix(Bits(op.lpn))'
      BY <2>1, <3>2 DEF Prefix
    <3>5. QED BY <1>2, <2>2, <3>2, <3>3, <3>4 DEF ToBuffer
  <2>6. QED BY <1>1, <2>4, <2>5 DEF DetermineBufferWrite
<1>8. StepsOf' /\ DeletesOne'
  BY <1>2 DEF StepsOf, DeletesOne
<1>9. WriteWhole'
  BY <1>1, <1>2 DEF Kept, Calls, WriteWhole, Whole, still
<1>10. QED BY <1>3, <1>4, <1>5, <1>6, <1>7, <1>8, <1>9 DEF Kept, Calls

\* An eviction has the buffered page flushed.
LEMMA EvictFlushKept ==
  ASSUME Inv, Kept, EvictFlush
  PROVE  Kept'
<1>1. /\ op.kind = "write" /\ op.step = "page" /\ open /\ flushing' /\ op' = op
      /\ UNCHANGED still /\ writes' = writes
  BY Opened DEF EvictFlush, WantsSlot, still, flash, hist
<1>2. Data0' /\ BufForm'
  <2>1. Trusted
    BY <1>1 DEF Trusted
  <2>2. QED BY <1>1, <2>1, DataStill
<1>3. Past'
  BY <1>1, PastStill
<1>4. ToCome'
  <2>1. \A l \in Lpns : Ahead(l)' => Ahead(l)
    BY <1>1 DEF Ahead
  <2>2. QED BY <1>1, <2>1, ToComeStill DEF Kept
<1>5. Place'
  BY <1>1, PlaceMoves DEF Opening
<1>6. Calls'
  BY <1>1 DEF Kept, Calls, StepsOf, WriteWhole, Whole, ToBuffer, DeletesOne, still
<1>7. QED BY <1>2, <1>3, <1>4, <1>5, <1>6 DEF Kept

\* At the end of its group the call goes on with the next group.
LEMMA NextGroupAhead ==
  ASSUME op \in Ops, InRange(op), op.to # op.last, NEW k \in Nat, op.to + 1 = k * SecPerVPg,
         NEW l \in Lpns, l >= (op.to + 1) \div SecPerVPg
  PROVE  l > op.lpn
<1> DEFINE n == SecPerVPg
           b == op.to \div n
<1>1. n \in Nat \ {0} /\ op.to \in Nat /\ l \in Nat /\ op.lpn \in Nat /\ op.from \in Nat
  BY SizesAssumption, WritesPage, Sizes DEF Ops
<1>2. b \in Nat /\ n * b <= op.to /\ op.to < n * b + n
  BY <1>1, DivIs
<1>3. op.lpn <= b
  <2>1. op.from \div n \in Nat
    BY <1>1, DivIs
  <2>2. QED BY <1>1, <1>2, <2>1 DEF InRange
<1> HIDE DEF b
<1>4. op.to + 1 = n * k
  BY <1>1
<1>5. b < k
  <2>1. SUFFICES ASSUME k <= b PROVE FALSE
    BY <1>2
  <2>2. n * k <= n * b /\ n * k \in Nat /\ n * b \in Nat
    BY <1>1, <1>2, <2>1, Products
  <2>3. QED BY <1>1, <1>2, <1>4, <2>2
<1>6. (op.to + 1) \div n = k
  <2> DEFINE t == op.to + 1
  <2>1. t \in Nat /\ n * k <= t /\ t < n * k + n /\ n * k \in Nat
    BY <1>1, <1>4
  <2> HIDE DEF t
  <2>2. t \div n = k
    BY <1>1, <2>1, DivUnique
  <2>3. QED BY <2>2 DEF t
<1>7. QED BY <1>1, <1>2, <1>3, <1>5, <1>6

\* The next group of the request, or its end.
LEMMA EndOfGroupKept ==
  ASSUME Inv, Kept, EndOfGroup
  PROVE  Kept'
<1>1. /\ op.kind = "write" /\ op.step = "reserve" /\ ~flushing /\ flushing' = flushing /\ open
      /\ op' = IF op.to = op.last THEN Idle ELSE ZoneCall(op.to + 1, op.last)
      /\ UNCHANGED still /\ writes' = writes
  BY Opened DEF EndOfGroup, At, still, flash, hist
<1>2. op \in Ops /\ InRange(op) /\ WriteWhole
  BY <1>1 DEF Inv, Types, CallTypes, Ranged, Kept, Calls
<1>3. CASE op.to = op.last
  <2>1. op'.kind = "none" /\ op'.step = "none"
    BY <1>1, <1>3, IdleType
  <2>2. Data0' /\ BufForm'
    <3>1. Trusted
      BY <1>1 DEF Trusted
    <3>2. QED BY <1>1, <2>1, <3>1, DataStill
  <2>3. Past'
    BY <1>1, PastStill
  <2>4. ToCome'
    BY <2>1 DEF ToCome, Ahead
  <2>5. Place'
    BY <1>1, <2>1, PlaceMoves DEF Opening
  <2>6. Calls'
    BY <2>1 DEF Calls, StepsOf, WriteWhole, ToBuffer, DeletesOne
  <2>7. QED BY <2>2, <2>3, <2>4, <2>5, <2>6 DEF Kept
<1>4. CASE op.to # op.last
  <2> DEFINE from == op.to + 1
  <2>1. from \in Nat /\ op.last \in Nat /\ Whole(op.last) /\ op' = ZoneCall(from, op.last)
    BY <1>1, <1>2, <1>4 DEF Ops, WriteWhole
  <2>2. PICK k \in Nat : op.to + 1 = k * SecPerVPg
    BY <1>1, <1>2, <1>4 DEF WriteWhole
  <2> HIDE DEF from
  <2>3. /\ op'.kind = "write" /\ op'.step = "start" /\ Whole(op'.to) /\ Whole(op'.last)
        /\ op'.to = op'.last \/ \E j \in Nat : op'.to + 1 = j * SecPerVPg
        /\ op'.lpn = from \div SecPerVPg
    BY <2>1, ZoneCallWhole
  <2>4. Data0' /\ BufForm'
    <3>1. Trusted
      BY <1>1 DEF Trusted
    <3>2. QED BY <1>1, <2>3, <3>1, DataStill
  <2>5. Past'
    BY <1>1, PastStill
  <2>6. ToCome'
    <3>1. ASSUME NEW l \in Lpns, Ahead(l)' PROVE Ahead(l)
      <4>1. l > op'.lpn \/ l = op'.lpn
        BY <3>1 DEF Ahead
      <4>2. from \div SecPerVPg \in Nat /\ l \in Nat
        BY <2>1, SizesAssumption, Sizes, DivIs
      <4>3. l >= (op.to + 1) \div SecPerVPg
        BY <2>3, <4>1, <4>2 DEF from
      <4>4. l > op.lpn
        BY <1>2, <1>4, <2>2, <4>3, NextGroupAhead
      <4>5. QED BY <1>1, <4>4 DEF Ahead
    <3>2. QED BY <1>1, <3>1, ToComeStill DEF Kept
  <2>7. Place'
    BY <1>1, <2>3, PlaceMoves DEF Opening
  <2>8. Calls'
    BY <2>3 DEF Calls, StepsOf, WriteWhole, ToBuffer, DeletesOne
  <2>9. QED BY <2>4, <2>5, <2>6, <2>7, <2>8 DEF Kept
<1>5. QED BY <1>3, <1>4

\* A delete begins; it has another buffered page flushed.
LEMMA BeginDeleteKept ==
  ASSUME Inv, Kept, NEW l \in Deletable, BeginDelete(l)
  PROVE  Kept'
<1>1. /\ open /\ op.kind = "none" /\ op.step = "none" /\ flushing' = (buf.dirty /\ buf.lpn # l)
      /\ op' = [Idle EXCEPT !.kind = "delete", !.lpn = l,
                            !.step = IF flushing' THEN "invalidate" ELSE "map"]
      /\ UNCHANGED still /\ writes' = writes
  BY DEF BeginDelete, still, flash, hist, Kept, Calls, StepsOf
<1>2. /\ op'.kind = "delete" /\ op'.lpn = l /\ op'.step \in {"invalidate", "map"}
      /\ op'.step = "invalidate" => flushing'
  BY <1>1 DEF Idle
<1>3. Data0' /\ BufForm'
  <2>1. Trusted
    BY <1>1 DEF Trusted
  <2>2. QED BY <1>1, <1>2, <2>1, DataStill
<1>4. Past'
  BY <1>1, PastStill
<1>5. ToCome'
  BY <1>2 DEF ToCome, Ahead
<1>6. Place'
  BY <1>1, <1>2, PlaceMoves DEF Opening
<1>7. Calls'
  BY <1>2 DEF Calls, StepsOf, WriteWhole, ToBuffer, DeletesOne
<1>8. QED BY <1>3, <1>4, <1>5, <1>6, <1>7 DEF Kept

\* A close begins.
LEMMA BeginCloseKept ==
  ASSUME Inv, Kept, BeginClose
  PROVE  Kept'
<1>1. /\ open /\ op.kind = "none" /\ op.step = "none"
      /\ op' = [Idle EXCEPT !.kind = "close", !.step = "start"]
      /\ UNCHANGED still /\ writes' = writes
  BY DEF BeginClose, still, flash, hist, Kept, Calls, StepsOf
<1>2. op'.kind = "close" /\ op'.step = "start"
  BY <1>1 DEF Idle
<1>3. Data0' /\ BufForm'
  <2>1. Trusted
    BY <1>1 DEF Trusted
  <2>2. QED BY <1>1, <1>2, <2>1, DataStill
<1>4. Past'
  BY <1>1, PastStill
<1>5. ToCome'
  BY <1>2 DEF ToCome, Ahead
<1>6. Place'
  BY <1>1, <1>2, PlaceMoves DEF Opening
<1>7. Calls'
  BY <1>2 DEF Calls, StepsOf, WriteWhole, ToBuffer, DeletesOne
<1>8. QED BY <1>3, <1>4, <1>5, <1>6, <1>7 DEF Kept

\* A close has the buffered page flushed.
LEMMA CloseStartKept ==
  ASSUME Inv, Inv', Kept, CloseStart
  PROVE  Kept'
<1>1. op.kind = "close" /\ op.step = "start" /\ ~flushing /\ open
  BY Opened DEF CloseStart, At
<1>2. CASE StoreDeletedInfo
  BY <1>1, <1>2, StoreDeletedStores, StoreStepKept
<1>3. CASE /\ flushing' = buf.dirty
           /\ GoTo(IF buf.dirty \/ buf.cp \in 1 .. BufPages - 1 THEN "erase" ELSE "store")
           /\ UNCHANGED <<flash, open, map, cp, unscanned, buf, bBlkVbn, delGrp, hist>>
  <2>1. PICK step \in {"erase", "store"} : GoTo(step) /\ (buf.dirty => step = "erase")
    BY <1>3
  <2>2. op'.step = step /\ op'.kind = "close"
    BY <1>1, <2>1, StepIs DEF Inv, Types, CallTypes, Steps
  <2>3. UNCHANGED still /\ writes' = writes
    BY <1>3 DEF still, flash, hist
  <2>4. Data0' /\ BufForm'
    <3>1. Trusted
      BY <1>1 DEF Trusted
    <3>2. QED BY <2>2, <2>3, <3>1, DataStill
  <2>5. Past'
    BY <2>3, PastStill
  <2>6. ToCome'
    BY <2>2 DEF ToCome, Ahead
  <2>7. Place'
    BY <1>1, <1>3, <2>1, <2>2, <2>3, PlaceMoves DEF Opening
  <2>8. Calls'
    BY <2>2 DEF Calls, StepsOf, WriteWhole, ToBuffer, DeletesOne
  <2>9. QED BY <2>4, <2>5, <2>6, <2>7, <2>8 DEF Kept
<1>4. QED BY <1>2, <1>3 DEF CloseStart

\* A read stores what a delete has put off.
LEMMA ReadStartKept ==
  ASSUME Inv, Inv', Kept, ReadStart
  PROVE  Kept'
<1>1. open /\ op.kind = "none" /\ StoreDeletedInfo
  BY DEF ReadStart
<1>2. op.step = "none"
  BY <1>1 DEF Kept, Calls, StepsOf
<1>3. QED BY <1>1, <1>2, StoreDeletedStores, StoreStepKept

\* An open has the buffered page flushed.
LEMMA OpenFlushKept ==
  ASSUME Inv, Kept, OpenFlush
  PROVE  Kept'
<1>1. /\ op.kind = "open" /\ op.step = "flush" /\ flushing' = buf.dirty /\ open
      /\ buf.lpn # None => Grp(buf.lpn) \notin unscanned
      /\ IF buf.dirty THEN GoTo("erase") ELSE op' = Idle
      /\ UNCHANGED still /\ writes' = writes
  BY Opened DEF OpenFlush, At, still, flash, hist
<1>2. /\ buf.dirty => op'.kind = "open" /\ op'.step = "erase"
      /\ ~buf.dirty => op'.kind = "none" /\ op'.step = "none"
  <2>1. CASE buf.dirty
    BY <1>1, <2>1, StepIs DEF Inv, Types, CallTypes, Steps
  <2>2. CASE ~buf.dirty
    BY <1>1, <2>2, IdleType
  <2>3. QED BY <2>1, <2>2
<1>3. buf.dirty => buf.lpn # None
  BY Sizes DEF Inv, Types, CallTypes
<1>4. Data0' /\ BufForm'
  <2>1. Trusted' => Trusted \/ ~buf.dirty
    BY <1>1, <1>2 DEF Trusted, still
  <2>2. QED BY <1>1, <1>2, <2>1, DataStill
<1>5. Past'
  BY <1>1, PastStill
<1>6. ToCome'
  BY <1>2 DEF ToCome, Ahead
<1>7. Place'
  <2>1. CASE buf.dirty
    BY <1>1, <1>2, <1>3, <2>1, PlaceMoves DEF Opening
  <2>2. CASE ~buf.dirty
    BY <1>1, <1>2, <2>2, PlaceMoves DEF Opening
  <2>3. QED BY <2>1, <2>2
<1>8. Calls'
  BY <1>2 DEF Calls, StepsOf, WriteWhole, ToBuffer, DeletesOne
<1>9. QED BY <1>4, <1>5, <1>6, <1>7, <1>8 DEF Kept
-----------------------------------------------------------------------------
(***************************************************************************)
(* The power goes off.                                                     *)
(***************************************************************************)
\* Nothing is left in RAM; of the flash the parts that a torn page changes are
\* to be shown.
LEMMA OffKept ==
  ASSUME Inv, Kept, Off, UNCHANGED <<stored, pmt, storedBBlk, writes, secured, dropped, reverted>>,
         LogsClean',
         \A l \in Lpns \ reverted, s \in Secs : Rising(l, s)' /\ Safe(l, s)',
         Old'.lpn \in Lpns \ reverted => (OldHeld \/ OldNewer)' /\ (~dropped => OldTops'),
         \A k \in {1, 2} : \A i \in 1 .. Len(bblk'[k]) :
             /\ bblk'[k][i].lpn # None => Good(bblk'[k][i])
             /\ UpTo(bblk'[k][i].data, writes),
         \A g \in Groups : \A i \in 1 .. Len(pages'[g]) : UpTo(pages'[g][i].data, writes)
  PROVE  Kept'
<1>1. /\ open' = FALSE /\ map' = [l \in Lpns |-> Blank] /\ buf' = NoBuf(0) /\ op' = Idle
  BY DEF Off
<1>2. op'.kind = "none" /\ op'.step = "none" /\ buf'.lpn = None /\ ~buf'.dirty /\ buf'.data = Blank
  BY <1>1, IdleType DEF NoBuf
<1>3. PagesKept'
  <2> SUFFICES ASSUME NEW l \in Lpns \ reverted, NEW s \in Secs PROVE PageKept(l, s)'
    BY DEF PagesKept
  <2>1. Rising(l, s)' /\ Safe(l, s)'
    OBVIOUS
  <2>2. Mapped(l, s)' /\ Covered(l, s)'
    BY <1>1 DEF Mapped, Covered
  <2>3. Traced(l, s)' /\ Newest(l, s)'
    BY <1>1 DEF Traced, Newest, Live
  <2>4. QED BY <2>1, <2>2, <2>3 DEF PageKept
<1>4. OldKept'
  BY <1>1 DEF OldKept
<1>5. BufClean' /\ BufNewest' /\ BufTops' /\ Unread' /\ Behind'
  BY <1>1 DEF BufClean, BufNewest, BufTops, Unread, Behind
<1>6. BufForm'
  BY <1>1, <1>2 DEF BufForm
<1>7. Past'
  <2>1. UpTo(Blank, writes)
    BY SizesAssumption DEF UpTo, Blank, Inv, Types, MapTypes
  <2>2. \A l \in Lpns : UpTo(map'[l], writes) /\ UpTo(pmt[l], writes) /\ UpTo(secured[l], writes)
    BY <1>1, <2>1 DEF Kept, Past
  <2>3. QED BY <1>2, <2>1, <2>2 DEF Past
<1>8. ToCome' /\ Place' /\ Calls'
  BY <1>1, <1>2 DEF ToCome, Ahead, Place, Calls, StepsOf, WriteWhole, ToBuffer, DeletesOne
<1>9. QED BY <1>3, <1>4, <1>5, <1>6, <1>7, <1>8 DEF Kept, Data0

\* A page is programmed to a log: what is so of the other pages stays so.
LEMMA OtherPage ==
  ASSUME Types, NEW g \in Groups, NEW p \in LogPage, pages' = [pages EXCEPT ![g] = Append(@, p)],
         UNCHANGED <<stored, pmt>>, NEW l \in Lpns, p.lpn # l
  PROVE  /\ \A s \in Secs : Rising(l, s) => Rising(l, s)'
         /\ \A s \in Secs, x \in Nat :
              /\ Held(pages[Grp(l)], stored[Grp(l)], pmt[l], l, s, x) =>
                     Held(pages'[Grp(l)], stored'[Grp(l)], pmt'[l], l, s, x)
              /\ Traces(pages[Grp(l)], stored[Grp(l)], pmt[l], l, s, x) =>
                     Traces(pages'[Grp(l)], stored'[Grp(l)], pmt'[l], l, s, x)
              /\ Tops(pages[Grp(l)], stored[Grp(l)], pmt[l], l, s, x) =>
                     Tops(pages'[Grp(l)], stored'[Grp(l)], pmt'[l], l, s, x)
         /\ \A v, d : Overtakes(pages[Grp(l)], stored[Grp(l)], l, v, d) =>
                          Overtakes(pages'[Grp(l)], stored'[Grp(l)], l, v, d)
<1> DEFINE h == Grp(l)
           ps == pages[h]
           n == stored[h]
           m == pmt[l]
<1>1. h \in Groups /\ ps \in Seq(LogPage) /\ n \in Nat /\ m \in Data
  BY Typed
<1>2. pages'[h] = (IF h = g THEN Append(ps, p) ELSE ps) /\ stored'[h] = n /\ pmt'[l] = m
  BY <1>1 DEF Types, LogTypes
<1>3. CASE h # g
  <2>1. pages'[h] = ps
    BY <1>2, <1>3
  <2> HIDE DEF ps, n, m
  <2>2. QED BY <1>2, <2>1 DEF ps, n, m, Rising
<1>4. CASE h = g
  <2>1. pages'[h] = Append(ps, p)
    BY <1>2, <1>4
  <2> HIDE DEF ps, n, m
  <2>2. \A s \in Secs : Rises(ps, n, m, l, s) => Rises(Append(ps, p), n, m, l, s)
    BY <1>1, AppendRises
  <2>3. \A s \in Secs, x \in Nat : Held(ps, n, m, l, s, x) => Held(Append(ps, p), n, m, l, s, x)
    BY <1>1, AppendHolds
  <2>4. \A s \in Secs, x \in Nat : Traces(ps, n, m, l, s, x) => Traces(Append(ps, p), n, m, l, s, x)
    BY <1>1, AppendHolds
  <2>5. \A s \in Secs, x \in Nat : Tops(ps, n, m, l, s, x) => Tops(Append(ps, p), n, m, l, s, x)
    BY <1>1, AppendTops
  <2>6. \A v, d : Overtakes(ps, n, l, v, d) => Overtakes(Append(ps, p), n, l, v, d)
    BY <1>1, AppendOvertakes
  <2>7. \A s \in Secs : Rising(l, s) => Rising(l, s)'
    BY <1>2, <2>1, <2>2 DEF Rising, ps, n, m
  <2>8. QED BY <1>2, <2>1, <2>3, <2>4, <2>5, <2>6, <2>7 DEF ps, n, m
<1>5. QED BY <1>3, <1>4

\* The pages of the logs after one is programmed.
LEMMA LogsAfter ==
  ASSUME Types, NEW g \in Groups, NEW p \in LogPage, pages' = [pages EXCEPT ![g] = Append(@, p)],
         LogsClean, p.lpn # None => Grp(p.lpn) = g, p.confirm => p.lpn # None,
         NEW n, UpTo(p.data, n),
         \A h \in Groups : \A i \in 1 .. Len(pages[h]) : UpTo(pages[h][i].data, n)
  PROVE  /\ LogsClean'
         /\ \A h \in Groups : \A i \in 1 .. Len(pages'[h]) : UpTo(pages'[h][i].data, n)
<1>1. ASSUME NEW h \in Groups, NEW i \in 1 .. Len(pages'[h])
      PROVE  (i \in 1 .. Len(pages[h]) /\ pages'[h][i] = pages[h][i]) \/ (h = g /\ pages'[h][i] = p)
  <2>1. pages[h] \in Seq(LogPage) /\ pages'[h] = IF h = g THEN Append(pages[h], p) ELSE pages[h]
    BY DEF Types, LogTypes
  <2>2. CASE h # g
    BY <2>1, <2>2
  <2>3. CASE h = g
    <3>1. pages'[h] = Append(pages[h], p)
      BY <2>1, <2>3
    <3>2. QED BY <2>1, <2>3, <3>1, <1>1
  <2>4. QED BY <2>2, <2>3
<1>2. LogsClean'
  <2> SUFFICES ASSUME NEW h \in Groups, NEW i \in 1 .. Len(pages'[h])
               PROVE  /\ pages'[h][i].lpn # None => Grp(pages'[h][i].lpn) = h
                      /\ pages'[h][i].confirm => pages'[h][i].lpn # None
    BY DEF LogsClean
  <2>1. QED BY <1>1 DEF LogsClean
<1>3. QED BY <1>1, <1>2

\* The power goes off in the program of a log page.
LEMMA TornKept ==
  ASSUME Inv, Kept, NEW g \in Groups, TornLogPage(g)
  PROVE  Kept'
<1>1. /\ Off /\ pages' = [pages EXCEPT ![g] = Append(@, Torn)]
      /\ UNCHANGED <<active, stored, pmt, bblk, storedBBlk, writes, secured, dropped, reverted>>
  BY DEF TornLogPage
<1>2. Torn \in LogPage /\ Torn.lpn = None /\ ~Torn.confirm /\ Torn.data = Blank
  BY TornType DEF Torn
<1>3. Types /\ LogsClean /\ Past /\ OldKept /\ PagesKept /\ BufForm
  BY DEF Inv, Kept, Data0
<1>4. Old' = Old
  BY <1>1, BlocksStill
<1>5. LogsClean' /\ \A h \in Groups : \A i \in 1 .. Len(pages'[h]) : UpTo(pages'[h][i].data, writes)
  <2>1. UpTo(Blank, writes)
    BY <1>3, SizesAssumption DEF UpTo, Blank, Types, MapTypes
  <2>2. QED BY <1>1, <1>2, <1>3, <2>1, LogsAfter DEF Past
<1>6. \A l \in Lpns \ reverted, s \in Secs : Rising(l, s)' /\ Safe(l, s)'
  <2> SUFFICES ASSUME NEW l \in Lpns \ reverted, NEW s \in Secs PROVE Rising(l, s)' /\ Safe(l, s)'
    OBVIOUS
  <2>1. Rising(l, s) /\ Safe(l, s) /\ secured[l][s] \in Nat /\ Torn.lpn # l
    BY <1>2, <1>3, Typed DEF PagesKept, PageKept
  <2>2. Rising(l, s)'
    BY <1>1, <1>2, <1>3, <2>1, OtherPage
  <2>3. Held(pages[Grp(l)], stored[Grp(l)], pmt[l], l, s, secured[l][s]) =>
          Held(pages'[Grp(l)], stored'[Grp(l)], pmt'[l], l, s, secured[l][s])
    BY <1>1, <1>2, <1>3, <2>1, OtherPage
  <2>4. Safe(l, s)'
    BY <1>1, <1>4, <2>1, <2>3 DEF Safe
  <2>5. QED BY <2>2, <2>4
<1>7. Old'.lpn \in Lpns \ reverted => (OldHeld \/ OldNewer)' /\ (~dropped => OldTops')
  <2> SUFFICES ASSUME Old.lpn \in Lpns \ reverted
               PROVE  (OldHeld \/ OldNewer)' /\ (~dropped => OldTops')
    BY <1>4
  <2> DEFINE l == Old.lpn
  <2>1. /\ (OldHeld \/ OldNewer) /\ (~dropped => OldTops) /\ Old.valid \subseteq Secs
        /\ \A s \in Secs : Old.data[s] \in Nat /\ secured[l][s] \in Nat
    BY <1>3, BufTyped, Typed DEF OldKept
  <2>2. Torn.lpn # l
    BY <1>2, Sizes
  <2>3. \A s \in Secs, x \in Nat :
              /\ Held(pages[Grp(l)], stored[Grp(l)], pmt[l], l, s, x) =>
                     Held(pages'[Grp(l)], stored'[Grp(l)], pmt'[l], l, s, x)
              /\ Tops(pages[Grp(l)], stored[Grp(l)], pmt[l], l, s, x) =>
                     Tops(pages'[Grp(l)], stored'[Grp(l)], pmt'[l], l, s, x)
    BY <1>1, <1>2, <1>3, <2>2, OtherPage
  <2>4. \A v, d : Overtakes(pages[Grp(l)], stored[Grp(l)], l, v, d) =>
                          Overtakes(pages'[Grp(l)], stored'[Grp(l)], l, v, d)
    BY <1>1, <1>2, <1>3, <2>2, OtherPage
  <2>5. OldHeld => OldHeld'
    BY <1>1, <1>4, <2>1, <2>3 DEF OldHeld
  <2>6. OldNewer => OldNewer'
    BY <1>1, <1>4, <2>4 DEF OldNewer
  <2>7. OldTops => OldTops'
    BY <1>1, <1>4, <2>1, <2>3 DEF OldTops
  <2>8. QED BY <2>1, <2>5, <2>6, <2>7
<1>8. \A k \in {1, 2} : \A i \in 1 .. Len(bblk'[k]) :
             /\ bblk'[k][i].lpn # None => Good(bblk'[k][i])
             /\ UpTo(bblk'[k][i].data, writes)
  BY <1>1, <1>3 DEF Past, BufForm
<1>9. QED BY <1>1, <1>5, <1>6, <1>7, <1>8, OffKept

\* The flash is as it was.
LEMMA FlashKept ==
  ASSUME Inv, Kept, Off, UNCHANGED <<flash, writes, secured, dropped, reverted>>
  PROVE  Kept'
<1>1. UNCHANGED <<pages, stored, pmt, bblk, storedBBlk>>
  BY DEF flash
<1>2. Old' = Old
  BY <1>1, BlocksStill
<1>3. LogsClean'
  BY <1>1 DEF Kept, Data0, LogsClean
<1>4. \A l \in Lpns \ reverted, s \in Secs : Rising(l, s)' /\ Safe(l, s)'
  BY <1>1, <1>2 DEF Kept, Data0, PagesKept, PageKept, Rising, Safe
<1>5. Old'.lpn \in Lpns \ reverted => (OldHeld \/ OldNewer)' /\ (~dropped => OldTops')
  BY <1>1, <1>2 DEF Kept, Data0, OldKept, OldHeld, OldNewer, OldTops
<1>6. \A k \in {1, 2} : \A i \in 1 .. Len(bblk'[k]) :
             /\ bblk'[k][i].lpn # None => Good(bblk'[k][i])
             /\ UpTo(bblk'[k][i].data, writes)
  BY <1>1 DEF Kept, Past, BufForm
<1>7. \A g \in Groups : \A i \in 1 .. Len(pages'[g]) : UpTo(pages'[g][i].data, writes)
  BY <1>1 DEF Kept, Past
<1>8. QED BY <1>1, <1>3, <1>4, <1>5, <1>6, <1>7, OffKept

\* The power goes off between two steps, or a close is done.
LEMMA PowerLossKept ==
  ASSUME Inv, Kept, PowerLoss \/ CloseDone
  PROVE  Kept'
BY FlashKept DEF PowerLoss, CloseDone, hist
-----------------------------------------------------------------------------
(***************************************************************************)
(* A page is programmed to the log of its group.                           *)
(***************************************************************************)
\* Page p, as new as everything known of it and with the buffered sectors, goes
\* to the log; what is buffered of it need not be flushed any more.
Programs(g, p) ==
    /\ ProgramLogPage(g, p)
    /\ p \in LogPage /\ p.lpn \in Lpns /\ Grp(p.lpn) = g
    /\ HasRoom(g) /\ g \notin unscanned /\ ~Deleting(p.lpn)
    /\ UpTo(p.data, writes)
    /\ p.lpn \notin reverted' =>
         \A s \in Secs : map[p.lpn][s] <= p.data[s] /\ secured[p.lpn][s] <= p.data[s]
    /\ buf.lpn = p.lpn => \A s \in buf.valid : p.data[s] = buf.data[s]
    /\ buf.lpn = p.lpn /\ buf.dirty => p.confirm
    /\ buf'.dirty <=> buf.dirty /\ buf.lpn # p.lpn
    /\ buf'.lpn = buf.lpn /\ buf'.valid = buf.valid /\ buf'.data = buf.data /\ buf'.cp = buf.cp
    /\ secured' = IF p.confirm THEN Secure(g, map', buf') ELSE secured
    /\ reverted \subseteq reverted' /\ reverted' \subseteq reverted \cup {p.lpn}
    /\ UNCHANGED <<active, stored, pmt, bblk, storedBBlk, open, unscanned, bBlkVbn, delGrp,
                   writes, dropped>>
    /\ op'.kind = op.kind /\ op'.step # "bmt"
    /\ op'.kind = "write" /\ op'.step = "buffer" => op' = op

\* What is known of the state before.
LEMMA ProgramFrom ==
  ASSUME Inv, Kept, open, NEW g \in Groups, NEW p, Programs(g, p)
  PROVE  /\ pages' = [pages EXCEPT ![g] = Append(@, p)] /\ pages'[g] = Append(pages[g], p)
         /\ p \in LogPage /\ UNCHANGED <<stored, pmt>>
         /\ \A h \in Groups : h # g => pages'[h] = pages[h]
         /\ map'[p.lpn] = p.data /\ \A l \in Lpns : l # p.lpn => map'[l] = map[l]
         /\ cp'[g] = cp[g] + 1 /\ \A h \in Groups : h # g => cp'[h] = cp[h]
         /\ Live(g) /\ stored[g] <= Len(pages[g]) /\ stored[g] \in Nat /\ cp[g] \in Nat
         /\ pages[g] \in Seq(LogPage)
         /\ Old' = Old /\ Cur' = Cur
         /\ \A h \in Groups : Live(h)' => Live(h)
<1>1. /\ pages' = [pages EXCEPT ![g] = Append(@, p)]
      /\ cp' = [cp EXCEPT ![g] = @ + 1]
      /\ map' = [map EXCEPT ![p.lpn] = p.data]
      /\ p \in LogPage /\ p.lpn \in Lpns
  BY DEF Programs, ProgramLogPage
<1>2. /\ pages \in [Groups -> Seq(LogPage)] /\ cp \in [Groups -> 0 .. PagesPerSBlk]
      /\ stored \in [Groups -> 0 .. PagesPerSBlk] /\ map \in [Lpns -> Data]
  BY DEF Inv, Types, LogTypes, MapTypes
<1>3. pages'[g] = Append(pages[g], p) /\ \A h \in Groups : h # g => pages'[h] = pages[h]
  BY <1>1, <1>2
<1>4. map'[p.lpn] = p.data /\ \A l \in Lpns : l # p.lpn => map'[l] = map[l]
  BY <1>1, <1>2
<1>5. cp'[g] = cp[g] + 1 /\ (\A h \in Groups : h # g => cp'[h] = cp[h]) /\ cp[g] \in Nat
  BY <1>1, <1>2
<1>6. g \in active /\ cp[g] < PagesPerSBlk /\ g \notin unscanned
  BY DEF Programs, HasRoom
<1>7. Live(g)
  BY <1>6 DEF Live
<1>8. stored[g] <= Len(pages[g]) /\ stored[g] \in Nat
  <2>1. Len(pages[g]) = cp[g]
    BY <1>6 DEF Inv, Ends
  <2>2. stored[g] <= cp[g]
    BY <1>6 DEF Kept, Data0, Behind
  <2>3. QED BY <1>2, <2>1, <2>2
<1>9. Old' = Old /\ Cur' = Cur
  BY BlocksStill DEF Programs
<1>10. \A h \in Groups : Live(h)' => Live(h)
  <2> SUFFICES ASSUME NEW h \in Groups, Live(h)' PROVE Live(h)
    OBVIOUS
  <2>1. CASE h = g
    BY <1>7, <2>1
  <2>2. CASE h # g
    BY <1>5, <2>2 DEF Live, Programs
  <2>3. QED BY <2>1, <2>2
<1>11. UNCHANGED <<stored, pmt>>
  BY DEF Programs
<1>12. QED BY <1>1, <1>2, <1>3, <1>4, <1>5, <1>7, <1>8, <1>9, <1>10, <1>11

\* What is secured of a page afterwards.
LEMMA ProgramSecures ==
  ASSUME Inv, Inv', Kept, open, NEW g \in Groups, NEW p, Programs(g, p),
         NEW l \in Lpns, NEW s \in Secs
  PROVE  /\ Grp(l) # g => secured'[l][s] = secured[l][s]
         /\ ~p.confirm => secured'[l][s] = secured[l][s]
         /\ secured'[l][s] \in {secured[l][s], IF Buffered(l, s)' THEN buf.data[s] ELSE map'[l][s]}
<1>1. map' \in [Lpns -> Data] /\ buf' \in Bufs /\ secured \in [Lpns -> Data]
  BY DEF Inv, Types, MapTypes, CallTypes
<1>2. secured' = IF p.confirm THEN Secure(g, map', buf') ELSE secured
  BY DEF Programs
<1>3. buf'.data = buf.data
  BY DEF Programs
<1>4. CASE p.confirm
  <2>1. /\ Grp(l) # g => Secure(g, map', buf')[l][s] = secured[l][s]
        /\ Grp(l) = g => Secure(g, map', buf')[l][s] \in {secured[l][s], Merged(l, map', buf')[s]}
        /\ Merged(l, map', buf')[s] = IF buf'.dirty /\ buf'.lpn = l /\ s \in buf'.valid
                                      THEN buf'.data[s] ELSE map'[l][s]
    BY <1>1, SecureIs
  <2>2. QED BY <1>2, <1>3, <1>4, <2>1 DEF Buffered
<1>5. CASE ~p.confirm
  BY <1>2, <1>5
<1>6. QED BY <1>4, <1>5

\* A page that is buffered, and not the one programmed, stays buffered.
LEMMA ProgramBuffers ==
  ASSUME NEW g, NEW p, Programs(g, p), NEW l, l # p.lpn, NEW s
  PROVE  Buffered(l, s)' <=> Buffered(l, s)
BY DEF Programs, Buffered

\* The other pages.
LEMMA ProgramOthers ==
  ASSUME Inv, Inv', Kept, open, op.step # "bmt", op.step # "store",
         NEW g \in Groups, NEW p, Programs(g, p),
         NEW l \in Lpns \ reverted', l # p.lpn, NEW s \in Secs
  PROVE  PageKept(l, s)'
<1>0. PageKept(l, s) /\ Types /\ Types'
  BY DEF Kept, Data0, PagesKept, Inv, Programs
<1>1. Grp(l) \in Groups /\ secured[l][s] \in Nat /\ map[l][s] \in Nat /\ map'[l] = map[l] /\ secured'[l][s] \in Nat
  BY <1>0, Typed, TypedNext, ProgramFrom
<1>2. /\ Rising(l, s) => Rising(l, s)'
      /\ \A x \in Nat :
              /\ Held(pages[Grp(l)], stored[Grp(l)], pmt[l], l, s, x) =>
                     Held(pages'[Grp(l)], stored'[Grp(l)], pmt'[l], l, s, x)
              /\ Traces(pages[Grp(l)], stored[Grp(l)], pmt[l], l, s, x) =>
                     Traces(pages'[Grp(l)], stored'[Grp(l)], pmt'[l], l, s, x)
              /\ Tops(pages[Grp(l)], stored[Grp(l)], pmt[l], l, s, x) =>
                     Tops(pages'[Grp(l)], stored'[Grp(l)], pmt'[l], l, s, x)
  BY <1>0, ProgramFrom, OtherPage
<1>3. Old' = Old /\ (Live(Grp(l))' => Live(Grp(l))) /\ (Deleting(l)' <=> Deleting(l))
  BY <1>1, ProgramFrom DEF Deleting, Programs
<1>4. Rising(l, s)'
  BY <1>0, <1>2 DEF PageKept
<1>5. Buffered(l, s)' <=> Buffered(l, s)
  BY ProgramBuffers
<1>6. Buffered(l, s) => Old.lpn = l /\ s \in Old.valid
  <2>1. Buffered(l, s) => buf.lpn # None
    BY <1>0, BufTyped, Sizes DEF Buffered
  <2>2. QED BY <2>1, SameBlk DEF Buffered
<1>7. Safe(l, s)'
  <2>1. CASE Old.lpn = l /\ s \in Old.valid
    BY <1>3, <2>1 DEF Safe
  <2>2. CASE ~(Old.lpn = l /\ s \in Old.valid)
    <3>1. Held(pages'[Grp(l)], stored'[Grp(l)], pmt'[l], l, s, secured[l][s])
      BY <1>0, <1>1, <1>2, <2>2 DEF PageKept, Safe
    <3>2. CASE secured'[l][s] = secured[l][s]
      BY <3>1, <3>2 DEF Safe
    <3>3. CASE secured'[l][s] # secured[l][s]
      <4>1. Grp(l) = g /\ p.confirm /\ secured'[l][s] = map[l][s]
        BY <1>1, <1>5, <1>6, <2>2, <3>3, ProgramSecures
      <4>2. Traces(pages[g], stored[g], pmt[l], l, s, map[l][s])
        BY <1>0, <4>1, ProgramFrom DEF PageKept, Traced
      <4>3. Held(Append(pages[g], p), stored[g], pmt[l], l, s, map[l][s])
        <5>1. pmt[l] \in Data /\ pages[g] \in Seq(LogPage) /\ stored[g] \in Nat /\ p \in LogPage
          BY <1>0, Typed, ProgramFrom
        <5>2. QED BY <1>1, <4>1, <4>2, <5>1, AppendHolds
      <4>4. pages'[g] = Append(pages[g], p) /\ stored'[g] = stored[g] /\ pmt'[l] = pmt[l]
        BY ProgramFrom
      <4>5. Held(pages'[g], stored'[g], pmt'[l], l, s, secured'[l][s])
        BY <4>1, <4>3, <4>4
      <4>6. QED BY <4>1, <4>5 DEF Safe
    <3>4. QED BY <3>2, <3>3
  <2>3. QED BY <2>1, <2>2
<1>8. Mapped(l, s)'
  <2> SUFFICES ASSUME Grp(l) \notin unscanned PROVE secured'[l][s] <= map[l][s] \/ Buffered(l, s)
    BY <1>1, <1>5 DEF Mapped, Programs
  <2>1. secured[l][s] <= map[l][s] \/ Buffered(l, s)
    BY <1>0 DEF PageKept, Mapped
  <2>2. ~Buffered(l, s) => secured'[l][s] \in {secured[l][s], map[l][s]}
    BY <1>1, <1>5, ProgramSecures
  <2>3. QED BY <1>1, <2>1, <2>2
<1>9. Traced(l, s)'
  BY <1>0, <1>1, <1>2, <1>3 DEF PageKept, Traced
<1>10. Newest(l, s)'
  BY <1>0, <1>1, <1>2, <1>3 DEF PageKept, Newest
<1>11. Covered(l, s)'
  <2>1. CASE Grp(l) = g
    <3> SUFFICES ASSUME ~Deleting(l)
                 PROVE  Covers(pages'[g], stored'[g], pmt'[l], l, s, map[l][s])
      BY <1>1, <1>3, <2>1 DEF Covered
    <3>1. Tops(pages[g], stored[g], pmt[l], l, s, map[l][s])
      BY <1>0, <2>1, ProgramFrom DEF PageKept, Newest
    <3>2. Tops(pages'[g], stored'[g], pmt'[l], l, s, map[l][s])
      BY <1>1, <1>2, <2>1, <3>1
    <3>3. QED BY <3>2, TopsCovers
  <2>2. CASE Grp(l) # g
    <3>1. pages'[Grp(l)] = pages[Grp(l)]
      BY <1>1, <2>2, ProgramFrom
    <3>2. QED BY <1>0, <1>1, <1>3, <3>1 DEF PageKept, Covered, Programs
  <2>3. QED BY <2>1, <2>2
<1>12. QED BY <1>4, <1>7, <1>8, <1>9, <1>10, <1>11 DEF PageKept

\* The page itself.
LEMMA ProgramPage ==
  ASSUME Inv, Inv', Kept, open, op.step # "bmt", op.step # "store",
         NEW g \in Groups, NEW p, Programs(g, p), p.lpn \notin reverted', NEW s \in Secs
  PROVE  PageKept(p.lpn, s)'
<1> DEFINE l == p.lpn
<1>0. PageKept(l, s) /\ Types /\ Types' /\ l \in Lpns /\ Grp(l) = g /\ ~Deleting(l)
  BY DEF Kept, Data0, PagesKept, Inv, Programs
<1>1. /\ secured[l][s] \in Nat /\ map[l][s] \in Nat /\ secured'[l][s] \in Nat
      /\ map'[l] = p.data /\ p.data[s] \in Nat
      /\ pmt[l] \in Data /\ pages[g] \in Seq(LogPage) /\ stored[g] \in Nat /\ p \in LogPage
      /\ stored[g] <= Len(pages[g]) /\ Old' = Old
      /\ pages'[g] = Append(pages[g], p) /\ stored' = stored /\ pmt' = pmt
  BY <1>0, Typed, TypedNext, ProgramFrom
<1>2. map[l][s] <= p.data[s] /\ secured[l][s] <= p.data[s]
  BY DEF Programs
<1>3. secured'[l][s] \in {secured[l][s], p.data[s]} /\ (~p.confirm => secured'[l][s] = secured[l][s])
  <2>1. ~Buffered(l, s)'
    BY DEF Programs, Buffered
  <2>2. QED BY <1>0, <1>1, <2>1, ProgramSecures
<1>4. Tops(pages[g], stored[g], pmt[l], l, s, p.data[s])
  <2>1. Tops(pages[g], stored[g], pmt[l], l, s, map[l][s])
    BY <1>0, ProgramFrom DEF PageKept, Newest
  <2> HIDE DEF l
  <2>2. QED BY <1>1, <1>2, <2>1, Older
<1>5. Rising(l, s)'
  <2>1. Rises(pages[g], stored[g], pmt[l], l, s)
    BY <1>0 DEF PageKept, Rising
  <2>2. Rises(Append(pages[g], p), stored[g], pmt[l], l, s)
    BY <1>1, <1>4, <2>1, AppendRises
  <2>3. QED BY <1>0, <1>1, <2>2 DEF Rising
<1>6. Safe(l, s)'
  <2>1. CASE Old.lpn = l /\ s \in Old.valid
    BY <1>1, <2>1 DEF Safe
  <2>2. CASE ~(Old.lpn = l /\ s \in Old.valid)
    <3>1. Held(pages[g], stored[g], pmt[l], l, s, secured[l][s])
      BY <1>0, <2>2 DEF PageKept, Safe
    <3>2. Held(Append(pages[g], p), stored[g], pmt[l], l, s, secured'[l][s])
      <4>1. CASE p.confirm
        <5>1. secured'[l][s] <= p.data[s]
          BY <1>1, <1>2, <1>3
        <5>2. QED BY <1>1, <4>1, <5>1, AppendHolds
      <4>2. CASE ~p.confirm
        <5>1. secured'[l][s] = secured[l][s]
          BY <1>3, <4>2
        <5> HIDE DEF l
        <5>2. QED BY <1>1, <3>1, <5>1, AppendHolds
      <4>3. QED BY <4>1, <4>2
    <3>3. QED BY <1>0, <1>1, <3>2 DEF Safe
  <2>3. QED BY <2>1, <2>2
<1>7. Mapped(l, s)'
  <2>1. secured'[l][s] <= map'[l][s]
    BY <1>1, <1>2, <1>3
  <2>2. QED BY <2>1 DEF Mapped
<1>8. Traced(l, s)'
  <2>1. Traces(Append(pages[g], p), stored[g], pmt[l], l, s, p.data[s])
    BY <1>1, AppendHolds
  <2>2. QED BY <1>0, <1>1, <2>1 DEF Traced
<1>9. Tops(Append(pages[g], p), stored[g], pmt[l], l, s, p.data[s])
  <2> HIDE DEF l
  <2>1. p.data[s] <= p.data[s]
    BY <1>1
  <2>2. QED BY <1>1, <1>4, <2>1, AppendTops
<1>10. Newest(l, s)'
  BY <1>0, <1>1, <1>9 DEF Newest
<1>11. Covered(l, s)'
  BY <1>0, <1>1, <1>9, TopsCovers DEF Covered
<1>12. QED BY <1>5, <1>6, <1>7, <1>8, <1>10, <1>11 DEF PageKept

\* The page of the buffer block.
LEMMA ProgramOld ==
  ASSUME Inv, Inv', Kept, open, op.step # "bmt", op.step # "store",
         NEW g \in Groups, NEW p, Programs(g, p)
  PROVE  OldKept'
<1> SUFFICES ASSUME NEW l, l = Old.lpn PROVE OldKept'
  OBVIOUS
<1>1. /\ Old' = Old /\ open' = open /\ dropped' = dropped /\ stored' = stored /\ pmt' = pmt
      /\ reverted \subseteq reverted'
  BY ProgramFrom DEF Programs
<1>2. SUFFICES ASSUME l \in Lpns \ reverted'
      PROVE  /\ OldHeld' \/ OldNewer'
             /\ ~dropped => OldTops'
             /\ OldHeld' \/ OldInBuf'
  BY <1>1 DEF OldKept
<1>3. /\ Types /\ Types' /\ l \in Lpns /\ l # None
      /\ OldHeld \/ OldNewer
      /\ ~dropped => OldTops
      /\ OldHeld \/ OldInBuf
  BY <1>1, <1>2, Sizes DEF Kept, Data0, OldKept, Inv
<1>4. /\ Old.valid \subseteq Secs
      /\ \A s \in Secs : /\ Old.data[s] \in Nat /\ secured[l][s] \in Nat /\ secured'[l][s] \in Nat
                         /\ map[l][s] \in Nat /\ map'[l][s] \in Nat
      /\ pages[Grp(l)] \in Seq(LogPage) /\ stored[Grp(l)] \in Nat /\ pmt[l] \in Data
  BY <1>3, Typed, TypedNext, BufTyped
<1>5. /\ buf.lpn # None => buf.lpn = l /\ buf.valid = Old.valid /\ buf.data = Old.data
      /\ buf.lpn = None => dropped
  BY <1>3, SameBlk
<1>6. buf.dirty => buf.lpn # None
  BY <1>3, BufTyped, Sizes
<1>7. OldInBuf /\ l # p.lpn => OldInBuf'
  BY <1>1 DEF OldInBuf, Programs
<1>8. ASSUME NEW s \in Secs, Grp(l) # g \/ ~p.confirm
      PROVE  secured'[l][s] = secured[l][s]
  BY <1>3, <1>8, ProgramSecures
<1>9. ASSUME NEW s \in Secs
      PROVE  \/ secured'[l][s] = secured[l][s]
             \/ Grp(l) = g /\ p.confirm /\ secured'[l][s] = Old.data[s] /\ Buffered(l, s)'
             \/ Grp(l) = g /\ p.confirm /\ secured'[l][s] = map'[l][s]
  <2>1. Buffered(l, s)' => buf.data = Old.data
    BY <1>3, <1>5 DEF Programs, Buffered
  <2>2. QED BY <1>3, <2>1, ProgramSecures
<1>10. CASE l # p.lpn
  <2>1. \A s \in Secs, x \in Nat :
              /\ Held(pages[Grp(l)], stored[Grp(l)], pmt[l], l, s, x) =>
                     Held(pages'[Grp(l)], stored'[Grp(l)], pmt'[l], l, s, x)
              /\ Traces(pages[Grp(l)], stored[Grp(l)], pmt[l], l, s, x) =>
                     Traces(pages'[Grp(l)], stored'[Grp(l)], pmt'[l], l, s, x)
              /\ Tops(pages[Grp(l)], stored[Grp(l)], pmt[l], l, s, x) =>
                     Tops(pages'[Grp(l)], stored'[Grp(l)], pmt'[l], l, s, x)
    BY <1>3, <1>10, ProgramFrom, OtherPage
  <2>0. \A v, d : Overtakes(pages[Grp(l)], stored[Grp(l)], l, v, d) =>
                      Overtakes(pages'[Grp(l)], stored'[Grp(l)], l, v, d)
    <3>1. p \in LogPage /\ pages' = [pages EXCEPT ![g] = Append(@, p)] /\ p.lpn # l
      BY <1>10, ProgramFrom
    <3>2. QED BY <1>1, <1>3, <3>1, OtherPage
  <2>2. map'[l] = map[l]
    BY <1>3, <1>10, ProgramFrom
  <2>3. Grp(l) = g => \A s \in Secs : Traces(pages[g], stored[g], pmt[l], l, s, map[l][s])
    BY <1>1, <1>2, ProgramFrom DEF Kept, Data0, PagesKept, PageKept, Traced
  <2>4. OldHeld => OldHeld'
    <3>1. SUFFICES ASSUME OldHeld, NEW s \in Old.valid
          PROVE  /\ Held(pages'[Grp(l)], stored'[Grp(l)], pmt'[l], l, s, secured'[l][s])
                 /\ Held(pages'[Grp(l)], stored'[Grp(l)], pmt'[l], l, s, Old.data[s])
      BY <1>1 DEF OldHeld
    <3>2. s \in Secs
      BY <1>4
    <3>3. /\ Held(pages'[Grp(l)], stored'[Grp(l)], pmt'[l], l, s, secured[l][s])
          /\ Held(pages'[Grp(l)], stored'[Grp(l)], pmt'[l], l, s, Old.data[s])
      BY <1>4, <2>1, <3>1, <3>2 DEF OldHeld
    <3>4. ASSUME Grp(l) = g, p.confirm
          PROVE  Held(pages'[Grp(l)], stored'[Grp(l)], pmt'[l], l, s, map[l][s])
      <4>1. Traces(pages[g], stored[g], pmt[l], l, s, map[l][s])
        BY <2>3, <3>2, <3>4
      <4>2. p \in LogPage /\ pages'[g] = Append(pages[g], p)
        BY ProgramFrom
      <4>3. map[l][s] \in Nat
        BY <1>4, <3>2
      <4>4. pages[g] \in Seq(LogPage) /\ stored[g] \in Nat /\ pmt[l] \in Data
        BY <1>4, <3>4
      <4>5. Held(Append(pages[g], p), stored[g], pmt[l], l, s, map[l][s])
        BY <3>2, <3>4, <4>1, <4>2, <4>3, <4>4, AppendHolds
      <4>6. QED BY <1>1, <3>4, <4>2, <4>5
    <3>5. QED BY <1>9, <2>2, <3>2, <3>3, <3>4
  <2>5. OldNewer => OldNewer'
    BY <1>1, <2>0 DEF OldNewer
  <2>6. ~dropped => OldTops'
    <3>1. SUFFICES ASSUME ~dropped, NEW s \in Old.valid
          PROVE  /\ secured'[l][s] <= Old.data[s]
                 /\ Tops(pages'[Grp(l)], stored'[Grp(l)], pmt'[l], l, s, Old.data[s])
      BY <1>1 DEF OldTops
    <3>2. s \in Secs
      BY <1>4
    <3>3. /\ secured[l][s] <= Old.data[s]
          /\ Tops(pages[Grp(l)], stored[Grp(l)], pmt[l], l, s, Old.data[s])
      BY <1>3, <3>1 DEF OldTops
    <3>4. Tops(pages'[Grp(l)], stored'[Grp(l)], pmt'[l], l, s, Old.data[s])
      BY <1>4, <2>1, <3>2, <3>3
    <3>5. Grp(l) = g => map[l][s] <= Old.data[s]
      <4>1. SUFFICES ASSUME Grp(l) = g PROVE map[l][s] <= Old.data[s]
        OBVIOUS
      <4>2. Traces(pages[g], stored[g], pmt[l], l, s, map[l][s])
        BY <2>3, <3>2, <4>1
      <4>3. Tops(pages[g], stored[g], pmt[l], l, s, Old.data[s])
        BY <3>3, <4>1
      <4>4. /\ map[l][s] \in Nat /\ Old.data[s] \in Nat
            /\ pages[g] \in Seq(LogPage) /\ stored[g] \in Nat /\ pmt[l] \in Data
        BY <1>4, <3>2, <4>1
      <4>5. QED BY <3>2, <4>2, <4>3, <4>4, TracesBelow
    <3>6. secured'[l][s] <= Old.data[s]
      <4>1. Old.data[s] \in Nat
        BY <1>4, <3>2
      <4>2. QED BY <1>9, <2>2, <3>2, <3>3, <3>5, <4>1
    <3>7. QED BY <3>4, <3>6
  <2>7. QED BY <1>3, <1>7, <1>10, <2>4, <2>5, <2>6
<1>11. CASE l = p.lpn
  <2>1. /\ Grp(l) = g /\ p \in LogPage /\ pages'[g] = Append(pages[g], p) /\ map'[l] = p.data
        /\ stored[g] <= Len(pages[g])
    BY <1>11, ProgramFrom DEF Programs
  <2>2. \A s \in Secs : secured[l][s] <= p.data[s] /\ map[l][s] <= p.data[s] /\ p.data[s] \in Nat
    BY <1>2, <1>4, <1>11, <2>1 DEF Programs
  <2>3. \A s \in Secs : ~Buffered(l, s)'
    BY <1>11 DEF Programs, Buffered
  <2>4. buf.lpn # None => \A s \in Old.valid : p.data[s] = Old.data[s]
    BY <1>5, <1>11 DEF Programs
  <2>5. buf.dirty => p.confirm
    BY <1>5, <1>6, <1>11 DEF Programs
  <2>6. OldHeld'
    <3>1. SUFFICES ASSUME NEW s \in Old.valid
          PROVE  /\ Held(Append(pages[g], p), stored[g], pmt[l], l, s, secured'[l][s])
                 /\ Held(Append(pages[g], p), stored[g], pmt[l], l, s, Old.data[s])
      BY <1>1, <2>1 DEF OldHeld
    <3>2. /\ s \in Secs /\ secured[l][s] \in Nat /\ secured'[l][s] \in Nat /\ Old.data[s] \in Nat
          /\ pages[g] \in Seq(LogPage) /\ stored[g] \in Nat /\ pmt[l] \in Data
          /\ p.lpn = l
      BY <1>4, <1>11, <2>1
    <3>3. secured'[l][s] \in {secured[l][s], p.data[s]} /\ (~p.confirm => secured'[l][s] = secured[l][s])
      BY <1>8, <1>9, <2>1, <2>3, <3>2
    <3>4. secured'[l][s] <= p.data[s]
      BY <2>2, <3>2, <3>3
    <3>5. OldHeld => /\ Held(pages[g], stored[g], pmt[l], l, s, secured[l][s])
                     /\ Held(pages[g], stored[g], pmt[l], l, s, Old.data[s])
      BY <2>1 DEF OldHeld
    <3>6. ~OldHeld => p.confirm /\ p.data[s] = Old.data[s]
      BY <1>3, <1>6, <2>4, <2>5 DEF OldInBuf
    <3>7. CASE p.confirm
      <4>1. Held(Append(pages[g], p), stored[g], pmt[l], l, s, secured'[l][s])
        BY <2>1, <3>2, <3>4, <3>7, AppendHolds
      <4>2. CASE OldHeld
        BY <2>1, <3>2, <3>5, <4>1, <4>2, AppendHolds
      <4>3. CASE ~OldHeld
        <5>1. Old.data[s] <= p.data[s]
          BY <3>2, <3>6, <4>3
        <5>2. QED BY <2>1, <3>2, <3>7, <4>1, <5>1, AppendHolds
      <4>4. QED BY <4>2, <4>3
    <3>8. CASE ~p.confirm
      <4>1. secured'[l][s] = secured[l][s] /\ OldHeld
        BY <3>3, <3>6, <3>8
      <4>2. QED BY <2>1, <3>2, <3>5, <4>1, AppendHolds
    <3>9. QED BY <3>7, <3>8
  <2>7. ~dropped => OldTops'
    <3>1. SUFFICES ASSUME ~dropped, NEW s \in Old.valid
          PROVE  /\ secured'[l][s] <= Old.data[s]
                 /\ Tops(Append(pages[g], p), stored[g], pmt[l], l, s, Old.data[s])
      BY <1>1, <2>1 DEF OldTops
    <3>2. /\ s \in Secs /\ secured[l][s] \in Nat /\ secured'[l][s] \in Nat /\ Old.data[s] \in Nat
          /\ pages[g] \in Seq(LogPage) /\ stored[g] \in Nat /\ pmt[l] \in Data
      BY <1>4, <2>1
    <3>3. p.data[s] = Old.data[s]
      BY <1>5, <2>4, <3>1
    <3>4. /\ secured[l][s] <= Old.data[s]
          /\ Tops(pages[g], stored[g], pmt[l], l, s, Old.data[s])
      BY <1>3, <2>1, <3>1 DEF OldTops
    <3>5. secured'[l][s] <= Old.data[s]
      BY <1>9, <2>1, <2>3, <3>2, <3>3, <3>4
    <3>6. p.data[s] <= Old.data[s]
      BY <3>2, <3>3
    <3>7. Tops(Append(pages[g], p), stored[g], pmt[l], l, s, Old.data[s])
      BY <2>1, <3>2, <3>4, <3>6, AppendTops
    <3>8. QED BY <3>5, <3>7
  <2>8. QED BY <2>6, <2>7
<1>12. QED BY <1>10, <1>11

\* The buffered page.
LEMMA ProgramBuf ==
  ASSUME Inv, Inv', Kept, open, NEW g \in Groups, NEW p, Programs(g, p)
  PROVE  BufClean' /\ BufNewest' /\ BufTops' /\ BufForm'
<1>0. /\ Types /\ BufClean /\ BufNewest /\ BufForm
      /\ buf'.dirty <=> buf.dirty /\ buf.lpn # p.lpn
      /\ buf'.lpn = buf.lpn /\ buf'.valid = buf.valid /\ buf'.data = buf.data /\ buf'.cp = buf.cp
      /\ open' = open /\ bblk' = bblk /\ bBlkVbn' = bBlkVbn /\ dropped' = dropped
      /\ op'.kind = op.kind /\ op'.step # "bmt" /\ reverted \subseteq reverted'
  BY DEF Kept, Data0, Inv, Programs
<1>1. buf.lpn \in Lpns \cup {None} /\ buf.valid \subseteq Secs
  BY <1>0, BufTyped
<1>2. map'[p.lpn] = p.data /\ \A l \in Lpns : l # p.lpn => map'[l] = map[l]
  BY ProgramFrom
<1>3. BufClean'
  <2> SUFFICES ASSUME buf.lpn # None, ~buf'.dirty, NEW s \in buf.valid
               PROVE  map'[buf.lpn][s] = buf.data[s]
    BY <1>0 DEF BufClean
  <2>1. CASE buf.lpn = p.lpn
    BY <1>2, <2>1 DEF Programs
  <2>2. CASE buf.lpn # p.lpn
    <3>1. map'[buf.lpn] = map[buf.lpn] /\ ~buf.dirty
      BY <1>0, <1>1, <1>2, <2>2
    <3>2. QED BY <1>0, <3>1 DEF BufClean
  <2>3. QED BY <2>1, <2>2
<1>4. BufNewest'
  <2> SUFFICES ASSUME buf'.dirty, Trusted', buf.lpn \notin reverted', NEW s \in buf.valid
               PROVE  secured'[buf.lpn][s] <= buf.data[s] /\ map'[buf.lpn][s] <= buf.data[s]
    BY <1>0 DEF BufNewest
  <2>1. buf.dirty /\ buf.lpn # p.lpn /\ Trusted /\ buf.lpn \notin reverted
    BY <1>0 DEF Trusted
  <2>2. secured[buf.lpn][s] <= buf.data[s] /\ map[buf.lpn][s] <= buf.data[s]
    BY <1>0, <2>1 DEF BufNewest
  <2>3. buf.lpn \in Lpns /\ s \in Secs
    BY <1>0, <1>1, <2>1, BufTyped
  <2>4. map'[buf.lpn] = map[buf.lpn] /\ buf.data[s] \in Nat
    BY <1>0, <1>2, <2>1, <2>3, BufTyped
  <2>6. secured'[buf.lpn][s] \in {secured[buf.lpn][s], buf.data[s]}
    <3>1. PICK l \in Lpns : l = buf.lpn
      BY <2>3
    <3>2. Buffered(l, s)'
      BY <1>0, <3>1 DEF Buffered
    <3>3. secured'[l][s] \in {secured[l][s], buf.data[s]}
      BY <2>3, <3>2, ProgramSecures
    <3>4. QED BY <3>1, <3>3
  <2>7. QED BY <2>2, <2>4, <2>6
<1>5. BufTops'
  BY <1>0 DEF BufTops
<1>6. BufForm'
  BY <1>0 DEF BufForm, Good
<1>7. QED BY <1>3, <1>4, <1>5, <1>6

\* The logs.
LEMMA ProgramFlow ==
  ASSUME Inv, Inv', Kept, open, NEW g \in Groups, NEW p, Programs(g, p)
  PROVE  LogsClean' /\ Unread' /\ Behind' /\ Past'
<1>0. /\ Types /\ LogsClean /\ Unread /\ Behind /\ Past
      /\ p \in LogPage /\ p.lpn \in Lpns /\ Grp(p.lpn) = g /\ UpTo(p.data, writes) /\ g \notin unscanned
      /\ UNCHANGED <<stored, pmt, bblk, open, unscanned, writes>>
      /\ buf'.data = buf.data
  BY DEF Kept, Data0, Inv, Programs
<1>1. /\ pages' = [pages EXCEPT ![g] = Append(@, p)]
      /\ map'[p.lpn] = p.data
      /\ \A l \in Lpns : l # p.lpn => map'[l] = map[l]
      /\ cp'[g] = cp[g] + 1 /\ cp[g] \in Nat
      /\ \A h \in Groups : h # g => cp'[h] = cp[h]
  BY ProgramFrom
<1>2. LogsClean' /\ \A h \in Groups : \A i \in 1 .. Len(pages'[h]) : UpTo(pages'[h][i].data, writes)
  <2>1. p.lpn # None
    BY <1>0, Sizes
  <2>2. QED BY <1>0, <1>1, <2>1, LogsAfter DEF Past
<1>3. Unread'
  <2> SUFFICES ASSUME NEW h \in unscanned
               PROVE  cp'[h] = stored[h] /\ \A l \in Lpns : Grp(l) = h => map'[l] = pmt[l]
    BY <1>0 DEF Unread
  <2>1. h \in Groups /\ h # g
    BY <1>0 DEF Types, LogTypes
  <2>2. QED BY <1>0, <1>1, <2>1 DEF Unread
<1>4. Behind'
  <2> SUFFICES ASSUME NEW h \in Groups \ unscanned, cp'[h] < PagesPerSBlk
               PROVE  stored[h] <= cp'[h]
    BY <1>0 DEF Behind
  <2>1. CASE h = g
    <3>1. cp[g] < PagesPerSBlk /\ stored[g] \in Nat
      BY ProgramFrom DEF Programs, HasRoom
    <3>2. stored[g] <= cp[g]
      BY <1>0, <3>1 DEF Behind
    <3>3. QED BY <1>1, <2>1, <3>1, <3>2
  <2>2. CASE h # g
    BY <1>0, <1>1, <2>2 DEF Behind
  <2>3. QED BY <2>1, <2>2
<1>5. Past'
  <2>1. \A l \in Lpns : UpTo(map'[l], writes) /\ UpTo(pmt[l], writes)
    BY <1>0, <1>1 DEF Past
  <2>2. \A l \in Lpns : UpTo(secured'[l], writes)
    <3> SUFFICES ASSUME NEW l \in Lpns, NEW s \in Secs PROVE secured'[l][s] <= writes
      BY DEF UpTo
    <3>1. map'[l][s] <= writes /\ secured[l][s] <= writes /\ buf.data[s] <= writes
      BY <1>0, <2>1 DEF Past, UpTo
    <3>2. secured'[l][s] \in {secured[l][s], buf.data[s], map'[l][s]}
      BY ProgramSecures
    <3>3. QED BY <3>1, <3>2
  <2>3. QED BY <1>0, <1>2, <2>1, <2>2 DEF Past
<1>6. QED BY <1>2, <1>3, <1>4, <1>5

\* What the running write has still to do is newer than the page.
LEMMA ProgramToCome ==
  ASSUME Inv, Kept, open, NEW g \in Groups, NEW p, Programs(g, p),
         \A l \in Lpns : Ahead(l)' =>
             Ahead(l) /\ (l = p.lpn => \A s \in Secs : p.data[s] < writes)
  PROVE  ToCome'
<1>0. /\ Types /\ ToCome
      /\ UNCHANGED <<stored, pmt, writes>>
      /\ buf'.lpn = buf.lpn /\ buf'.data = buf.data
  BY DEF Kept, Inv, Programs
<1>1. /\ pages' = [pages EXCEPT ![g] = Append(@, p)] /\ p \in LogPage
      /\ map'[p.lpn] = p.data
      /\ \A l \in Lpns : l # p.lpn => map'[l] = map[l]
  BY ProgramFrom
<1>2. SUFFICES ASSUME NEW l \in Lpns, Ahead(l)', NEW s \in Secs
               PROVE  /\ map'[l][s] < writes
                      /\ buf.lpn = l => buf.data[s] < writes
                      /\ \A i \in Logged(pages'[Grp(l)], stored[Grp(l)], l) :
                             pages'[Grp(l)][i].data[s] < writes
  BY <1>0 DEF ToCome
<1>3. /\ map[l][s] < writes
      /\ buf.lpn = l => buf.data[s] < writes
      /\ \A i \in Logged(pages[Grp(l)], stored[Grp(l)], l) : pages[Grp(l)][i].data[s] < writes
  BY <1>0, <1>2 DEF ToCome
<1>4. l = p.lpn => p.data[s] < writes
  BY <1>2
<1>5. /\ Grp(l) \in Groups /\ pages[Grp(l)] \in Seq(LogPage) /\ stored[Grp(l)] \in Nat
      /\ pages'[Grp(l)] = IF Grp(l) = g THEN Append(pages[Grp(l)], p) ELSE pages[Grp(l)]
  BY <1>0, <1>1, Typed DEF Types, LogTypes
<1>6. \A i \in Logged(pages'[Grp(l)], stored[Grp(l)], l) : pages'[Grp(l)][i].data[s] < writes
  <2>1. CASE Grp(l) # g
    BY <1>3, <1>5, <2>1
  <2>2. CASE Grp(l) = g
    <3> DEFINE ps == pages[Grp(l)]
               n == stored[Grp(l)]
    <3>1. pages'[Grp(l)] = Append(ps, p) /\ ps \in Seq(LogPage) /\ n \in Nat
      BY <1>5, <2>2
    <3>2. \A i \in Logged(ps, n, l) : ps[i].data[s] < writes
      BY <1>3
    <3> HIDE DEF ps, n
    <3>3. Logged(ps, n, l) \subseteq 1 .. Len(ps)
      BY <3>1, LogPages
    <3>4. /\ Logged(Append(ps, p), n, l) \subseteq Logged(ps, n, l) \cup {Len(ps) + 1}
          /\ Len(ps) + 1 \in Logged(Append(ps, p), n, l) => p.lpn = l
          /\ \A i \in 1 .. Len(ps) : Append(ps, p)[i] = ps[i]
          /\ Append(ps, p)[Len(ps) + 1] = p
      BY <1>1, <3>1, Appended
    <3>5. \A i \in Logged(Append(ps, p), n, l) : Append(ps, p)[i].data[s] < writes
      BY <1>4, <3>2, <3>3, <3>4
    <3>6. QED BY <3>1, <3>5 DEF n
  <2>3. QED BY <2>1, <2>2
<1>7. map'[l][s] < writes
  BY <1>1, <1>3, <1>4
<1>8. QED BY <1>3, <1>6, <1>7

\* The buffered page is where it was.
LEMMA ProgramPlace ==
  ASSUME Inv, Kept, open, op.step # "bmt", op.step # "store", ~Opening("flush"),
         NEW g \in Groups, NEW p, Programs(g, p),
         op'.kind = "open" => op' = op,
         op'.step \in {"erase", "invalidate"} => buf.lpn = p.lpn,
         op'.step # "store"
  PROVE  Place'
<1>0. /\ Place /\ UNCHANGED <<open, unscanned, dropped, bBlkVbn, storedBBlk>>
      /\ buf'.lpn = buf.lpn /\ buf'.valid = buf.valid /\ buf'.data = buf.data
      /\ buf'.dirty <=> buf.dirty /\ buf.lpn # p.lpn
      /\ op'.kind = op.kind
  BY DEF Kept, Programs
<1>1. Old' = Old /\ Cur' = Cur /\ bBlkVbn = storedBBlk
  BY ProgramFrom, SameBlk
<1>2. InBlock'
  BY <1>0, <1>1 DEF Place, InBlock, Opening
<1>3. SameBlock'
  BY <1>0, <1>1 DEF SameBlock
<1>4. GivenUp'
  BY <1>0, <1>1 DEF Place, GivenUp
<1>5. Scanned'
  BY <1>0, <1>1 DEF Place, Scanned, Opening
<1>6. Flushed'
  BY <1>0 DEF Place, Flushed, Opening
<1>7. Storing'
  BY DEF Storing
<1>8. QED BY <1>2, <1>3, <1>4, <1>5, <1>6, <1>7 DEF Place

\* A program keeps the invariant.
LEMMA ProgramKept ==
  ASSUME Inv, Inv', Kept, open, op.step # "bmt", op.step # "store",
         NEW g \in Groups, NEW p, Programs(g, p)
  PROVE  Data0' /\ BufForm' /\ Past'
<1>1. PagesKept'
  <2>1. ASSUME NEW l \in Lpns \ reverted', NEW s \in Secs PROVE PageKept(l, s)'
    <3>1. CASE l = p.lpn
      <4>1. PageKept(p.lpn, s)'
        BY <2>1, <3>1, ProgramPage
      <4>2. QED BY <3>1, <4>1
    <3>2. CASE l # p.lpn
      BY <3>2, ProgramOthers
    <3>3. QED BY <3>1, <3>2
  <2>2. QED BY <2>1 DEF PagesKept
<1>2. OldKept'
  BY ProgramOld
<1>3. BufClean' /\ BufNewest' /\ BufTops' /\ BufForm'
  BY ProgramBuf
<1>4. LogsClean' /\ Unread' /\ Behind' /\ Past'
  BY ProgramFlow
<1>5. QED BY <1>1, <1>2, <1>3, <1>4 DEF Data0

-----------------------------------------------------------------------------
(***************************************************************************)
(* The actions that program a page of the log.                             *)
(***************************************************************************)
LEMMA FlushPagePrograms ==
  ASSUME Inv, Kept, FlushPage, NEW g, g = Grp(buf.lpn),
         NEW p, p = [lpn |-> buf.lpn, data |-> Read(buf.lpn), confirm |-> TRUE]
  PROVE  /\ flushing /\ buf.dirty /\ open /\ op.step # "bmt" /\ op.step # "store"
         /\ g \in Groups /\ p.lpn = buf.lpn /\ p.confirm
         /\ \A s \in Secs : p.data[s] = IF s \in buf.valid THEN buf.data[s] ELSE map[p.lpn][s]
         /\ TornLogPage(g) \/ (Programs(g, p) /\ op' = op /\ ~flushing')
<1>1. flushing /\ buf.dirty /\ g \notin unscanned /\ HasRoom(g)
  BY DEF FlushPage
<1>2. /\ Types /\ buf \in Bufs /\ buf.lpn \in Lpns /\ g \in Groups
      /\ open /\ op.step # "bmt" /\ op.step # "store"
  BY <1>1, FlushingIs, GrpType DEF Inv, Types, CallTypes
<1>3. p \in LogPage /\ p.lpn = buf.lpn /\ p.confirm /\ p.data = Read(buf.lpn)
  BY <1>2, MergedType DEF Read, LogPage, Types, MapTypes
<1>4. \A s \in Secs : p.data[s] = IF s \in buf.valid THEN buf.data[s] ELSE map[p.lpn][s]
  BY <1>1, <1>3 DEF Read, Merged
<1>5. CASE /\ ProgramLogPage(g, p)
           /\ buf' = [buf EXCEPT !.dirty = FALSE]
           /\ flushing' = FALSE
           /\ secured' = Secure(g, map', buf')
           /\ reverted' = IF op.kind = "open" /\ dropped
                          THEN reverted \cup {buf.lpn} ELSE reverted
           /\ UNCHANGED <<active, stored, pmt, bblk, storedBBlk, open,
                          unscanned, bBlkVbn, delGrp, op, writes, losses, dropped>>
  <2>1. ~Deleting(p.lpn)
    BY <1>2, <1>3, Sizes DEF Kept, BufForm, Good, Deleting
  <2>2. UpTo(p.data, writes)
    BY <1>2, <1>3, <1>4 DEF Kept, Past, UpTo
  <2>3. ASSUME p.lpn \notin reverted', NEW s \in Secs
        PROVE  map[p.lpn][s] <= p.data[s] /\ secured[p.lpn][s] <= p.data[s]
    <3>1. Trusted /\ p.lpn \notin reverted
      BY <1>3, <1>5, <2>3 DEF Trusted
    <3>2. CASE s \in buf.valid
      BY <1>1, <1>2, <1>3, <1>4, <3>1, <3>2 DEF Kept, Data0, BufNewest
    <3>3. CASE s \notin buf.valid
      <4>1. Mapped(p.lpn, s) /\ map[p.lpn][s] \in Nat
        BY <1>2, <1>3, <2>3, <3>1, Typed DEF Kept, Data0, PagesKept, PageKept
      <4>2. secured[p.lpn][s] <= map[p.lpn][s]
        BY <1>1, <1>2, <1>3, <3>3, <4>1 DEF Mapped, Buffered
      <4>3. QED BY <1>4, <3>3, <4>1, <4>2
    <3>4. QED BY <3>2, <3>3
  <2>4. /\ ~buf'.dirty /\ buf'.lpn = buf.lpn /\ buf'.valid = buf.valid /\ buf'.data = buf.data
        /\ buf'.cp = buf.cp
    BY <1>2, <1>5 DEF Bufs
  <2>5. buf.lpn = p.lpn => \A s \in buf.valid : p.data[s] = buf.data[s]
    BY <1>2, <1>4 DEF Bufs
  <2>6. reverted \subseteq reverted' /\ reverted' \subseteq reverted \cup {p.lpn}
    BY <1>3, <1>5
  <2>7. Programs(g, p)
    BY <1>1, <1>2, <1>3, <1>5, <2>1, <2>2, <2>3, <2>4, <2>5, <2>6 DEF Programs
  <2>8. QED BY <1>1, <1>2, <1>3, <1>4, <1>5, <2>7
<1>6. TornLogPage(g) \/ (Programs(g, p) /\ op' = op /\ ~flushing')
  BY <1>5 DEF FlushPage
<1>7. QED BY <1>1, <1>2, <1>3, <1>4, <1>6

\* The flush of the buffered page keeps the invariant.
LEMMA FlushPageKept ==
  ASSUME Inv, Inv', Kept, FlushPage
  PROVE  Kept'
<1> SUFFICES ASSUME NEW g, g = Grp(buf.lpn),
                    NEW p, p = [lpn |-> buf.lpn, data |-> Read(buf.lpn), confirm |-> TRUE]
             PROVE  Kept'
  OBVIOUS
<1>1. /\ flushing /\ buf.dirty /\ open /\ op.step # "bmt" /\ op.step # "store"
      /\ g \in Groups /\ p.lpn = buf.lpn /\ p.confirm
      /\ \A s \in Secs : p.data[s] = IF s \in buf.valid THEN buf.data[s] ELSE map[p.lpn][s]
      /\ TornLogPage(g) \/ (Programs(g, p) /\ op' = op /\ ~flushing')
  BY FlushPagePrograms
<1>2. CASE TornLogPage(g)
  BY <1>1, <1>2, TornKept
<1>3. CASE Programs(g, p) /\ op' = op /\ ~flushing'
  <2>1. Data0' /\ BufForm' /\ Past'
    BY <1>1, <1>3, ProgramKept
  <2>2. ToCome'
    <3>1. ASSUME NEW l \in Lpns, Ahead(l)'
          PROVE  Ahead(l) /\ (l = p.lpn => \A s \in Secs : p.data[s] < writes)
      <4>1. Ahead(l)
        BY <1>3, <3>1 DEF Ahead
      <4>2. \A s \in Secs : map[l][s] < writes /\ (buf.lpn = l => buf.data[s] < writes)
        BY <4>1 DEF Kept, ToCome
      <4>3. QED BY <1>1, <4>1, <4>2
    <3>2. QED BY <1>1, <1>3, <3>1, ProgramToCome
  <2>3. Place'
    <3>1. ~Opening("flush")
      BY <1>1 DEF Kept, Place, Flushed
    <3>2. QED BY <1>1, <1>3, <3>1, ProgramPlace
  <2>4. StepsOf' /\ WriteWhole' /\ DeletesOne'
    BY <1>3 DEF Kept, Calls, StepsOf, WriteWhole, Whole, DeletesOne, Programs
  <2>5. ToBuffer'
    BY <1>1, <1>3 DEF Kept, Calls, ToBuffer, Bits, Prefix, Programs
  <2>6. QED BY <2>1, <2>2, <2>3, <2>4, <2>5 DEF Kept, Calls
<1>4. QED BY <1>1, <1>2, <1>3

\* On to the next page, behind the one in hand.
LEMMA AdvanceAhead ==
  ASSUME op \in Ops, op.kind = "write", InRange(op), Advance(op.lpn)
  PROVE  /\ op'.kind = "write" /\ op'.step \in {"page", "reserve"}
         /\ op'.to = op.to /\ op'.last = op.last
         /\ \A l \in Lpns : Ahead(l)' => Ahead(l) /\ l > op.lpn
<1>1. op.lpn \in Nat /\ op.lpn \in Lpns
  BY WritesPage, Sizes
<1>2. CASE op.lpn = EndLpn
  <2>1. op' = [op EXCEPT !.step = "reserve"]
    BY <1>2 DEF Advance
  <2>2. op'.kind = "write" /\ op'.step = "reserve" /\ op'.lpn = op.lpn /\ op'.to = op.to
        /\ op'.last = op.last
    BY <2>1 DEF Ops
  <2>3. QED BY <2>2 DEF Ahead
<1>3. CASE op.lpn # EndLpn
  <2>1. op' = [op EXCEPT !.lpn = op.lpn + 1, !.step = "page"]
    BY <1>3 DEF Advance
  <2>2. op'.kind = "write" /\ op'.step = "page" /\ op'.lpn = op.lpn + 1 /\ op'.to = op.to
        /\ op'.last = op.last
    BY <2>1 DEF Ops
  <2>3. ASSUME NEW l \in Lpns, Ahead(l)' PROVE l > op.lpn
    <3>1. l \in Nat
      BY Sizes
    <3>2. QED BY <1>1, <2>2, <2>3, <3>1 DEF Ahead
  <2>4. QED BY <2>2, <2>3 DEF Ahead
<1>4. QED BY <1>2, <1>3

\* The next page of a write.
LEMMA AdvanceCalls ==
  ASSUME Kept, op \in Ops, op.kind = "write", InRange(op), op.step # "start",
         Advance(op.lpn), delGrp' = delGrp
  PROVE  Calls'
<1>1. /\ op'.kind = "write" /\ op'.step \in {"page", "reserve"}
      /\ op'.to = op.to /\ op'.last = op.last
  BY AdvanceAhead
<1>2. WriteWhole'
  BY <1>1 DEF Kept, Calls, WriteWhole, Whole
<1>3. QED BY <1>1, <1>2 DEF Calls, StepsOf, ToBuffer, DeletesOne

\* A page of the buffer block has sectors.
LEMMA GoodValid ==
  ASSUME NEW p, Good(p), p.valid \subseteq Secs
  PROVE  0 \in p.valid /\ 0 \in Secs
<1>1. PICK k \in Secs : p.valid = 0 .. k
  BY DEF Good, Prefix
<1>2. k \in Nat
  BY Sizes
<1>3. QED BY <1>1, <1>2

\* A page of the running write is programmed to the log.
LEMMA WriteLogPagePrograms ==
  ASSUME Inv, Kept, WriteLogPage, NEW l, l = op.lpn, NEW g, g = Grp(l),
         NEW p, p = [lpn |-> l, data |-> NewData(l), confirm |-> l = EndLpn \/ BufSrc(l) # {}]
  PROVE  /\ op.kind = "write" /\ op.step = "page" /\ op \in Ops /\ InRange(op) /\ open
         /\ l \in Lpns /\ g \in Groups /\ p.lpn = l
         /\ p.confirm <=> l = EndLpn \/ BufSrc(l) # {}
         /\ TornLogPage(g) \/ (Programs(g, p) /\ Advance(l))
<1>1. /\ op.kind = "write" /\ op.step = "page" /\ ~flushing /\ g \notin unscanned /\ HasRoom(g)
      /\ ~DetermineBufferWrite(l)
  BY DEF WriteLogPage, At
<1>2. /\ Types /\ op \in Ops /\ InRange(op) /\ l \in Lpns /\ g \in Groups /\ open /\ buf \in Bufs
      /\ buf.valid \subseteq Secs /\ Bits(l) \subseteq Secs /\ Bits(l) # {}
  BY <1>1, Opened, WritesPage, BitsThere, BufTyped DEF Inv, Types, CallTypes, Ranged
<1>3. p \in LogPage /\ p.lpn = l /\ p.data = NewData(l)
      /\ (p.confirm <=> l = EndLpn \/ BufSrc(l) # {})
  <2>1. NewData(l) \in Data
    BY <1>2, NewDataType
  <2>2. QED BY <1>2, <2>1 DEF LogPage
<1>4. CASE /\ ProgramLogPage(g, p)
           /\ buf' = IF Bits(l) # Secs /\ l = buf.lpn
                     THEN [buf EXCEPT !.dirty = FALSE] ELSE buf
           /\ Advance(l)
           /\ secured' = IF p.confirm THEN Secure(g, map', buf') ELSE secured
           /\ UNCHANGED <<active, stored, pmt, bblk, storedBBlk, open,
                          unscanned, bBlkVbn, delGrp, flushing, writes,
                          losses, dropped, reverted>>
  <2>1. ~Deleting(p.lpn)
    <3>1. delGrp = None
      BY <1>1 DEF Kept, Calls, WriteWhole
    <3>2. QED BY <1>2, <1>3, <3>1, Sizes DEF Deleting
  <2>2. \A s \in Secs : p.data[s] = IF s \in Bits(l) THEN writes
                                    ELSE IF Buffered(l, s) THEN buf.data[s] ELSE map[l][s]
    BY <1>2, <1>3 DEF NewData, Read, Merged, Buffered
  <2>3. buf.lpn = l => Bits(l) \cap buf.valid = {}
    BY <1>1 DEF DetermineBufferWrite
  <2>4. buf.lpn = l => Good(buf) /\ 0 \in buf.valid /\ 0 \in Secs
    BY <1>2, Sizes, GoodValid DEF Kept, BufForm
  <2>5. buf.lpn = l => Bits(l) # Secs
    BY <2>3, <2>4
  <2>6. \A s \in Secs : /\ map[l][s] \in Nat /\ secured[l][s] \in Nat /\ writes \in Nat
                        /\ map[l][s] <= writes /\ secured[l][s] <= writes /\ buf.data[s] <= writes
    <3>1. writes \in Nat
      BY <1>2, SizesAssumption DEF Types, MapTypes
    <3>2. QED BY <1>2, <3>1, Typed DEF Kept, Past, UpTo
  <2>7. UpTo(p.data, writes)
    BY <2>2, <2>6 DEF UpTo
  <2>8. ASSUME p.lpn \notin reverted', NEW s \in Secs
        PROVE  map[p.lpn][s] <= p.data[s] /\ secured[p.lpn][s] <= p.data[s]
    <3>1. Trusted /\ l \notin reverted
      BY <1>1, <1>3, <1>4, <2>8 DEF Trusted
    <3>2. CASE s \in Bits(l)
      BY <1>3, <2>2, <2>6, <3>2
    <3>3. CASE s \notin Bits(l) /\ Buffered(l, s)
      BY <1>2, <1>3, <2>2, <3>1, <3>3 DEF Kept, Data0, BufNewest, Buffered
    <3>4. CASE s \notin Bits(l) /\ ~Buffered(l, s)
      <4>1. Mapped(l, s)
        BY <1>2, <3>1 DEF Kept, Data0, PagesKept, PageKept
      <4>2. secured[l][s] <= map[l][s]
        BY <1>1, <1>2, <3>4, <4>1 DEF Mapped
      <4>3. QED BY <1>3, <2>2, <2>6, <3>4, <4>2
    <3>5. QED BY <3>2, <3>3, <3>4
  <2>9. buf.lpn = p.lpn => \A s \in buf.valid : p.data[s] = buf.data[s]
    <3> SUFFICES ASSUME buf.lpn = l, NEW s \in buf.valid PROVE p.data[s] = buf.data[s]
      BY <1>3
    <3>1. s \in Secs /\ s \notin Bits(l)
      BY <1>2, <2>3
    <3>2. CASE buf.dirty
      BY <2>2, <3>1, <3>2 DEF Buffered
    <3>3. CASE ~buf.dirty
      <4>1. map[l][s] = buf.data[s]
        BY <1>2, <3>3, Sizes DEF Kept, Data0, BufClean
      <4>2. QED BY <2>2, <3>1, <3>3, <4>1 DEF Buffered
    <3>4. QED BY <3>2, <3>3
  <2>10. buf.lpn = p.lpn /\ buf.dirty => p.confirm
    BY <1>3, <2>3, <2>4 DEF BufSrc
  <2>11. /\ buf'.dirty <=> buf.dirty /\ buf.lpn # p.lpn
         /\ buf'.lpn = buf.lpn /\ buf'.valid = buf.valid /\ buf'.data = buf.data
         /\ buf'.cp = buf.cp
    <3>1. CASE buf.lpn = l
      BY <1>2, <1>3, <1>4, <2>5, <3>1 DEF Bufs
    <3>2. CASE buf.lpn # l
      BY <1>3, <1>4, <3>2
    <3>3. QED BY <3>1, <3>2
  <2>12. /\ op'.kind = "write" /\ op'.step \in {"page", "reserve"}
         /\ \A k \in Lpns : Ahead(k)' => Ahead(k) /\ k > l
    BY <1>1, <1>2, <1>4, AdvanceAhead
  <2>13. Programs(g, p)
    BY <1>1, <1>2, <1>3, <1>4, <2>1, <2>7, <2>8, <2>9, <2>10, <2>11, <2>12 DEF Programs
  <2>14. QED BY <1>1, <1>2, <1>3, <1>4, <2>13
<1>5. TornLogPage(g) \/ (Programs(g, p) /\ Advance(l))
  BY <1>4 DEF WriteLogPage
<1>6. QED BY <1>1, <1>2, <1>3, <1>5

LEMMA WriteLogPageKept ==
  ASSUME Inv, Inv', Kept, WriteLogPage
  PROVE  Kept'
<1> SUFFICES ASSUME NEW l, l = op.lpn, NEW g, g = Grp(l),
                    NEW p, p = [lpn |-> l, data |-> NewData(l),
                                confirm |-> l = EndLpn \/ BufSrc(l) # {}]
             PROVE  Kept'
  OBVIOUS
<1>1. /\ op.kind = "write" /\ op.step = "page" /\ op \in Ops /\ InRange(op) /\ open
      /\ l \in Lpns /\ g \in Groups /\ p.lpn = l
      /\ TornLogPage(g) \/ (Programs(g, p) /\ Advance(l))
  BY WriteLogPagePrograms
<1>2. CASE TornLogPage(g)
  BY <1>1, <1>2, TornKept
<1>3. CASE Programs(g, p) /\ Advance(l)
  <2>1. /\ op'.kind = "write" /\ op'.step \in {"page", "reserve"}
        /\ \A k \in Lpns : Ahead(k)' => Ahead(k) /\ k > l
    BY <1>1, <1>3, AdvanceAhead
  <2>2. Data0' /\ BufForm' /\ Past'
    BY <1>1, <1>3, ProgramKept
  <2>3. ToCome'
    <3>1. ASSUME NEW k \in Lpns, Ahead(k)'
          PROVE  Ahead(k) /\ (k = p.lpn => \A s \in Secs : p.data[s] < writes)
      <4>1. k # p.lpn
        BY <1>1, <2>1, <3>1, Sizes
      <4>2. QED BY <2>1, <3>1, <4>1
    <3>2. QED BY <1>1, <1>3, <3>1, ProgramToCome
  <2>4. Place'
    BY <1>1, <1>3, <2>1, ProgramPlace DEF Opening
  <2>5. Calls'
    BY <1>1, <1>3, AdvanceCalls DEF Programs
  <2>6. QED BY <2>2, <2>3, <2>4, <2>5 DEF Kept
<1>4. QED BY <1>1, <1>2, <1>3
-----------------------------------------------------------------------------
(***************************************************************************)
(* The page in the buffer block.                                           *)
(***************************************************************************)
\* The sectors in front of the last one: of the request, of a dirty buffer, or
\* copied from the log.
LEMMA Joined ==
  ASSUME NEW v, NEW w, v \subseteq Secs, v # {}, w \subseteq Secs, w = {} \/ Prefix(w),
         \A x \in v, y \in v, s \in Secs : x <= s /\ s <= y => s \in v,
         Prefix(v) \/ v \cap w # {}
  PROVE  Prefix(v \cup w)
<1> DEFINE d == v \cup w
<1>1. Secs = 0 .. SecPerVPg - 1 /\ SecPerVPg - 1 \in Nat
  BY SizesAssumption DEF Secs
<1>2. Max(d) \in d /\ \A s \in d : s <= Max(d)
  <2>1. d \subseteq 0 .. SecPerVPg - 1 /\ d # {}
    BY <1>1
  <2> HIDE DEF d
  <2>2. QED BY <1>1, <2>1, MaxIn
<1> DEFINE m == Max(d)
<1>3. m \in d /\ m \in Secs /\ m \in Nat /\ \A s \in d : s <= m
  <2>1. m \in d /\ \A s \in d : s <= m
    BY <1>2
  <2> HIDE DEF m
  <2>2. m \in Secs
    BY <2>1
  <2>3. QED BY <1>1, <2>1, <2>2
<1> HIDE DEF m
<1>4. ASSUME NEW s \in 0 .. m PROVE s \in d
  <2>1. s \in Secs /\ s \in Nat
    BY <1>1, <1>3
  <2>2. CASE m \in w
    <3>1. PICK k \in Secs : w = 0 .. k
      BY <2>2 DEF Prefix
    <3>2. QED BY <1>1, <1>3, <2>1, <2>2, <3>1
  <2>3. CASE m \in v /\ Prefix(v)
    <3>1. PICK k \in Secs : v = 0 .. k
      BY <2>3 DEF Prefix
    <3>2. QED BY <1>1, <1>3, <2>1, <2>3, <3>1
  <2>4. CASE m \in v /\ v \cap w # {}
    <3>1. PICK k \in Secs : w = 0 .. k
      BY <2>4 DEF Prefix
    <3>2. PICK x \in v : x \in 0 .. k
      BY <2>4, <3>1
    <3>3. x \in Nat /\ k \in Nat
      BY <1>1, <2>4, <3>2
    <3>4. CASE s <= k
      BY <2>1, <3>1, <3>3, <3>4
    <3>5. CASE s > k
      <4>1. x <= s
        BY <2>1, <3>2, <3>3, <3>5
      <4>2. s <= m
        BY <1>3, <2>1
      <4>3. s \in v
        BY <2>1, <2>4, <3>2, <4>1, <4>2
      <4>4. QED BY <4>3
    <3>6. QED BY <2>1, <3>3, <3>4, <3>5
  <2>5. QED BY <1>3, <2>2, <2>3, <2>4
<1>5. d = 0 .. m
  <2>1. \A s \in d : s \in 0 .. m
    BY <1>1, <1>3
  <2>2. QED BY <1>4, <2>1
<1>6. QED BY <1>3, <1>5 DEF Prefix

\* The sectors of the page that goes to the buffer block are the ones in front
\* of its last one.
LEMMA BufferBitsAre ==
  ASSUME Inv, Kept, op.kind = "write", op.step = "buffer", ~flushing, NEW l, l = op.lpn
  PROVE  /\ Prefix(BufferBits(l)) /\ BufferBits(l) \subseteq Secs /\ Bits(l) \subseteq BufferBits(l)
         /\ BufSrc(l) \subseteq BufferBits(l)
<1> DEFINE dst == Bits(l) \cup BufSrc(l)
           r == l * SecPerVPg
<1>1. /\ Types /\ op \in Ops /\ InRange(op) /\ open /\ l \in Lpns /\ buf.valid \subseteq Secs
      /\ Bits(l) \subseteq Secs /\ Bits(l) # {} /\ BufferBits(l) \subseteq Secs
  BY Opened, WritesPage, BitsThere, BufTyped, BufferBitsType DEF Inv, Types, CallTypes, Ranged
<1>2. Bits(l) = {s \in Secs : r + s \in op.from .. op.to}
  BY DEF Bits
<1>3. r \in Int /\ op.from \in Int /\ op.to \in Int
  BY <1>1, Sizes, SizesAssumption DEF Ops
<1> HIDE DEF r
<1>4. Secs = 0 .. SecPerVPg - 1 /\ SecPerVPg - 1 \in Nat
  BY SizesAssumption DEF Secs
<1>5. \/ buf.lpn = l /\ Bits(l) \cap buf.valid # {}
      \/ Prefix(Bits(l))
  BY DEF Kept, Calls, ToBuffer
<1>6. CASE map[l] = Blank
  <2>1. BufferBits(l) = dst
    BY <1>6 DEF BufferBits
  <2>2. buf.lpn = l => Good(buf)
    BY <1>1, Sizes DEF Kept, BufForm
  <2>3. CASE buf.dirty /\ buf.lpn = l
    <3>1. BufSrc(l) = buf.valid \ Bits(l) /\ dst = Bits(l) \cup buf.valid
      BY <2>3 DEF BufSrc
    <3>2. Prefix(buf.valid)
      BY <2>2, <2>3 DEF Good
    <3>3. Prefix(Bits(l) \cup buf.valid)
      <4>1. \A x \in Bits(l), y \in Bits(l), s \in Secs : x <= s /\ s <= y => s \in Bits(l)
        <5> SUFFICES ASSUME NEW x \in Bits(l), NEW y \in Bits(l), NEW s \in Secs, x <= s, s <= y
                     PROVE  r + s \in op.from .. op.to
          BY <1>2
        <5>1. r + x \in op.from .. op.to /\ r + y \in op.from .. op.to
          BY <1>2
        <5>2. x \in Int /\ y \in Int /\ s \in Int
          BY <1>1, <1>4
        <5>3. QED BY <1>3, <5>1, <5>2
      <4>2. Prefix(Bits(l)) \/ Bits(l) \cap buf.valid # {}
        BY <1>5
      <4>3. QED BY <1>1, <3>2, <4>1, <4>2, Joined
    <3>4. QED BY <1>1, <2>1, <3>1, <3>3
  <2>4. CASE ~(buf.dirty /\ buf.lpn = l)
    <3>1. BufSrc(l) = {} /\ dst = Bits(l)
      BY <2>4 DEF BufSrc
    <3>2. Prefix(Bits(l))
      <4>1. SUFFICES ASSUME buf.lpn = l PROVE FALSE
        BY <1>5
      <4>2. PICK s \in buf.valid : buf.data[s] > 0
        BY <2>2, <4>1 DEF Good
      <4>3. map[l][s] = buf.data[s]
        BY <1>1, <2>4, <4>1, Sizes DEF Kept, Data0, BufClean
      <4>4. map[l][s] = 0
        BY <1>1, <1>6 DEF Blank
      <4>5. QED BY <4>2, <4>3, <4>4
    <3>3. QED BY <1>1, <2>1, <3>1, <3>2
  <2>5. QED BY <2>3, <2>4
<1>7. CASE map[l] # Blank
  <2>1. BufferBits(l) = dst \cup 0 .. Max(dst)
    BY <1>7 DEF BufferBits
  <2>2. dst \subseteq 0 .. SecPerVPg - 1 /\ dst # {}
    BY <1>1, <1>4 DEF BufSrc
  <2> HIDE DEF dst
  <2>3. Max(dst) \in dst /\ \A s \in dst : s <= Max(dst)
    BY <1>4, <2>2, MaxIn
  <2> DEFINE m == Max(dst)
  <2>4. m \in dst /\ (\A s \in dst : s <= m) /\ BufferBits(l) = dst \cup 0 .. m
    BY <2>1, <2>3
  <2> HIDE DEF m
  <2>5. m \in Secs /\ \A s \in dst : s \in 0 .. m
    BY <1>4, <2>2, <2>4
  <2>6. BufferBits(l) = 0 .. m
    BY <2>4, <2>5
  <2>8. Prefix(BufferBits(l))
    BY <2>5, <2>6 DEF Prefix
  <2>7. QED BY <1>1, <2>1, <2>8 DEF dst
<1>8. QED BY <1>6, <1>7

\* The page is good, it has what is buffered, and it is newer than everything on
\* flash and in RAM.
LEMMA BufferPageIs ==
  ASSUME Inv, Kept, op.kind = "write", op.step = "buffer", ~flushing,
         NEW l, l = op.lpn, NEW bits, bits = BufferBits(l),
         NEW data, data = [s \in Secs |-> IF s \in bits THEN NewData(l)[s] ELSE 0],
         NEW p, p = [lpn |-> l, data |-> data, valid |-> bits]
  PROVE  /\ open /\ l \in Lpns /\ l # None /\ Grp(l) \notin unscanned
         /\ bits \subseteq Secs /\ data \in Data
         /\ p \in BufPage /\ Good(p) /\ Prefix(p.valid)
         /\ UpTo(data, writes)
         /\ buf.dirty => buf.lpn = l /\ buf.valid \subseteq bits
         /\ Overtakes(pages[Grp(l)], stored[Grp(l)], l, bits, data)
         /\ l \notin reverted =>
              \A s \in bits : /\ secured[l][s] <= data[s] /\ map[l][s] <= data[s]
                              /\ Tops(pages[Grp(l)], stored[Grp(l)], pmt[l], l, s, data[s])
<1>1. /\ Types /\ op \in Ops /\ InRange(op) /\ l \in Lpns /\ open /\ buf \in Bufs
      /\ Bits(l) \subseteq Secs /\ Bits(l) # {} /\ Grp(l) \notin unscanned
  BY Opened, WritesPage, BitsThere, BufTyped DEF Inv, Types, CallTypes, Ranged, Phases
<1>2. Prefix(bits) /\ bits \subseteq Secs /\ Bits(l) \subseteq bits /\ BufSrc(l) \subseteq bits
  BY BufferBitsAre
<1>3. NewData(l) \in Data
  BY <1>1, NewDataType
<1>4. data \in Data
  BY <1>2, <1>3, SizesAssumption DEF Data
<1>5. p \in BufPage /\ p.lpn = l /\ p.data = data /\ p.valid = bits
  BY <1>1, <1>2, <1>4 DEF BufPage
<1>6. \A s \in bits : data[s] = IF s \in Bits(l) THEN writes
                                ELSE IF Buffered(l, s) THEN buf.data[s] ELSE map[l][s]
  BY <1>1, <1>2 DEF NewData, Read, Merged, Buffered
<1>7. \A s \in Secs : /\ map[l][s] \in Nat /\ secured[l][s] \in Nat /\ writes \in Nat
                      /\ map[l][s] <= writes /\ secured[l][s] <= writes /\ buf.data[s] <= writes
  <2>1. writes \in Nat
    BY <1>1, SizesAssumption DEF Types, MapTypes
  <2>2. QED BY <1>1, <2>1, Typed DEF Kept, Past, UpTo
<1>8. Ahead(l)
  BY DEF Ahead
<1>9. /\ \A s \in Secs : map[l][s] < writes
      /\ \A s \in Secs : \A i \in Logged(pages[Grp(l)], stored[Grp(l)], l) :
             pages[Grp(l)][i].data[s] < writes
  BY <1>1, <1>8 DEF Kept, ToCome
<1>10. PICK b \in Bits(l) : b \in bits /\ b \in Secs /\ data[b] = writes
  BY <1>1, <1>2, <1>6
<1>11. Good(p)
  <2>1. data[b] > 0
    BY <1>7, <1>9, <1>10
  <2>2. l \notin Deletable
    BY DEF Kept, Calls, ToBuffer
  <2>3. QED BY <1>2, <1>5, <1>10, <2>1, <2>2 DEF Good
<1>12. UpTo(data, writes)
  <2> SUFFICES ASSUME NEW s \in Secs PROVE data[s] <= writes
    BY DEF UpTo
  <2>1. CASE s \in bits
    BY <1>6, <1>7, <2>1
  <2>2. CASE s \notin bits
    <3>1. data[s] = 0 /\ writes \in Nat
      BY <1>7, <2>2
    <3>2. QED BY <3>1
  <2>3. QED BY <2>1, <2>2
<1>13. buf.dirty => buf.lpn = l /\ buf.valid \subseteq bits
  <2>1. buf.dirty => buf.lpn = l
    BY DEF Kept, Calls, ToBuffer
  <2>2. QED BY <1>2, <2>1 DEF BufSrc
<1>14. Overtakes(pages[Grp(l)], stored[Grp(l)], l, bits, data)
  BY <1>9, <1>10 DEF Overtakes
<1>15. ASSUME l \notin reverted, NEW s \in bits
       PROVE  /\ secured[l][s] <= data[s] /\ map[l][s] <= data[s]
              /\ Tops(pages[Grp(l)], stored[Grp(l)], pmt[l], l, s, data[s])
  <2>1. s \in Secs /\ PageKept(l, s) /\ Trusted
    BY <1>1, <1>2, <1>15 DEF Kept, Data0, PagesKept, Trusted
  <2>2. secured[l][s] <= data[s] /\ map[l][s] <= data[s]
    <3>1. CASE s \in Bits(l)
      BY <1>6, <1>7, <2>1, <3>1
    <3>2. CASE s \notin Bits(l) /\ Buffered(l, s)
      BY <1>1, <1>6, <1>15, <2>1, <3>2 DEF Kept, Data0, BufNewest, Buffered
    <3>3. CASE s \notin Bits(l) /\ ~Buffered(l, s)
      <4>1. secured[l][s] <= map[l][s]
        BY <1>1, <2>1, <3>3 DEF PageKept, Mapped
      <4>2. QED BY <1>6, <1>7, <2>1, <3>3, <4>1
    <3>4. QED BY <3>1, <3>2, <3>3
  <2>3. Tops(pages[Grp(l)], stored[Grp(l)], pmt[l], l, s, map[l][s])
    <3>1. Live(Grp(l))
      BY <1>1 DEF Live
    <3>2. ~Deleting(l)
      <4>1. delGrp = None
        BY DEF Kept, Calls, WriteWhole
      <4>2. QED BY <1>1, <4>1, Typed, Sizes, GrpType DEF Deleting
    <3>3. QED BY <2>1, <3>1, <3>2 DEF PageKept, Newest
  <2>4. /\ pages[Grp(l)] \in Seq(LogPage) /\ stored[Grp(l)] \in Nat /\ pmt[l] \in Data
        /\ map[l][s] \in Nat /\ data[s] \in Nat
    <3>1. data[s] \in Nat
      BY <1>4, <2>1, SizesAssumption DEF Data
    <3>2. QED BY <1>1, <2>1, <3>1, Typed
  <2>5. Tops(pages[Grp(l)], stored[Grp(l)], pmt[l], l, s, data[s])
    BY <2>1, <2>2, <2>3, <2>4, Older
  <2>6. QED BY <2>2, <2>5
<1>16. QED BY <1>1, <1>2, <1>4, <1>5, <1>11, <1>12, <1>13, <1>14, <1>15, Sizes

\* What the buffer block is afterwards: a page behind the others, none of them
\* torn, or the first of the other block.
Longer(new, n, page) ==
    /\ n \in {1, 2} /\ new \in [{1, 2} -> Seq(BufPage)]
    /\ BBlkFull => n # storedBBlk /\ new[storedBBlk] = bblk[storedBBlk] /\ new[n] = <<page>>
    /\ ~BBlkFull => /\ n = storedBBlk /\ new[n] = Append(bblk[storedBBlk], page)
                    /\ bblk[storedBBlk] \in Seq(BufPage)
                    /\ \A i \in 1 .. Len(bblk[storedBBlk]) : bblk[storedBBlk][i].lpn # None
    /\ \A k \in {1, 2} : \A i \in 1 .. Len(new[k]) :
          \/ new[k][i] = page
          \/ i \in 1 .. Len(bblk[k]) /\ new[k][i] = bblk[k][i]

\* The buffer block with a page more, or the other one with this page alone.
LEMMA Append2BBlkIs ==
  ASSUME Inv, Kept, open, op.step # "bmt", op.step # "store", NEW page \in BufPage,
         NEW new, new = Append2BBlk(page), NEW n, n = NextBBlk
  PROVE  Longer(new, n, page)
<1>1. /\ bblk \in [{1, 2} -> Seq(BufPage)]
      /\ bBlkVbn \in {1, 2} /\ buf.cp \in 0 .. BufPages
      /\ buf.cp = BufPages \/ Len(bblk[bBlkVbn]) = buf.cp
      /\ BufPages \in Nat \ {0}
  BY SizesAssumption DEF Inv, Types, BlkTypes, CallTypes, Bufs, BufEnds
<1>2. bBlkVbn = storedBBlk
  BY SameBlk
<1>3. n \in {1, 2} /\ new \in [{1, 2} -> Seq(BufPage)]
  BY Append2BBlkKeeps
<1>4. CASE BBlkFull
  <2>1. n = 3 - bBlkVbn /\ n # storedBBlk
    BY <1>1, <1>2, <1>4 DEF NextBBlk
  <2>2. new = [bblk EXCEPT ![n] = <<page>>]
    BY <1>4 DEF Append2BBlk
  <2>3. new[n] = <<page>> /\ \A k \in {1, 2} : k # n => new[k] = bblk[k]
    BY <1>1, <1>3, <2>2
  <2>4. \A k \in {1, 2} : \A i \in 1 .. Len(new[k]) :
               \/ new[k][i] = page
               \/ i \in 1 .. Len(bblk[k]) /\ new[k][i] = bblk[k][i]
    <3> SUFFICES ASSUME NEW k \in {1, 2}, NEW i \in 1 .. Len(new[k])
                 PROVE  \/ new[k][i] = page
                        \/ i \in 1 .. Len(bblk[k]) /\ new[k][i] = bblk[k][i]
      OBVIOUS
    <3>1. CASE k = n
      <4>1. Len(<<page>>) = 1 /\ <<page>>[1] = page
        OBVIOUS
      <4>2. new[k] = <<page>> /\ Len(new[k]) = 1
        BY <2>3, <3>1, <4>1
      <4>4. i = 1
        BY <4>2
      <4>3. QED BY <4>1, <4>2, <4>4
    <3>2. CASE k # n
      BY <2>3, <3>2
    <3>3. QED BY <3>1, <3>2
  <2>5. QED BY <1>1, <1>2, <1>3, <1>4, <2>1, <2>3, <2>4 DEF Longer
<1>5. CASE ~BBlkFull
  <2>1. n = storedBBlk /\ buf.cp < BufPages
    BY <1>1, <1>2, <1>5 DEF NextBBlk, BBlkFull
  <2>2. new = [bblk EXCEPT ![n] = Append(bblk[n], page)]
    BY <1>1, <1>5 DEF Append2BBlk
  <2>3. new[n] = Append(bblk[n], page) /\ \A k \in {1, 2} : k # n => new[k] = bblk[k]
    BY <1>1, <1>3, <2>2
  <2>4. \A i \in 1 .. Len(bblk[storedBBlk]) : bblk[storedBBlk][i].lpn # None
    BY <1>2, <2>1 DEF Kept, BufForm
  <2>5. \A k \in {1, 2} : \A i \in 1 .. Len(new[k]) :
               \/ new[k][i] = page
               \/ i \in 1 .. Len(bblk[k]) /\ new[k][i] = bblk[k][i]
    <3> SUFFICES ASSUME NEW k \in {1, 2}, NEW i \in 1 .. Len(new[k])
                 PROVE  \/ new[k][i] = page
                        \/ i \in 1 .. Len(bblk[k]) /\ new[k][i] = bblk[k][i]
      OBVIOUS
    <3>1. bblk[k] \in Seq(BufPage)
      BY <1>1
    <3>2. CASE k = n
      <4>1. new[k] = Append(bblk[k], page)
        BY <2>3, <3>2
      <4>2. QED BY <3>1, <4>1
    <3>3. CASE k # n
      BY <2>3, <3>3
    <3>4. QED BY <3>2, <3>3
  <2>6. QED BY <1>1, <1>2, <1>3, <1>5, <2>1, <2>3, <2>4, <2>5 DEF Longer
<1>6. QED BY <1>4, <1>5

\* The page is torn.
LEMMA TornBufferKept ==
  ASSUME Inv, Kept, open, op.step # "bmt", op.step # "store", Off, bblk' = Append2BBlk(TornBuf),
         UNCHANGED <<pages, stored, pmt, storedBBlk, writes, secured, dropped, reverted>>
  PROVE  Kept'
<1> SUFFICES ASSUME NEW new, new = Append2BBlk(TornBuf), NEW n, n = NextBBlk PROVE Kept'
  OBVIOUS
<1>1. TornBuf \in BufPage /\ TornBuf.lpn = None /\ TornBuf.data = Blank
  BY TornType DEF TornBuf
<1>2. Longer(new, n, TornBuf)
  BY <1>1, Append2BBlkIs
<1>3. bblk' = new
  OBVIOUS
<1>4. Old' = Old
  <2>1. Old' = ScanBufferBlk(new[storedBBlk])
    BY <1>3 DEF Old
  <2>2. CASE BBlkFull
    BY <1>2, <2>1, <2>2 DEF Old, Longer
  <2>3. CASE ~BBlkFull
    <3>1. new[n] = Append(bblk[storedBBlk], TornBuf) /\ n = storedBBlk
      BY <1>2, <2>3 DEF Longer
    <3>2. /\ bblk[storedBBlk] \in Seq(BufPage)
          /\ \A i \in 1 .. Len(bblk[storedBBlk]) : bblk[storedBBlk][i].lpn # None
      BY <1>2, <2>3 DEF Longer
    <3>3. ScanBufferBlk(Append(bblk[storedBBlk], TornBuf)) = ScanBufferBlk(bblk[storedBBlk])
      BY <3>2, ScanBufferTorn
    <3>4. QED BY <2>1, <3>1, <3>3 DEF Old
  <2>4. QED BY <2>2, <2>3
<1>5. LogsClean'
  BY DEF Kept, Data0, LogsClean
<1>6. \A l \in Lpns \ reverted, s \in Secs : Rising(l, s)' /\ Safe(l, s)'
  BY <1>4 DEF Kept, Data0, PagesKept, PageKept, Rising, Safe
<1>7. Old'.lpn \in Lpns \ reverted => (OldHeld \/ OldNewer)' /\ (~dropped => OldTops')
  BY <1>4 DEF Kept, Data0, OldKept, OldHeld, OldNewer, OldTops
<1>8. UpTo(Blank, writes)
  BY SizesAssumption DEF UpTo, Blank, Inv, Types, MapTypes
<1>9. \A k \in {1, 2} : \A i \in 1 .. Len(new[k]) :
             /\ new[k][i].lpn # None => Good(new[k][i])
             /\ UpTo(new[k][i].data, writes)
  <2> SUFFICES ASSUME NEW k \in {1, 2}, NEW i \in 1 .. Len(new[k])
               PROVE  (new[k][i].lpn # None => Good(new[k][i])) /\ UpTo(new[k][i].data, writes)
    OBVIOUS
  <2>1. CASE new[k][i] = TornBuf
    BY <1>1, <1>8, <2>1
  <2>2. CASE i \in 1 .. Len(bblk[k]) /\ new[k][i] = bblk[k][i]
    BY <2>2 DEF Kept, Past, BufForm
  <2>3. QED BY <1>2, <2>1, <2>2 DEF Longer
<1>10. \A g \in Groups : \A i \in 1 .. Len(pages'[g]) : UpTo(pages'[g][i].data, writes)
  BY DEF Kept, Past
<1>11. QED BY <1>3, <1>5, <1>6, <1>7, <1>9, <1>10, OffKept

\* A page is programmed to the buffer block.
LEMMA WriteBufferPageKept ==
  ASSUME Inv, Inv', Kept, WriteBufferPage
  PROVE  Kept'
<1> SUFFICES ASSUME NEW l, l = op.lpn, NEW bits, bits = BufferBits(l),
                    NEW data, data = [s \in Secs |-> IF s \in bits THEN NewData(l)[s] ELSE 0],
                    NEW p, p = [lpn |-> l, data |-> data, valid |-> bits],
                    NEW new, new = Append2BBlk(p), NEW n, n = NextBBlk
             PROVE  Kept'
  OBVIOUS
<1>1. op.kind = "write" /\ op.step = "buffer" /\ ~flushing
  BY DEF WriteBufferPage, At
<1>2. /\ open /\ l \in Lpns /\ l # None /\ Grp(l) \notin unscanned
      /\ bits \subseteq Secs /\ data \in Data
      /\ p \in BufPage /\ Good(p) /\ Prefix(p.valid)
      /\ UpTo(data, writes)
      /\ buf.dirty => buf.lpn = l /\ buf.valid \subseteq bits
      /\ Overtakes(pages[Grp(l)], stored[Grp(l)], l, bits, data)
      /\ l \notin reverted =>
           \A s \in bits : /\ secured[l][s] <= data[s] /\ map[l][s] <= data[s]
                           /\ Tops(pages[Grp(l)], stored[Grp(l)], pmt[l], l, s, data[s])
  BY <1>1, BufferPageIs
<1>3. p.lpn = l /\ p.data = data /\ p.valid = bits
  OBVIOUS
<1>4. CASE bblk' = Append2BBlk(TornBuf) /\ Off
           /\ UNCHANGED <<pages, active, stored, pmt, storedBBlk, writes, secured, dropped, reverted>>
  BY <1>1, <1>2, <1>4, TornBufferKept
<1>5. CASE /\ bblk' = new
           /\ bBlkVbn' = n
           /\ buf' = [lpn |-> l, dirty |-> TRUE, valid |-> bits, data |-> data,
                      cp |-> IF BBlkFull THEN 1 ELSE buf.cp + 1]
           /\ dropped' = (dropped /\ BBlkFull)
           /\ GoTo("bmt")
           /\ UNCHANGED <<pages, active, stored, pmt, storedBBlk, open, map, cp,
                          unscanned, delGrp, flushing, writes, losses, secured, reverted>>
  <2>1. /\ op'.step = "bmt" /\ op'.kind = "write" /\ op'.lpn = l
        /\ op'.to = op.to /\ op'.last = op.last
    BY <1>1, <1>5, StepIs DEF Inv, Types, CallTypes, Steps
  <2>0. Longer(new, n, p)
    BY <1>1, <1>2, Append2BBlkIs
  <2>2. /\ n \in {1, 2}
        /\ BBlkFull => n # storedBBlk /\ new[storedBBlk] = bblk[storedBBlk] /\ new[n] = <<p>>
        /\ ~BBlkFull => /\ n = storedBBlk /\ new[n] = Append(bblk[storedBBlk], p)
                        /\ bblk[storedBBlk] \in Seq(BufPage)
                        /\ \A i \in 1 .. Len(bblk[storedBBlk]) : bblk[storedBBlk][i].lpn # None
    BY <2>0 DEF Longer
  <2>3. buf'.lpn = l /\ buf'.dirty /\ buf'.valid = bits /\ buf'.data = data
    BY <1>5
  <2>4. Cur'.lpn = l /\ Cur'.valid = bits /\ Cur'.data = data
    <3>1. Cur' = ScanBufferBlk(new[n])
      BY <1>5 DEF Cur
    <3>2. ScanBufferBlk(new[n]) = [lpn |-> p.lpn, dirty |-> TRUE, valid |-> p.valid,
                                   data |-> p.data, cp |-> BufPages]
      <4>1. CASE BBlkFull
        BY <1>2, <1>3, <2>2, <4>1, ScanBufferOne
      <4>2. CASE ~BBlkFull
        <5>1. ScanBufferBlk(Append(bblk[storedBBlk], p)) =
                [lpn |-> p.lpn, dirty |-> TRUE, valid |-> p.valid, data |-> p.data, cp |-> BufPages]
          BY <1>2, <1>3, <2>2, <4>2, ScanBufferLast
        <5>2. QED BY <2>2, <4>2, <5>1
      <4>3. QED BY <4>1, <4>2
    <3>3. QED BY <1>3, <3>1, <3>2
  <2>5. BBlkFull => Old' = Old
    <3>1. Old' = ScanBufferBlk(new[storedBBlk])
      BY <1>5 DEF Old
    <3>2. QED BY <2>2, <3>1 DEF Old
  <2>6. ~BBlkFull => Old' = Cur'
    BY <1>5, <2>2 DEF Old, Cur
  <2>7. OldInBuf => Old.lpn = l /\ Old.valid \subseteq bits
    BY <1>2 DEF OldInBuf
  <2>8. LogsClean' /\ Unread' /\ Behind'
    BY <1>5 DEF Kept, Data0, LogsClean, Unread, Behind
  <2>9. PagesKept'
    <3> SUFFICES ASSUME NEW k \in Lpns \ reverted, NEW s \in Secs PROVE PageKept(k, s)'
      BY <1>5 DEF PagesKept
    <3>1. PageKept(k, s) /\ OldKept
      BY DEF Kept, Data0, PagesKept
    <3>2. Live(Grp(k))' => Live(Grp(k))
      BY <1>5, <2>1 DEF Live
    <3>3. Rising(k, s)'
      BY <1>5, <3>1 DEF PageKept, Rising
    <3>4. Safe(k, s)'
      <4>1. CASE BBlkFull
        BY <1>5, <2>5, <3>1, <4>1 DEF PageKept, Safe
      <4>2. CASE ~BBlkFull /\ Old.lpn = k /\ s \in Old.valid
        <5>1. CASE OldHeld
          BY <1>5, <4>2, <5>1 DEF OldHeld, Safe
        <5>2. CASE OldInBuf
          BY <2>4, <2>6, <2>7, <4>2, <5>2 DEF Safe
        <5>3. QED BY <1>2, <3>1, <4>2, <5>1, <5>2 DEF OldKept
      <4>3. CASE ~(Old.lpn = k /\ s \in Old.valid)
        BY <1>5, <3>1, <4>3 DEF PageKept, Safe
      <4>4. QED BY <4>1, <4>2, <4>3
    <3>5. Mapped(k, s)'
      <4>1. Buffered(k, s) => Buffered(k, s)'
        BY <1>2, <2>3 DEF Buffered
      <4>2. QED BY <1>5, <3>1, <4>1 DEF PageKept, Mapped
    <3>6. Traced(k, s)'
      BY <1>5, <3>1, <3>2 DEF PageKept, Traced
    <3>7. Newest(k, s)'
      BY <1>5, <3>1, <3>2 DEF PageKept, Newest, Deleting
    <3>8. Covered(k, s)'
      BY <1>5, <3>1 DEF PageKept, Covered, Deleting
    <3>9. QED BY <3>3, <3>4, <3>5, <3>6, <3>7, <3>8 DEF PageKept
  <2>10. OldKept'
    <3> SUFFICES ASSUME Old'.lpn \in Lpns \ reverted
                 PROVE  (OldHeld \/ OldNewer)' /\ (~dropped' => OldTops') /\ (OldHeld \/ OldInBuf)'
      BY <1>5 DEF OldKept
    <3>1. CASE BBlkFull
      <4>1. Old' = Old /\ (dropped' <=> dropped)
        BY <1>5, <2>5, <3>1
      <4>2. (OldHeld \/ OldNewer) /\ (~dropped => OldTops) /\ (OldHeld \/ OldInBuf)
        BY <1>2, <4>1 DEF Kept, Data0, OldKept
      <4>3. (OldHeld => OldHeld') /\ (OldNewer => OldNewer') /\ (OldTops => OldTops')
        BY <1>5, <4>1 DEF OldHeld, OldNewer, OldTops
      <4>4. OldInBuf => OldInBuf'
        BY <2>3, <2>7, <4>1 DEF OldInBuf
      <4>5. QED BY <4>1, <4>2, <4>3, <4>4
    <3>2. CASE ~BBlkFull
      <4>1. Old'.lpn = l /\ Old'.valid = bits /\ Old'.data = data /\ ~dropped'
        BY <1>5, <2>4, <2>6, <3>2
      <4>2. OldNewer'
        BY <1>2, <1>5, <4>1 DEF OldNewer
      <4>3. OldTops'
        BY <1>2, <1>5, <4>1 DEF OldTops
      <4>4. OldInBuf'
        BY <2>3, <4>1 DEF OldInBuf
      <4>5. QED BY <4>2, <4>3, <4>4
    <3>3. QED BY <3>1, <3>2, <1>5
  <2>11. BufClean' /\ BufNewest' /\ BufTops'
    BY <1>2, <1>5, <2>3 DEF BufClean, BufNewest, BufTops
  <2>12. \A k \in {1, 2} : \A i \in 1 .. Len(new[k]) :
             /\ new[k][i].lpn # None => Good(new[k][i])
             /\ UpTo(new[k][i].data, writes)
    <3> SUFFICES ASSUME NEW k \in {1, 2}, NEW i \in 1 .. Len(new[k])
                 PROVE  (new[k][i].lpn # None => Good(new[k][i])) /\ UpTo(new[k][i].data, writes)
      OBVIOUS
    <3>1. CASE new[k][i] = p
      BY <1>2, <1>3, <3>1
    <3>2. CASE i \in 1 .. Len(bblk[k]) /\ new[k][i] = bblk[k][i]
      BY <3>2 DEF Kept, Past, BufForm
    <3>3. QED BY <2>0, <3>1, <3>2 DEF Longer
  <2>13. BufForm'
    <3>1. Good(buf')
      BY <1>2, <1>3, <2>3 DEF Good
    <3>2. \A i \in 1 .. Len(new[n]) : new[n][i].lpn # None
      <4>1. CASE BBlkFull
        <5>1. new[n] = <<p>> /\ Len(<<p>>) = 1 /\ <<p>>[1] = p
          BY <2>2, <4>1
        <5>2. QED BY <1>2, <1>3, <5>1
      <4>2. CASE ~BBlkFull
        <5>1. new[n] = Append(bblk[storedBBlk], p)
          BY <2>2, <4>2
        <5>2. \A i \in 1 .. Len(Append(bblk[storedBBlk], p)) :
                 \/ i \in 1 .. Len(bblk[storedBBlk]) /\ Append(bblk[storedBBlk], p)[i] = bblk[storedBBlk][i]
                 \/ Append(bblk[storedBBlk], p)[i] = p
          BY <2>2, <4>2
        <5>3. \A i \in 1 .. Len(Append(bblk[storedBBlk], p)) : Append(bblk[storedBBlk], p)[i].lpn # None
          BY <1>2, <1>3, <2>2, <4>2, <5>2
        <5>4. QED BY <5>1, <5>3
      <4>3. QED BY <1>5, <4>1, <4>2
    <3>3. \A k \in {1, 2} : \A i \in 1 .. Len(bblk'[k]) :
              bblk'[k][i].lpn # None => Good(bblk'[k][i])
      BY <1>5, <2>12
    <3>4. \A i \in 1 .. Len(bblk'[bBlkVbn']) : bblk'[bBlkVbn'][i].lpn # None
      BY <1>5, <3>2
    <3>5. QED BY <3>1, <3>3, <3>4 DEF BufForm
  <2>14. Past'
    <3>1. \A k \in {1, 2} : \A i \in 1 .. Len(bblk'[k]) : UpTo(bblk'[k][i].data, writes')
      BY <1>5, <2>12
    <3>2. UpTo(buf'.data, writes')
      BY <1>2, <1>5, <2>3
    <3>3. /\ \A k \in Lpns : UpTo(map'[k], writes') /\ UpTo(pmt'[k], writes') /\ UpTo(secured'[k], writes')
          /\ \A g \in Groups : \A i \in 1 .. Len(pages'[g]) : UpTo(pages'[g][i].data, writes')
      BY <1>5 DEF Kept, Past
    <3>4. QED BY <3>1, <3>2, <3>3 DEF Past
  <2>15. ToCome'
    <3>1. ASSUME NEW k \in Lpns, Ahead(k)' PROVE Ahead(k) /\ k # l
      <4>1. k > l /\ k \in Nat /\ l \in Nat
        BY <1>2, <2>1, <3>1, Sizes DEF Ahead
      <4>2. QED BY <1>1, <4>1 DEF Ahead
    <3>2. QED BY <1>5, <2>3, <3>1 DEF Kept, ToCome
  <2>16. Place'
    <3>1. InBlock' /\ SameBlock' /\ GivenUp'
      BY <1>2, <2>1, <2>3, <2>4 DEF InBlock, SameBlock, GivenUp
    <3>2. Scanned'
      <4>1. Old.lpn # None => Grp(Old.lpn) \notin unscanned
        BY <1>1, <1>2 DEF Kept, Place, Scanned, Opening
      <4>2. QED BY <1>2, <1>5, <2>3, <2>4, <2>5, <2>6, <4>1 DEF Scanned
    <3>3. Flushed' /\ Storing'
      BY <2>1 DEF Flushed, Storing, Opening
    <3>4. QED BY <3>1, <3>2, <3>3 DEF Place
  <2>17. Calls'
    BY <1>1, <1>5, <2>1 DEF Kept, Calls, StepsOf, WriteWhole, Whole, ToBuffer, DeletesOne
  <2>18. QED BY <2>8, <2>9, <2>10, <2>11, <2>13, <2>14, <2>15, <2>16, <2>17 DEF Kept, Data0
<1>6. QED BY <1>4, <1>5 DEF WriteBufferPage

\* The context on flash names the block of the page.
LEMMA WriteStoreBMTCtxKept ==
  ASSUME Inv, Inv', Kept, WriteStoreBMTCtx
  PROVE  Kept'
<1> SUFFICES ASSUME NEW l, l = buf.lpn PROVE Kept'
  OBVIOUS
<1>1. /\ op.kind = "write" /\ op.step = "bmt" /\ ~flushing
      /\ storedBBlk' = bBlkVbn /\ dropped' = FALSE /\ Advance(op.lpn)
      /\ secured' = [secured EXCEPT ![l] =
                        [s \in Secs |-> IF s \in buf.valid
                                        THEN Max({@[s], buf.data[s]}) ELSE @[s]]]
      /\ UNCHANGED <<pages, active, stored, pmt, bblk, open, map, cp, unscanned,
                     buf, bBlkVbn, delGrp, flushing, writes, losses, reverted>>
  BY DEF WriteStoreBMTCtx, At
<1>2. /\ Types /\ op \in Ops /\ InRange(op) /\ open /\ l = op.lpn /\ l \in Lpns /\ l # None
      /\ Grp(l) \notin unscanned /\ buf.valid \subseteq Secs
  BY <1>1, Opened, WritesPage, BufTyped, Sizes DEF Inv, Types, CallTypes, Ranged, Phases
<1>3. /\ buf.dirty
      /\ l \notin reverted =>
            /\ \A s \in buf.valid :
                  Tops(pages[Grp(l)], stored[Grp(l)], pmt[l], l, s, buf.data[s])
            /\ Overtakes(pages[Grp(l)], stored[Grp(l)], l, buf.valid, buf.data)
  BY <1>1, <1>2 DEF Kept, Data0, BufTops
<1>4. /\ op'.kind = "write" /\ op'.step \in {"page", "reserve"}
      /\ \A k \in Lpns : Ahead(k)' => Ahead(k) /\ k > op.lpn
  BY <1>1, <1>2, AdvanceAhead
<1>5. Cur' = Cur /\ Old' = Cur
  BY <1>1 DEF Old, Cur
<1>6. Old'.lpn = l /\ Old'.valid = buf.valid /\ Old'.data = buf.data
  BY <1>1, <1>2, <1>5 DEF Kept, Place, InBlock, Opening
<1>7. ASSUME NEW k \in Lpns, NEW s \in Secs
      PROVE  IF k = l /\ s \in buf.valid
             THEN secured'[k][s] \in {secured[k][s], buf.data[s]}
             ELSE secured'[k][s] = secured[k][s]
  <2>1. secured \in [Lpns -> Data] /\ buf.data \in Data
    BY <1>2 DEF Types, MapTypes, CallTypes, Bufs
  <2>2. secured[k][s] \in 0 .. MaxWrites /\ buf.data[s] \in 0 .. MaxWrites
    BY <2>1 DEF Data
  <2>3. CASE k = l
    <3>1. secured'[k][s] = IF s \in buf.valid THEN Max({secured[k][s], buf.data[s]}) ELSE secured[k][s]
      BY <1>1, <1>2, <2>1, <2>3
    <3>2. Max({secured[k][s], buf.data[s]}) \in {secured[k][s], buf.data[s]}
      BY <2>2, MaxEither
    <3>3. QED BY <2>3, <3>1, <3>2
  <2>4. CASE k # l
    BY <1>1, <2>1, <2>4
  <2>5. QED BY <2>3, <2>4
<1>8. ASSUME l \notin reverted, NEW s \in buf.valid
      PROVE  secured'[l][s] <= buf.data[s] /\ map[l][s] <= buf.data[s]
  <2>1. secured[l][s] <= buf.data[s] /\ map[l][s] <= buf.data[s]
    BY <1>1, <1>2, <1>3, <1>8 DEF Kept, Data0, BufNewest, Trusted
  <2>2. s \in Secs /\ buf.data[s] \in Nat
    BY <1>2, <1>8, BufTyped
  <2>3. QED BY <1>2, <1>7, <1>8, <2>1, <2>2
<1>9. LogsClean' /\ Unread' /\ Behind'
  BY <1>1 DEF Kept, Data0, LogsClean, Unread, Behind
<1>10. PagesKept'
  <2> SUFFICES ASSUME NEW k \in Lpns \ reverted, NEW s \in Secs PROVE PageKept(k, s)'
    BY <1>1 DEF PagesKept
  <2>1. PageKept(k, s) /\ OldKept
    BY DEF Kept, Data0, PagesKept
  <2>2. Live(Grp(k))' => Live(Grp(k))
    BY <1>1, <1>4 DEF Live
  <2>3. Rising(k, s)'
    BY <1>1, <2>1 DEF PageKept, Rising
  <2>4. Safe(k, s)'
    <3>1. CASE k = l /\ s \in buf.valid
      BY <1>6, <3>1 DEF Safe
    <3>2. CASE ~(k = l /\ s \in buf.valid)
      <4>1. secured'[k][s] = secured[k][s]
        BY <1>7, <3>2
      <4>2. Held(pages[Grp(k)], stored[Grp(k)], pmt[k], k, s, secured[k][s])
        <5>1. CASE Old.lpn = k /\ s \in Old.valid
          <6>1. ~OldInBuf
            BY <1>2, <3>2, <5>1 DEF OldInBuf
          <6>2. OldHeld
            BY <1>2, <2>1, <5>1, <6>1 DEF OldKept
          <6>3. QED BY <5>1, <6>2 DEF OldHeld
        <5>2. CASE ~(Old.lpn = k /\ s \in Old.valid)
          BY <2>1, <5>2 DEF PageKept, Safe
        <5>3. QED BY <5>1, <5>2
      <4>3. QED BY <1>1, <4>1, <4>2 DEF Safe
    <3>3. QED BY <3>1, <3>2
  <2>5. Mapped(k, s)'
    <3>1. CASE k = l /\ s \in buf.valid
      BY <1>1, <1>2, <1>3, <3>1 DEF Mapped, Buffered
    <3>2. CASE ~(k = l /\ s \in buf.valid)
      <4>1. secured'[k][s] = secured[k][s]
        BY <1>7, <3>2
      <4>2. QED BY <1>1, <2>1, <4>1 DEF PageKept, Mapped, Buffered
    <3>3. QED BY <3>1, <3>2
  <2>6. Traced(k, s)'
    BY <1>1, <2>1, <2>2 DEF PageKept, Traced
  <2>7. Newest(k, s)'
    BY <1>1, <2>1, <2>2 DEF PageKept, Newest, Deleting
  <2>8. Covered(k, s)'
    BY <1>1, <2>1 DEF PageKept, Covered, Deleting
  <2>9. QED BY <2>3, <2>4, <2>5, <2>6, <2>7, <2>8 DEF PageKept
<1>11. OldKept'
  <2> SUFFICES ASSUME l \notin reverted PROVE OldNewer' /\ OldTops' /\ OldInBuf'
    BY <1>1, <1>6 DEF OldKept
  <2>1. OldNewer'
    BY <1>1, <1>3, <1>6 DEF OldNewer
  <2>2. OldTops'
    BY <1>1, <1>3, <1>6, <1>8 DEF OldTops
  <2>3. OldInBuf'
    BY <1>1, <1>3, <1>6 DEF OldInBuf
  <2>4. QED BY <2>1, <2>2, <2>3
<1>12. BufClean' /\ BufTops'
  BY <1>1, <1>3, <1>4 DEF BufClean, BufTops
<1>13. BufNewest'
  BY <1>1, <1>8 DEF BufNewest
<1>14. BufForm'
  BY <1>1 DEF Kept, BufForm
<1>15. Past'
  <2>1. \A k \in Lpns : UpTo(secured'[k], writes)
    <3> SUFFICES ASSUME NEW k \in Lpns, NEW s \in Secs PROVE secured'[k][s] <= writes
      BY DEF UpTo
    <3>1. secured[k][s] <= writes /\ buf.data[s] <= writes
      BY DEF Kept, Past, UpTo
    <3>2. secured'[k][s] \in {secured[k][s], buf.data[s]}
      BY <1>7
    <3>3. QED BY <3>1, <3>2
  <2>2. QED BY <1>1, <2>1 DEF Kept, Past
<1>16. ToCome'
  BY <1>1, <1>4 DEF Kept, ToCome
<1>17. Place'
  <2>1. InBlock'
    BY <1>1, <1>5, <1>6 DEF InBlock
  <2>2. SameBlock' /\ GivenUp' /\ Scanned'
    BY <1>1, <1>2, <1>6 DEF SameBlock, GivenUp, Scanned
  <2>3. Flushed' /\ Storing'
    BY <1>4 DEF Flushed, Storing, Opening
  <2>4. QED BY <2>1, <2>2, <2>3 DEF Place
<1>18. Calls'
  BY <1>1, <1>2, AdvanceCalls
<1>19. QED BY <1>9, <1>10, <1>11, <1>12, <1>13, <1>14, <1>15, <1>16, <1>17, <1>18 DEF Kept, Data0
-----------------------------------------------------------------------------
(***************************************************************************)
(* The buffered page is given up, or deleted.                              *)
(***************************************************************************)
\* After its flush the page is in the log: the buffer forgets it.
LEMMA DeleteInvalidateKept ==
  ASSUME Inv, Inv', Kept, DeleteInvalidate
  PROVE  Kept'
<1>1. /\ op.kind = "delete" /\ op.step = "invalidate" /\ ~flushing
      /\ buf' = NoBuf(buf.cp) /\ dropped' = TRUE /\ GoTo("map")
      /\ UNCHANGED <<flash, open, map, cp, unscanned, bBlkVbn, delGrp, flushing,
                     writes, losses, secured, reverted>>
  BY DEF DeleteInvalidate, At
<1>2. /\ Types /\ open /\ ~buf.dirty
      /\ buf'.lpn = None /\ ~buf'.dirty /\ buf'.data = Blank /\ buf'.cp = buf.cp
  BY <1>1, Opened DEF Inv, Kept, Place, Flushed, NoBuf
<1>3. op'.step = "map" /\ op'.kind = "delete" /\ op'.lpn = op.lpn
  BY <1>1, <1>2, StepIs DEF Inv, Types, CallTypes, Steps
<1>4. UNCHANGED <<pages, active, stored, pmt, bblk, storedBBlk>>
  BY <1>1 DEF flash
<1>5. Old' = Old /\ Cur' = Cur /\ bBlkVbn = storedBBlk
  BY <1>1, <1>2, <1>4, SameBlk, BlocksStill
<1>6. LogsClean' /\ Unread' /\ Behind'
  BY <1>1, <1>4 DEF Kept, Data0, LogsClean, Unread, Behind
<1>7. PagesKept'
  <2> SUFFICES ASSUME NEW k \in Lpns \ reverted, NEW s \in Secs PROVE PageKept(k, s)'
    BY <1>1 DEF PagesKept
  <2>1. PageKept(k, s)
    BY DEF Kept, Data0, PagesKept
  <2>2. Live(Grp(k))' => Live(Grp(k))
    BY <1>1, <1>3, <1>4 DEF Live
  <2>3. Rising(k, s)' /\ Safe(k, s)'
    BY <1>1, <1>4, <1>5, <2>1 DEF PageKept, Rising, Safe
  <2>4. Mapped(k, s)'
    BY <1>1, <1>2, <2>1 DEF PageKept, Mapped, Buffered
  <2>5. Traced(k, s)' /\ Newest(k, s)' /\ Covered(k, s)'
    BY <1>1, <1>4, <2>1, <2>2 DEF PageKept, Traced, Newest, Covered, Deleting
  <2>6. QED BY <2>3, <2>4, <2>5 DEF PageKept
<1>8. OldKept'
  <2> SUFFICES ASSUME Old.lpn \in Lpns \ reverted PROVE OldHeld'
    BY <1>1, <1>5 DEF OldKept
  <2>1. OldHeld
    BY <1>2 DEF Kept, Data0, OldKept, OldInBuf
  <2>2. QED BY <1>1, <1>4, <1>5, <2>1 DEF OldHeld
<1>9. BufClean' /\ BufNewest' /\ BufTops'
  BY <1>2, <1>3 DEF BufClean, BufNewest, BufTops
<1>10. BufForm'
  BY <1>1, <1>2, <1>4 DEF Kept, BufForm
<1>11. Past'
  <2>1. UpTo(Blank, writes)
    BY <1>2, SizesAssumption DEF UpTo, Blank, Types, MapTypes
  <2>2. QED BY <1>1, <1>2, <1>4, <2>1 DEF Kept, Past
<1>12. ToCome'
  BY <1>3 DEF ToCome, Ahead
<1>13. Place'
  <2>1. InBlock' /\ SameBlock'
    BY <1>1, <1>2, <1>4, <1>5 DEF InBlock, SameBlock
  <2>2. Old.lpn # None => Grp(Old.lpn) \notin unscanned
    BY <1>1, <1>2 DEF Kept, Place, Scanned, Opening
  <2>3. GivenUp' /\ Scanned'
    BY <1>1, <1>2, <1>5, <2>2 DEF GivenUp, Scanned
  <2>4. Flushed' /\ Storing'
    BY <1>3 DEF Flushed, Storing, Opening
  <2>5. QED BY <2>1, <2>3, <2>4 DEF Place
<1>14. Calls'
  BY <1>1, <1>3 DEF Kept, Calls, StepsOf, WriteWhole, ToBuffer, DeletesOne
<1>15. QED BY <1>6, <1>7, <1>8, <1>9, <1>10, <1>11, <1>12, <1>13, <1>14 DEF Kept, Data0

\* The map of the page is blank: nothing of it is secured any more, and nothing
\* of it is in the buffer block.
LEMMA DeletePageKept ==
  ASSUME Inv, Inv', Kept, DeletePage
  PROVE  Kept'
<1> SUFFICES ASSUME NEW l, l = op.lpn, NEW g, g = Grp(l) PROVE Kept'
  OBVIOUS
<1>1. op.kind = "delete" /\ op.step = "map" /\ ~flushing /\ g \notin unscanned
  BY DEF DeletePage, At
<1>2. Types /\ open /\ l \in Lpns /\ g \in Groups /\ l \in Deletable /\ l # None
  BY <1>1, Opened, GrpType, Sizes DEF Inv, Ranged, Kept, Calls, DeletesOne
<1>3. CASE StoreDeletedInfo
  BY <1>1, <1>2, <1>3, StoreDeletedStores, StoreStepKept
<1>4. CASE /\ delGrp \in {None, g}
           /\ map' = [map EXCEPT ![l] = Blank]
           /\ delGrp' = IF map[l] # Blank THEN g ELSE delGrp
           /\ secured' = [secured EXCEPT ![l] = Blank]
           /\ op' = Idle
           /\ UNCHANGED <<flash, open, cp, unscanned, buf, bBlkVbn,
                          flushing, writes, losses, dropped, reverted>>
  <2>1. op'.kind = "none" /\ op'.step = "none"
    BY <1>4, IdleType
  <2>2. UNCHANGED <<pages, active, stored, pmt, bblk, storedBBlk>>
    BY <1>4 DEF flash
  <2>3. Old' = Old /\ Cur' = Cur /\ bBlkVbn = storedBBlk
    BY <1>1, <1>2, <1>4, <2>2, SameBlk, BlocksStill
  <2>4. /\ \A k \in Lpns : k # l => map'[k] = map[k] /\ secured'[k] = secured[k]
        /\ map'[l] = Blank /\ secured'[l] = Blank
    BY <1>2, <1>4 DEF Types, MapTypes
  <2>5. \A s \in Secs : Blank[s] = 0
    BY DEF Blank
  <2>6. buf.lpn # l /\ Old.lpn # l
    <3>1. buf.lpn # None => buf.lpn \notin Deletable
      BY DEF Kept, BufForm, Good
    <3>2. Old.lpn # None => Old.lpn \notin Deletable
      BY <1>2, OldGood DEF Kept, Good
    <3>3. QED BY <1>2, <3>1, <3>2
  <2>7. LogsClean' /\ Behind'
    BY <1>4, <2>2 DEF Kept, Data0, LogsClean, Behind
  <2>8. Unread'
    <3> SUFFICES ASSUME NEW h \in unscanned, NEW k \in Lpns, Grp(k) = h
                 PROVE  cp[h] = stored[h] /\ map'[k] = pmt[k]
      BY <1>4, <2>2 DEF Kept, Data0, Unread
    <3>1. k # l
      BY <1>1
    <3>2. QED BY <1>2, <2>4, <3>1 DEF Kept, Data0, Unread
  <2>9. PagesKept'
    <3> SUFFICES ASSUME NEW k \in Lpns \ reverted, NEW s \in Secs PROVE PageKept(k, s)'
      BY <1>4 DEF PagesKept
    <3>1. PageKept(k, s)
      BY DEF Kept, Data0, PagesKept
    <3>2. Live(Grp(k))' => Live(Grp(k))
      BY <1>4, <2>1, <2>2 DEF Live
    <3>3. Rising(k, s)'
      BY <2>2, <3>1 DEF PageKept, Rising
    <3>4. CASE k # l
      <4>1. map'[k] = map[k] /\ secured'[k] = secured[k]
        BY <2>4, <3>4
      <4>2. Deleting(k) => Deleting(k)'
        BY <1>2, <1>4, Typed, Sizes, GrpType DEF Deleting
      <4>3. Safe(k, s)'
        BY <2>2, <2>3, <3>1, <4>1 DEF PageKept, Safe
      <4>4. Mapped(k, s)'
        BY <1>4, <3>1, <4>1 DEF PageKept, Mapped, Buffered
      <4>5. Traced(k, s)'
        BY <2>2, <3>1, <3>2, <4>1 DEF PageKept, Traced
      <4>6. Newest(k, s)'
        BY <2>2, <3>1, <3>2, <4>1, <4>2 DEF PageKept, Newest
      <4>7. Covered(k, s)'
        BY <1>4, <2>2, <3>1, <4>1, <4>2 DEF PageKept, Covered
      <4>8. QED BY <3>3, <4>3, <4>4, <4>5, <4>6, <4>7 DEF PageKept
    <3>5. CASE k = l
      <4>1. map'[k][s] = 0 /\ secured'[k][s] = 0 /\ pmt[k][s] \in Nat /\ map[k][s] \in Nat
        BY <1>2, <2>4, <2>5, <3>5, Typed
      <4>2. 0 <= pmt[k][s]
        BY <4>1
      <4>3. Safe(k, s)'
        BY <2>2, <4>1, <4>2 DEF Safe, Held
      <4>4. Mapped(k, s)'
        BY <4>1 DEF Mapped
      <4>5. Traced(k, s)'
        BY <2>2, <4>1, <4>2 DEF Traced, Traces
      <4>6. Newest(k, s)' /\ Covered(k, s)'
        <5>1. CASE map[l] # Blank \/ delGrp = g
          <6>1. Deleting(k)'
            BY <1>2, <1>4, <3>5, <5>1 DEF Deleting
          <6>2. QED BY <6>1 DEF Newest, Covered
        <5>2. CASE map[l] = Blank /\ delGrp # g
          <6>1. map'[k][s] = map[k][s]
            BY <2>4, <3>5, <5>2
          <6>2. ~Deleting(k)
            BY <3>5, <5>2 DEF Deleting
          <6>3. Newest(k, s)'
            BY <2>2, <3>1, <3>2, <6>1, <6>2 DEF PageKept, Newest
          <6>4. Covered(k, s)'
            BY <1>4, <2>2, <3>1, <6>1, <6>2 DEF PageKept, Covered
          <6>5. QED BY <6>3, <6>4
        <5>3. QED BY <5>1, <5>2
      <4>7. QED BY <3>3, <4>3, <4>4, <4>5, <4>6 DEF PageKept
    <3>6. QED BY <3>4, <3>5
  <2>10. OldKept'
    <3> SUFFICES ASSUME Old.lpn \in Lpns \ reverted PROVE OldKept'
      BY <1>4, <2>3 DEF OldKept
    <3>1. secured'[Old.lpn] = secured[Old.lpn]
      BY <2>4, <2>6
    <3>2. OldKept
      BY DEF Kept, Data0
    <3>3. (OldHeld => OldHeld') /\ (OldTops => OldTops')
      BY <2>2, <2>3, <3>1 DEF OldHeld, OldTops
    <3>4. (OldNewer => OldNewer') /\ (OldInBuf => OldInBuf')
      BY <1>4, <2>2, <2>3 DEF OldNewer, OldInBuf
    <3>5. QED BY <1>4, <2>3, <3>2, <3>3, <3>4 DEF OldKept
  <2>11. BufClean' /\ BufTops'
    <3>1. buf.lpn # None => map'[buf.lpn] = map[buf.lpn]
      BY <1>2, <2>4, <2>6, BufTyped
    <3>2. QED BY <1>4, <2>1, <3>1 DEF Kept, Data0, BufClean, BufTops
  <2>12. BufNewest'
    <3>1. buf.dirty => map'[buf.lpn] = map[buf.lpn] /\ secured'[buf.lpn] = secured[buf.lpn]
      BY <1>2, <2>4, <2>6, BufTyped
    <3>2. Trusted
      BY <1>1 DEF Trusted
    <3>3. QED BY <1>4, <3>1, <3>2 DEF Kept, Data0, BufNewest
  <2>13. BufForm'
    BY <1>4, <2>2 DEF Kept, BufForm
  <2>14. Past'
    <3>1. UpTo(Blank, writes)
      BY <1>2, SizesAssumption DEF UpTo, Blank, Types, MapTypes
    <3>2. \A k \in Lpns : UpTo(map'[k], writes) /\ UpTo(secured'[k], writes)
      BY <2>4, <3>1 DEF Kept, Past
    <3>3. QED BY <1>4, <2>2, <3>2 DEF Kept, Past
  <2>15. ToCome'
    BY <2>1 DEF ToCome, Ahead
  <2>16. Place'
    <3>1. Place
      BY DEF Kept
    <3>2. InBlock'
      BY <1>1, <1>2, <1>4, <2>3, <3>1 DEF Place, InBlock, Opening
    <3>3. SameBlock' /\ GivenUp' /\ Scanned'
      BY <1>1, <1>2, <1>4, <2>2, <2>3, <3>1 DEF Place, SameBlock, GivenUp, Scanned, Opening
    <3>4. Flushed' /\ Storing'
      BY <2>1 DEF Flushed, Storing, Opening
    <3>5. QED BY <3>2, <3>3, <3>4 DEF Place
  <2>17. Calls'
    BY <2>1 DEF Calls, StepsOf, WriteWhole, ToBuffer, DeletesOne
  <2>18. QED BY <2>7, <2>8, <2>9, <2>10, <2>11, <2>12, <2>13, <2>14, <2>15, <2>16, <2>17
            DEF Kept, Data0
<1>5. QED BY <1>3, <1>4 DEF DeletePage
-----------------------------------------------------------------------------
(***************************************************************************)
(* The erase of the buffer block, and the store that ends an open.         *)
(***************************************************************************)
\* What an erase leaves of the page of the block on flash.
LEMMA EraseBlock ==
  ASSUME Inv, Kept, open, op.step = "erase", ~flushing, EraseBBlk, storedBBlk' = storedBBlk
  PROVE  /\ ~buf.dirty
         /\ \/ Old'.lpn = None
            \/ Old' = Old /\ dropped' = dropped /\ bBlkVbn' # storedBBlk
         /\ Old.lpn \in Lpns \ reverted => OldHeld
         /\ bblk'[bBlkVbn'] = <<>>
         /\ \A k \in {1, 2} : bblk'[k] = <<>> \/ bblk'[k] = bblk[k]
<1>1. PICK b \in {1, 2} : /\ bblk' = [bblk EXCEPT ![b] = <<>>] /\ bBlkVbn' = b
                          /\ dropped' = (dropped /\ b # bBlkVbn)
  BY DEF EraseBBlk
<1>2. bblk \in [{1, 2} -> Seq(BufPage)] /\ storedBBlk \in {1, 2} /\ dropped \in BOOLEAN
  BY DEF Inv, Types, BlkTypes, MapTypes
<1>3. ~buf.dirty
  BY DEF Kept, Place, Flushed
<1>4. bBlkVbn = storedBBlk
  BY SameBlk
<1>5. CASE b = storedBBlk
  <2>1. bblk'[storedBBlk'] = <<>>
    BY <1>1, <1>2, <1>5
  <2>2. Old'.lpn = None
    BY <2>1, ScanBufferEmpty DEF Old, NoBuf
  <2>3. QED BY <1>1, <1>2, <1>3, <2>2 DEF Kept, Data0, OldKept, OldInBuf
<1>6. CASE b # storedBBlk
  <2>1. bblk'[storedBBlk'] = bblk[storedBBlk]
    BY <1>1, <1>2, <1>6
  <2>2. Old' = Old
    BY <2>1 DEF Old
  <2>3. dropped' = dropped
    BY <1>1, <1>2, <1>4, <1>6
  <2>4. QED BY <1>1, <1>2, <1>3, <1>6, <2>2, <2>3 DEF Kept, Data0, OldKept, OldInBuf
<1>7. QED BY <1>5, <1>6

\* The erase at the end of a close or an open.
LEMMA EraseKept ==
  ASSUME Inv, Inv', Kept, open, op.step = "erase", ~flushing, EraseBBlk, GoTo("store"),
         \/ op.kind = "close" /\ buf' = NoBuf(0)
         \/ op.kind = "open" /\ buf' = [buf EXCEPT !.cp = 0],
         UNCHANGED <<pages, active, stored, pmt, storedBBlk, open, map, cp,
                     unscanned, delGrp, flushing, writes, losses, secured, reverted>>
  PROVE  Kept'
<1>1. /\ ~buf.dirty
      /\ \/ Old'.lpn = None
         \/ Old' = Old /\ dropped' = dropped /\ bBlkVbn' # storedBBlk
      /\ Old.lpn \in Lpns \ reverted => OldHeld
      /\ bblk'[bBlkVbn'] = <<>>
      /\ \A k \in {1, 2} : bblk'[k] = <<>> \/ bblk'[k] = bblk[k]
  BY EraseBlock
<1>2. Types /\ buf \in Bufs
  BY DEF Inv, Types, CallTypes
<1>3. /\ ~buf'.dirty /\ buf'.cp = 0
      /\ op.kind = "close" => buf'.lpn = None
      /\ op.kind = "open" => buf'.lpn = buf.lpn
      /\ buf'.lpn = None \/ (buf'.lpn = buf.lpn /\ buf'.valid = buf.valid /\ buf'.data = buf.data)
      /\ buf'.data \in {Blank, buf.data}
  BY <1>1, <1>2 DEF Bufs, NoBuf
<1>4. op'.step = "store" /\ op'.kind = op.kind /\ op'.lpn = op.lpn /\ op.kind \in {"close", "open"}
  BY <1>2, StepIs DEF Types, CallTypes, Steps
<1>5. LogsClean' /\ Unread' /\ Behind'
  BY DEF Kept, Data0, LogsClean, Unread, Behind
<1>6. PagesKept'
  <2> SUFFICES ASSUME NEW k \in Lpns \ reverted, NEW s \in Secs PROVE PageKept(k, s)'
    BY DEF PagesKept
  <2>1. PageKept(k, s)
    BY DEF Kept, Data0, PagesKept
  <2>2. Live(Grp(k))' => Live(Grp(k))
    BY <1>4 DEF Live
  <2>3. Rising(k, s)'
    BY <2>1 DEF PageKept, Rising
  <2>4. Safe(k, s)'
    <3>1. Old.lpn = k /\ s \in Old.valid =>
              Held(pages[Grp(k)], stored[Grp(k)], pmt[k], k, s, secured[k][s])
      BY <1>1 DEF OldHeld
    <3>2. QED BY <2>1, <3>1 DEF PageKept, Safe
  <2>5. Mapped(k, s)'
    BY <1>1, <2>1 DEF PageKept, Mapped, Buffered
  <2>6. Traced(k, s)' /\ Newest(k, s)' /\ Covered(k, s)'
    BY <2>1, <2>2 DEF PageKept, Traced, Newest, Covered, Deleting
  <2>7. QED BY <2>3, <2>4, <2>5, <2>6 DEF PageKept
<1>7. OldKept'
  <2> SUFFICES ASSUME Old'.lpn \in Lpns \ reverted PROVE OldHeld' /\ (~dropped' => OldTops')
    BY DEF OldKept
  <2>1. Old' = Old /\ dropped' = dropped
    BY <1>1, Sizes
  <2>2. OldHeld /\ (~dropped => OldTops)
    BY <1>1, <2>1 DEF Kept, Data0, OldKept
  <2>3. QED BY <2>1, <2>2 DEF OldHeld, OldTops
<1>8. BufClean' /\ BufNewest' /\ BufTops'
  BY <1>1, <1>3, <1>4 DEF Kept, Data0, BufClean, BufNewest, BufTops
<1>9. BufForm'
  <2>1. \A k \in {1, 2} : \A i \in 1 .. Len(bblk'[k]) : bblk'[k][i].lpn # None => Good(bblk'[k][i])
    BY <1>1 DEF Kept, BufForm
  <2>2. buf'.lpn # None => Good(buf')
    BY <1>3 DEF Kept, BufForm, Good
  <2>3. \A i \in 1 .. Len(bblk'[bBlkVbn']) : bblk'[bBlkVbn'][i].lpn # None
    BY <1>1
  <2>4. QED BY <2>1, <2>2, <2>3 DEF BufForm
<1>10. Past'
  <2>1. UpTo(Blank, writes)
    BY <1>2, SizesAssumption DEF UpTo, Blank, Types, MapTypes
  <2>2. UpTo(buf'.data, writes)
    BY <1>3, <2>1 DEF Kept, Past
  <2>3. \A k \in {1, 2} : \A i \in 1 .. Len(bblk'[k]) : UpTo(bblk'[k][i].data, writes)
    BY <1>1 DEF Kept, Past
  <2>4. QED BY <2>2, <2>3 DEF Kept, Past
<1>11. ToCome'
  BY <1>4 DEF ToCome, Ahead
<1>12. Place'
  <2>1. Old.lpn # None => Grp(Old.lpn) \notin unscanned
    BY DEF Kept, Place, Scanned, Opening
  <2>2. buf.lpn # None => Grp(buf.lpn) \notin unscanned
    BY DEF Kept, Place, Scanned, Opening
  <2>3. op.kind = "open" => buf.lpn # None
    BY DEF Kept, Place, Flushed, Opening
  <2>4. InBlock' /\ SameBlock'
    BY <1>3, <1>4 DEF InBlock, SameBlock, Opening
  <2>5. GivenUp' /\ Scanned'
    BY <1>1, <1>3, <2>1, <2>2 DEF GivenUp, Scanned
  <2>6. Flushed'
    BY <1>3, <1>4, <2>3 DEF Flushed, Opening
  <2>7. Storing'
    <3>1. op.kind = "open" /\ Old'.lpn # None => Old'.lpn = buf'.lpn
      BY <1>1, <1>3, <2>3, SameBlk
    <3>2. QED BY <1>1, <1>3, <1>4, <3>1 DEF Storing
  <2>8. QED BY <2>4, <2>5, <2>6, <2>7 DEF Place
<1>13. Calls'
  BY <1>4 DEF Calls, StepsOf, WriteWhole, ToBuffer, DeletesOne
<1>14. QED BY <1>5, <1>6, <1>7, <1>8, <1>9, <1>10, <1>11, <1>12, <1>13 DEF Kept, Data0

\* A close erases the buffer block when its page is in the log,
LEMMA CloseEraseKept ==
  ASSUME Inv, Inv', Kept, CloseErase
  PROVE  Kept'
<1>1. op.kind = "close" /\ op.step = "erase" /\ ~flushing /\ open
  BY Opened DEF CloseErase, At
<1>2. QED BY <1>1, EraseKept DEF CloseErase

\* and so does an open.
LEMMA OpenEraseKept ==
  ASSUME Inv, Inv', Kept, OpenErase
  PROVE  Kept'
<1>1. op.kind = "open" /\ op.step = "erase" /\ ~flushing /\ open
  BY Opened DEF OpenErase, At
<1>2. QED BY <1>1, EraseKept DEF OpenErase

\* The context names an empty block, and the map has what the block held.
LEMMA OpenStoreKept ==
  ASSUME Inv, Inv', Kept, OpenStore
  PROVE  Kept'
<1> SUFFICES ASSUME NEW g, g = Grp(buf.lpn) PROVE Kept'
  OBVIOUS
<1>1. /\ op.kind = "open" /\ op.step = "store" /\ ~flushing /\ open
      /\ stored' = [stored EXCEPT ![g] = cp[g]] /\ pmt' = Overlay(pmt, g, map)
      /\ storedBBlk' = bBlkVbn /\ secured' = Secure(g, map, buf)
      /\ buf' = NoBuf(0) /\ op' = Idle
      /\ UNCHANGED <<pages, active, bblk, open, map, cp, unscanned, bBlkVbn,
                     delGrp, flushing, writes, losses, reverted>>
  BY Opened DEF OpenStore, At, StorePMTCtx
<1>2. /\ Types /\ bblk[bBlkVbn] = <<>> /\ ~buf.dirty
      /\ buf.lpn \in Lpns /\ g \in Groups \ unscanned
  <2>1. Types /\ bblk[bBlkVbn] = <<>>
    BY <1>1 DEF Inv, Phases
  <2>2. ~buf.dirty /\ buf.lpn # None /\ Grp(buf.lpn) \notin unscanned
    BY <1>1 DEF Kept, Place, Storing, Flushed, Scanned, Opening
  <2>3. buf.lpn \in Lpns
    BY <2>1, <2>2, BufTyped
  <2>4. QED BY <2>1, <2>2, <2>3, GrpType
<1>3. Old'.lpn = None
  <2>1. bblk'[storedBBlk'] = <<>>
    BY <1>1, <1>2
  <2>2. QED BY <2>1, ScanBufferEmpty DEF Old, NoBuf
<1>4. /\ buf'.lpn = None /\ ~buf'.dirty /\ buf'.data = Blank
      /\ op'.kind = "none" /\ op'.step = "none"
  BY <1>1 DEF NoBuf, Idle
<1>5. /\ pages \in [Groups -> Seq(LogPage)] /\ cp \in [Groups -> 0 .. PagesPerSBlk]
      /\ stored \in [Groups -> 0 .. PagesPerSBlk] /\ Len(pages[g]) <= PagesPerSBlk
  BY <1>2 DEF Types, LogTypes
<1>6. stored'[g] = cp[g] /\ (\A h \in Groups \ {g} : stored'[h] = stored[h])
  BY <1>1, <1>2, <1>5
<1>7. Len(pages[g]) <= stored'[g]
  <2>1. cp[g] < PagesPerSBlk => Len(pages[g]) = cp[g]
    BY <1>1, <1>2 DEF Inv, Ends
  <2>2. cp[g] \in 0 .. PagesPerSBlk /\ Len(pages[g]) \in Nat
    BY <1>2, <1>5
  <2>3. QED BY <1>5, <1>6, <2>1, <2>2, SizesAssumption
<1>8. ASSUME NEW k \in Lpns, NEW s \in Secs
      PROVE  /\ Grp(k) # g => secured'[k][s] = secured[k][s] /\ pmt'[k] = pmt[k]
             /\ Grp(k) = g => secured'[k][s] \in {secured[k][s], map[k][s]} /\ pmt'[k] = map[k]
  <2>1. map \in [Lpns -> Data] /\ buf \in Bufs /\ secured \in [Lpns -> Data]
    BY <1>2 DEF Types, MapTypes, CallTypes
  <2>2. pmt'[k] = IF Grp(k) = g THEN map[k] ELSE pmt[k]
    BY <1>1 DEF Overlay
  <2>3. QED BY <1>1, <1>2, <2>1, <2>2, SecureIs
<1>9. LogsClean'
  BY <1>1 DEF Kept, Data0, LogsClean
<1>10. Unread'
  <2> SUFFICES ASSUME NEW h \in unscanned
               PROVE  cp[h] = stored'[h] /\ \A k \in Lpns : Grp(k) = h => map[k] = pmt'[k]
    BY <1>1 DEF Unread
  <2>1. h \in Groups \ {g}
    BY <1>2 DEF Types, LogTypes
  <2>2. \A k \in Lpns : Grp(k) = h => pmt'[k] = pmt[k]
    BY <1>8, <2>1, Sizes
  <2>3. QED BY <1>1, <1>6, <2>1, <2>2 DEF Kept, Data0, Unread
<1>11. Behind'
  <2> SUFFICES ASSUME NEW h \in Groups \ unscanned, cp[h] < PagesPerSBlk
               PROVE  stored'[h] <= cp[h]
    BY <1>1 DEF Behind
  <2>1. CASE h = g
    BY <1>5, <1>6, <2>1
  <2>2. CASE h # g
    BY <1>1, <1>6, <2>2 DEF Kept, Data0, Behind
  <2>3. QED BY <2>1, <2>2
<1>12. PagesKept'
  <2> SUFFICES ASSUME NEW k \in Lpns \ reverted, NEW s \in Secs PROVE PageKept(k, s)'
    BY <1>1 DEF PagesKept
  <2>1. PageKept(k, s)
    BY DEF Kept, Data0, PagesKept
  <2>2. Live(Grp(k))' => Live(Grp(k))
    BY <1>1, <1>4 DEF Live
  <2>3. CASE Grp(k) # g
    <3>1. Grp(k) \in Groups
      BY <1>2, Typed
    <3>2. /\ secured'[k][s] = secured[k][s] /\ pmt'[k] = pmt[k]
          /\ pages'[Grp(k)] = pages[Grp(k)] /\ stored'[Grp(k)] = stored[Grp(k)]
      BY <1>1, <1>6, <1>8, <2>3, <3>1
    <3>3. Rising(k, s)'
      BY <2>1, <3>2 DEF PageKept, Rising
    <3>4. Safe(k, s)'
      <4>1. Held(pages[Grp(k)], stored[Grp(k)], pmt[k], k, s, secured[k][s])
        <5>1. CASE Old.lpn = k /\ s \in Old.valid
          <6>1. OldHeld
            BY <1>1, <1>2, <5>1 DEF Kept, Data0, OldKept, OldInBuf
          <6>2. QED BY <5>1, <6>1 DEF OldHeld
        <5>2. CASE ~(Old.lpn = k /\ s \in Old.valid)
          BY <2>1, <5>2 DEF PageKept, Safe
        <5>3. QED BY <5>1, <5>2
      <4>2. QED BY <3>2, <4>1 DEF Safe
    <3>5. Mapped(k, s)'
      BY <1>1, <1>2, <2>1, <3>2 DEF PageKept, Mapped, Buffered
    <3>6. Traced(k, s)' /\ Newest(k, s)' /\ Covered(k, s)'
      BY <1>1, <2>1, <2>2, <3>2 DEF PageKept, Traced, Newest, Covered, Deleting
    <3>7. QED BY <3>3, <3>4, <3>5, <3>6 DEF PageKept
  <2>4. CASE Grp(k) = g
    <3>1. secured'[k][s] <= map[k][s] /\ map[k][s] \in Nat /\ secured'[k][s] \in Nat
      <4>1. secured[k][s] <= map[k][s]
        BY <1>1, <1>2, <2>1, <2>4 DEF PageKept, Mapped, Buffered
      <4>2. map[k][s] \in Nat /\ secured[k][s] \in Nat
        BY <1>2, Typed
      <4>3. QED BY <1>8, <2>4, <4>1, <4>2
    <3>2. \A x \in Nat : /\ Held(pages'[g], stored'[g], pmt'[k], k, s, x) <=> x <= map[k][s]
                         /\ Traces(pages'[g], stored'[g], pmt'[k], k, s, x) <=> x <= map[k][s]
                         /\ Tops(pages'[g], stored'[g], pmt'[k], k, s, x) <=> map[k][s] <= x
                         /\ Covers(pages'[g], stored'[g], pmt'[k], k, s, x) <=> map[k][s] <= x
                         /\ Rises(pages'[g], stored'[g], pmt'[k], k, s)
      <4>1. pages'[g] \in Seq(LogPage) /\ stored'[g] \in Nat /\ pmt'[k] \in Data
        BY <2>4, TypedNext DEF Inv
      <4>2. Len(pages'[g]) <= stored'[g] /\ pmt'[k] = map[k]
        BY <1>1, <1>7, <1>8, <2>4
      <4>3. QED BY <4>1, <4>2, Stored
    <3>3. Rising(k, s)' /\ Safe(k, s)'
      BY <2>4, <3>1, <3>2 DEF Rising, Safe
    <3>4. Mapped(k, s)'
      BY <1>1, <3>1 DEF Mapped
    <3>5. Traced(k, s)' /\ Newest(k, s)' /\ Covered(k, s)'
      BY <1>1, <2>4, <3>1, <3>2 DEF Traced, Newest, Covered
    <3>6. QED BY <3>3, <3>4, <3>5 DEF PageKept
  <2>5. QED BY <2>3, <2>4
<1>13. OldKept'
  BY <1>3, Sizes DEF OldKept
<1>14. BufClean' /\ BufNewest' /\ BufTops'
  BY <1>4 DEF BufClean, BufNewest, BufTops
<1>15. BufForm'
  BY <1>1, <1>2, <1>4 DEF Kept, BufForm
<1>16. Past'
  <2>1. UpTo(Blank, writes)
    BY <1>2, SizesAssumption DEF UpTo, Blank, Types, MapTypes
  <2>2. \A k \in Lpns : UpTo(pmt'[k], writes) /\ UpTo(secured'[k], writes)
    <3> SUFFICES ASSUME NEW k \in Lpns, NEW s \in Secs
                 PROVE  pmt'[k][s] <= writes /\ secured'[k][s] <= writes
      BY DEF UpTo
    <3>1. map[k][s] <= writes /\ pmt[k][s] <= writes /\ secured[k][s] <= writes
      BY DEF Kept, Past, UpTo
    <3>2. QED BY <1>8, <3>1
  <2>3. QED BY <1>1, <1>4, <2>1, <2>2 DEF Kept, Past
<1>17. ToCome'
  BY <1>4 DEF ToCome, Ahead
<1>18. Place'
  BY <1>1, <1>3, <1>4 DEF Place, InBlock, SameBlock, GivenUp, Scanned, Flushed, Storing, Opening
<1>19. Calls'
  BY <1>4 DEF Calls, StepsOf, WriteWhole, ToBuffer, DeletesOne
<1>20. QED BY <1>9, <1>10, <1>11, <1>12, <1>13, <1>14, <1>15, <1>16, <1>17, <1>18, <1>19 DEF Kept, Data0
-----------------------------------------------------------------------------
(***************************************************************************)
(* The start of an open, and the scan of a log.                            *)
(***************************************************************************)
\* What a scan of the block finds has the contents of a page of the block.
LEMMA ScanBufferFrom ==
  ASSUME NEW ps \in Seq(BufPage)
  PROVE  \/ ScanBufferBlk(ps).data = Blank
         \/ \E i \in 1 .. Len(ps) : ScanBufferBlk(ps).data = ps[i].data
<1> DEFINE bad == {i \in 1 .. Len(ps) : ps[i].lpn = None}
           n == IF bad = {} THEN Len(ps) ELSE Min(bad) - 1
           r == [lpn |-> ps[n].lpn, dirty |-> TRUE,
                 valid |-> 0 .. Cardinality(ps[n].valid) - 1,
                 data |-> ps[n].data, cp |-> BufPages]
<1>1. ScanBufferBlk(ps) = IF n = 0 THEN NoBuf(BufPages) ELSE r
  BY DEF ScanBufferBlk
<1>2. Len(ps) \in Nat /\ n \in 0 .. Len(ps)
  <2>1. CASE bad = {}
    BY <2>1
  <2>2. CASE bad # {}
    <3>1. bad \in SUBSET Nat
      OBVIOUS
    <3>2. Min(bad) \in bad
      BY <2>2, <3>1, MinIn
    <3>3. Min(bad) \in 1 .. Len(ps)
      BY <3>2
    <3>4. n = Min(bad) - 1
      BY <2>2
    <3> HIDE DEF n
    <3>5. QED BY <3>3, <3>4
  <2>3. QED BY <2>1, <2>2
<1>3. r.data = ps[n].data /\ NoBuf(BufPages).data = Blank
  BY DEF NoBuf
<1> HIDE DEF n, r
<1>4. QED BY <1>1, <1>2, <1>3

\* A log out of use has nothing behind the stored map.
LEMMA OutOfUse ==
  ASSUME Types, Ends, NEW l \in Lpns, Grp(l) \notin active
  PROVE  Len(pages[Grp(l)]) <= stored[Grp(l)]
<1>1. Grp(l) \in Groups
  BY Typed
<1>2. /\ pages[Grp(l)] \in Seq(LogPage) /\ stored[Grp(l)] \in 0 .. PagesPerSBlk
      /\ Len(pages[Grp(l)]) <= PagesPerSBlk /\ Len(pages[Grp(l)]) \in Nat
  BY <1>1 DEF Types, LogTypes
<1>3. stored[Grp(l)] < PagesPerSBlk => Len(pages[Grp(l)]) = stored[Grp(l)]
  BY <1>1 DEF Ends
<1>4. QED BY <1>2, <1>3, SizesAssumption

\* The context and the maps are loaded, and the buffer block is scanned.
LEMMA BeginOpenKept ==
  ASSUME Inv, Inv', Kept, BeginOpen
  PROVE  Kept'
<1>1. /\ ~open /\ open' = TRUE /\ map' = pmt /\ cp' = stored /\ unscanned' = active
      /\ bBlkVbn' = storedBBlk /\ buf' = Old
      /\ op' = [Idle EXCEPT !.kind = "open", !.step = "flush"]
      /\ UNCHANGED <<pages, active, stored, pmt, bblk, storedBBlk, delGrp, flushing,
                     writes, losses, secured, dropped, reverted>>
  BY DEF BeginOpen, Old, flash, hist
<1>2. Types /\ Ends /\ ~flushing /\ delGrp = None
  BY <1>1 DEF Inv, Phases
<1>3. op'.kind = "open" /\ op'.step = "flush"
  BY <1>1 DEF Idle
<1>4. /\ Old.lpn # None => Good(Old) /\ Old.dirty
      /\ Old.lpn = None => ~Old.dirty
      /\ Old.cp = BufPages
  <2>1. bblk[storedBBlk] \in Seq(BufPage)
    BY <1>2 DEF Types, BlkTypes
  <2>2. Old.cp = BufPages
    BY <2>1, ScanBufferType DEF Old
  <2>3. QED BY <1>2, <2>2, OldGood DEF Kept
<1>5. Old' = Old /\ Cur' = Old
  BY <1>1 DEF Old, Cur
<1>6. LogsClean' /\ Unread'
  BY <1>1 DEF Kept, Data0, LogsClean, Unread
<1>7. Behind'
  <2>1. \A g \in Groups : stored[g] \in Nat
    BY <1>2, SizesAssumption DEF Types, LogTypes
  <2>2. QED BY <1>1, <2>1 DEF Behind
<1>8. PagesKept'
  <2> SUFFICES ASSUME NEW k \in Lpns \ reverted, NEW s \in Secs PROVE PageKept(k, s)'
    BY <1>1 DEF PagesKept
  <2>1. PageKept(k, s)
    BY DEF Kept, Data0, PagesKept
  <2>2. Rising(k, s)' /\ Safe(k, s)'
    BY <1>1, <1>5, <2>1 DEF PageKept, Rising, Safe
  <2>3. CASE Grp(k) \in active
    BY <1>1, <2>2, <2>3 DEF PageKept, Mapped, Traced, Newest, Covered, Live
  <2>4. CASE Grp(k) \notin active
    <3>1. /\ pages[Grp(k)] \in Seq(LogPage) /\ stored[Grp(k)] \in Nat /\ pmt[k] \in Data
          /\ pmt[k][s] \in Nat /\ secured[k][s] \in Nat
      BY <1>2, Typed
    <3>2. Len(pages[Grp(k)]) <= stored[Grp(k)]
      BY <1>2, <2>4, OutOfUse
    <3>3. \A x \in Nat :
             /\ Held(pages[Grp(k)], stored[Grp(k)], pmt[k], k, s, x) <=> x <= pmt[k][s]
             /\ Traces(pages[Grp(k)], stored[Grp(k)], pmt[k], k, s, x) <=> x <= pmt[k][s]
             /\ Tops(pages[Grp(k)], stored[Grp(k)], pmt[k], k, s, x) <=> pmt[k][s] <= x
             /\ Covers(pages[Grp(k)], stored[Grp(k)], pmt[k], k, s, x) <=> pmt[k][s] <= x
      BY <3>1, <3>2, Stored
    <3>4. Mapped(k, s)'
      <4>1. CASE Old.lpn = k /\ s \in Old.valid
        BY <1>1, <1>4, <4>1, Sizes DEF Mapped, Buffered
      <4>2. CASE ~(Old.lpn = k /\ s \in Old.valid)
        BY <1>1, <2>1, <3>1, <3>3, <4>2 DEF PageKept, Safe, Mapped
      <4>3. QED BY <4>1, <4>2
    <3>5. Traced(k, s)' /\ Newest(k, s)' /\ Covered(k, s)'
      BY <1>1, <3>1, <3>3 DEF Traced, Newest, Covered
    <3>6. QED BY <2>2, <3>4, <3>5 DEF PageKept
  <2>5. QED BY <2>3, <2>4
<1>9. OldKept'
  <2> SUFFICES ASSUME Old.lpn \in Lpns \ reverted
               PROVE  (OldHeld \/ OldNewer)' /\ (~dropped => OldTops') /\ OldInBuf'
    BY <1>1, <1>5 DEF OldKept
  <2>1. (OldHeld \/ OldNewer) /\ (~dropped => OldTops)
    BY DEF Kept, Data0, OldKept
  <2>2. (OldHeld => OldHeld') /\ (OldNewer => OldNewer') /\ (OldTops => OldTops')
    BY <1>1, <1>5 DEF OldHeld, OldNewer, OldTops
  <2>3. OldInBuf'
    BY <1>1, <1>4, <1>5, Sizes DEF OldInBuf
  <2>4. QED BY <2>1, <2>2, <2>3
<1>10. BufClean'
  BY <1>1, <1>4 DEF BufClean
<1>11. BufNewest'
  <2> SUFFICES ASSUME Old.dirty, ~dropped, Old.lpn \notin reverted, NEW s \in Old.valid
               PROVE  secured[Old.lpn][s] <= Old.data[s] /\ pmt[Old.lpn][s] <= Old.data[s]
    BY <1>1, <1>3 DEF BufNewest, Trusted
  <2>1. Old.lpn \in Lpns
    BY <1>2, <1>4, BufTyped
  <2>2. OldTops
    BY <2>1 DEF Kept, Data0, OldKept
  <2>3. QED BY <2>2 DEF OldTops, Tops
<1>12. BufTops'
  BY <1>3 DEF BufTops
<1>13. BufForm'
  <2>1. ~(buf'.cp < BufPages)
    BY <1>1, <1>4, SizesAssumption
  <2>2. QED BY <1>1, <1>4, <2>1 DEF Kept, BufForm
<1>14. Past'
  <2>1. UpTo(Blank, writes)
    BY <1>2, SizesAssumption DEF UpTo, Blank, Types, MapTypes
  <2>2. UpTo(Old.data, writes)
    <3>1. bblk[storedBBlk] \in Seq(BufPage) /\ storedBBlk \in {1, 2}
      BY <1>2 DEF Types, BlkTypes
    <3>2. \/ Old.data = Blank
          \/ \E i \in 1 .. Len(bblk[storedBBlk]) : Old.data = bblk[storedBBlk][i].data
      BY <3>1, ScanBufferFrom DEF Old
    <3>3. QED BY <2>1, <3>1, <3>2 DEF Kept, Past
  <2>3. QED BY <1>1, <2>2 DEF Kept, Past
<1>15. ToCome'
  BY <1>3 DEF ToCome, Ahead
<1>16. Place'
  <2>1. InBlock' /\ SameBlock'
    BY <1>1, <1>5 DEF InBlock, SameBlock
  <2>2. GivenUp' /\ Scanned'
    BY <1>1, <1>3, <1>5 DEF GivenUp, Scanned, Opening
  <2>3. Flushed' /\ Storing'
    BY <1>1, <1>2, <1>3, <1>4 DEF Flushed, Storing, Opening
  <2>4. QED BY <2>1, <2>2, <2>3 DEF Place
<1>17. Calls'
  BY <1>3 DEF Calls, StepsOf, WriteWhole, ToBuffer, DeletesOne
<1>18. QED BY <1>6, <1>7, <1>8, <1>9, <1>10, <1>11, <1>12, <1>13, <1>14, <1>15, <1>16, <1>17
        DEF Kept, Data0

\* What the scan puts into the map is the old page or one of the log.
LEMMA ApplyFrom ==
  ASSUME NEW ps \in Seq(LogPage), NEW n \in Nat, NEW m, NEW b, NEW l \in Lpns
  PROVE  LET y == Apply(m, ps, n + 1, RecoverTo(ps, n + 1, b))[l]
         IN  y = m[l] \/ \E i \in Logged(ps, n, l) : y = ps[i].data
<1> DEFINE to == RecoverTo(ps, n + 1, b)
           at == {i \in n + 1 .. to : ps[i].lpn = l}
           y == Apply(m, ps, n + 1, to)[l]
<1>1. to \in Int /\ (to <= Len(ps) \/ to < n + 1) /\ Len(ps) \in Nat
  BY RecoverIs
<1>2. y = IF at = {} THEN m[l] ELSE ps[Max(at)].data
  BY DEF Apply
<1> HIDE DEF to, y
<1>3. CASE at = {}
  BY <1>2, <1>3 DEF y, to
<1>4. CASE at # {}
  <2>1. at \subseteq 0 .. Len(ps)
    BY <1>1
  <2>2. Max(at) \in at
    BY <1>1, <1>4, <2>1, MaxIn
  <2>3. at \subseteq Logged(ps, n, l)
    BY <1>1 DEF Logged
  <2> HIDE DEF at
  <2>4. QED BY <1>2, <1>4, <2>2, <2>3 DEF y, to
<1>5. QED BY <1>3, <1>4

\* The map after the scan of group g has pages of its log; it covers what an
\* open finds.
LEMMA ScanMap ==
  ASSUME Inv, Kept, open, NEW g \in Groups, Scan(g), NEW l \in Lpns
  PROVE  /\ Grp(l) # g => map'[l] = map[l]
         /\ map'[l] = map[l] \/ \E i \in Logged(pages[Grp(l)], stored[Grp(l)], l) :
                                    map'[l] = pages[Grp(l)][i].data
<1>1. Types /\ pages[g] \in Seq(LogPage) /\ stored[g] \in Nat
  BY SizesAssumption DEF Inv, Types, LogTypes
<1>2. CASE cp[g] < PagesPerSBlk
  <2>1. map' = Apply(map, pages[g], stored[g] + 1, RecoverTo(pages[g], stored[g] + 1, buf))
    BY <1>2 DEF Scan
  <2>2. map'[l] = map[l] \/ \E i \in Logged(pages[g], stored[g], l) : map'[l] = pages[g][i].data
    BY <1>1, <2>1, ApplyFrom
  <2>3. Grp(l) # g => Logged(pages[g], stored[g], l) = {}
    <3>1. \A i \in Logged(pages[g], stored[g], l) : i \in 1 .. Len(pages[g]) /\ pages[g][i].lpn = l
      BY <1>1, LogPages DEF Logged
    <3>2. \A i \in 1 .. Len(pages[g]) : pages[g][i].lpn # None => Grp(pages[g][i].lpn) = g
      BY DEF Kept, Data0, LogsClean
    <3>3. l # None
      BY Sizes
    <3>4. \A i \in Logged(pages[g], stored[g], l) : Grp(l) = g
      BY <3>1, <3>2, <3>3
    <3>5. QED BY <3>4
  <2>4. QED BY <2>2, <2>3
<1>3. CASE ~(cp[g] < PagesPerSBlk)
  BY <1>3 DEF Scan
<1>4. QED BY <1>2, <1>3

\* The map is as new as what an open finds, and not newer than the log.
LEMMA ScanCovers ==
  ASSUME Inv, Kept, open, NEW g \in Groups, Scan(g), NEW l \in Lpns \ reverted, Grp(l) = g,
         NEW s \in Secs
  PROVE  /\ Covers(pages[g], stored[g], pmt[l], l, s, map'[l][s])
         /\ Traces(pages[g], stored[g], pmt[l], l, s, map'[l][s])
<1>1. /\ Types /\ pages[g] \in Seq(LogPage) /\ stored[g] \in Nat /\ Len(pages[g]) <= PagesPerSBlk
      /\ pmt[l] \in Data /\ pmt[l][s] \in Nat /\ cp[g] \in 0 .. PagesPerSBlk
  BY Typed, SizesAssumption DEF Inv, Types, LogTypes
<1>2. g \in unscanned /\ cp[g] = stored[g] /\ map[l] = pmt[l]
  BY DEF Scan, Kept, Data0, Unread
<1>3. CASE cp[g] < PagesPerSBlk
  <2>1. map' = Apply(map, pages[g], stored[g] + 1, RecoverTo(pages[g], stored[g] + 1, buf))
    BY <1>3 DEF Scan
  <2>2. Rises(pages[g], stored[g], map[l], l, s)
    BY <1>2 DEF Kept, Data0, PagesKept, PageKept, Rising
  <2>3. \A k \in 1 .. Len(pages[g]) : pages[g][k].confirm => pages[g][k].lpn # None
    BY DEF Kept, Data0, LogsClean
  <2>4. map \in [Lpns -> Data]
    BY <1>1 DEF Types, MapTypes
  <2>5. QED BY <1>1, <1>2, <2>1, <2>2, <2>3, <2>4, ScanTakes
<1>4. CASE ~(cp[g] < PagesPerSBlk)
  <2>1. map'[l][s] = pmt[l][s]
    BY <1>2, <1>4 DEF Scan
  <2>2. Len(pages[g]) <= stored[g]
    BY <1>1, <1>2, <1>4, SizesAssumption
  <2>3. /\ Covers(pages[g], stored[g], pmt[l], l, s, pmt[l][s])
        /\ Traces(pages[g], stored[g], pmt[l], l, s, pmt[l][s])
    <3>1. Logged(pages[g], stored[g], l) = {}
      BY <1>1, <2>2 DEF Logged
    <3>2. QED BY <1>1, <3>1 DEF Covers, Traces
  <2>4. QED BY <2>1, <2>3
<1>5. QED BY <1>3, <1>4

\* The buffered page is given up only while an open looks for it, for a page of
\* the log that is not older.
Forgets ==
    /\ Opening("flush") /\ ~flushing
    /\ buf' = NoBuf(BufPages) /\ dropped' /\ reverted \subseteq reverted'
    /\ buf.lpn # None /\ Grp(buf.lpn) \in unscanned /\ Grp(buf.lpn) \notin unscanned'
    /\ Old.lpn = buf.lpn
    /\ Old.lpn \in Lpns \ reverted' => OldHeld

\* What becomes of the buffered page.
LEMMA ScanForgets ==
  ASSUME Inv, Kept, open, NEW g \in Groups, Scan(g), op.step # "bmt", op.step # "store"
  PROVE  Forgets \/ (buf' = buf /\ dropped' = dropped /\ reverted' = reverted)
<1>1. /\ pages[g] \in Seq(LogPage) /\ stored[g] \in Nat /\ dropped \in BOOLEAN
  BY SizesAssumption DEF Inv, Types, LogTypes, MapTypes
<1>2. g \in unscanned /\ unscanned' = unscanned \ {g}
  BY DEF Scan
<1>3. CASE cp[g] < PagesPerSBlk /\ FoundInLog(pages[g], stored[g] + 1, buf)
  <2>1. /\ buf' = NoBuf(BufPages) /\ dropped'
        /\ reverted' = IF Overtaken(g) THEN reverted \cup {buf.lpn} ELSE reverted
    BY <1>3 DEF Scan
  <2> SUFFICES ASSUME NEW i, i = LastValid(pages[g], stored[g] + 1) PROVE Forgets
    OBVIOUS
  <2>2. buf.lpn # None /\ i \in Logged(pages[g], stored[g], buf.lpn)
    BY <1>1, <1>3, FoundIsLogged
  <2>3. i \in 1 .. Len(pages[g]) /\ pages[g][i].lpn = buf.lpn
    BY <1>1, <2>2, LogPages DEF Logged
  <2>4. Grp(buf.lpn) = g
    BY <2>2, <2>3 DEF Kept, Data0, LogsClean
  <2>5. Opening("flush") /\ ~flushing
    BY <1>2, <2>2, <2>4 DEF Kept, Place, Scanned, Flushed
  <2>6. Old.lpn = buf.lpn /\ Old.valid = buf.valid /\ Old.data = buf.data
    BY <2>2, SameBlk
  <2>7. Old.lpn \in Lpns \ reverted' => OldHeld
    <3> SUFFICES ASSUME Old.lpn \in Lpns \ reverted', ~OldHeld PROVE FALSE
      OBVIOUS
    <3>1. Old.lpn \notin reverted /\ ~Overtaken(g)
      BY <2>1, <2>6
    <3>2. OldNewer
      BY <3>1 DEF Kept, Data0, OldKept
    <3>3. \E s \in buf.valid : pages[g][i].data[s] < buf.data[s]
      BY <2>2, <2>4, <2>6, <3>2 DEF OldNewer, Overtakes
    <3>4. \A s \in buf.valid : buf.data[s] \in Nat /\ pages[g][i].data[s] \in Nat
      BY <1>1, <2>3, BufTyped, LogPages DEF Inv
    <3>5. Overtaken(g)
      BY <1>3, <3>3, <3>4 DEF Overtaken, FoundInLog
    <3>6. QED BY <3>1, <3>5
  <2>8. QED BY <1>2, <2>1, <2>2, <2>4, <2>5, <2>6, <2>7 DEF Forgets
<1>4. CASE cp[g] < PagesPerSBlk /\ ~FoundInLog(pages[g], stored[g] + 1, buf)
  BY <1>1, <1>4 DEF Scan
<1>5. CASE ~(cp[g] < PagesPerSBlk)
  BY <1>5 DEF Scan
<1>6. QED BY <1>3, <1>4, <1>5

\* No scan runs while a page of the buffer block waits for its context, or
\* behind the erase of the block.
LEMMA ScanSteps ==
  ASSUME Inv, Kept, ScanStep
  PROVE  op.step # "bmt" /\ op.step # "store"
<1>1. PICK g \in ToScan : Scan(g)
  BY DEF ScanStep
<1>2. open /\ g \in unscanned
  BY <1>1 DEF Scan, ScanStep
<1>3. op.kind \in Kinds /\ StepsOf /\ Place
  BY <1>2 DEF Inv, Types, CallTypes, Ops, Kept, Calls
<1> SUFFICES ASSUME op.step = "bmt" \/ op.step = "store" PROVE FALSE
  OBVIOUS
<1>4. \/ op.kind = "write" /\ op.step = "bmt" /\ ~flushing
      \/ op.kind = "close" /\ op.step = "store"
      \/ op.kind = "open" /\ op.step = "store" /\ ~flushing
  BY <1>2, <1>3 DEF StepsOf, Kinds, Inv, Phases, Place, Storing
<1>5. op.kind # "close"
  BY <1>2, <1>4 DEF Inv, Phases
<1>6. \A h \in Groups \ unscanned : ~WantsSlot(h)
  BY <1>4, <1>5 DEF WantsSlot
<1>7. op.kind = "open" /\ g \in {Grp(l) : l \in {buf.lpn} \cap Lpns}
  BY <1>1, <1>4, <1>5, <1>6 DEF ToScan
<1>8. buf.lpn # None /\ Grp(buf.lpn) \in unscanned
  BY <1>2, <1>7, Sizes
<1>9. QED BY <1>2, <1>3, <1>4, <1>7, <1>8 DEF Place, Scanned, Opening

\* A scan keeps the invariant.
LEMMA ScanKept ==
  ASSUME Inv, Inv', Kept, ScanStep
  PROVE  Kept'
<1>1. PICK g \in ToScan : Scan(g)
  BY DEF ScanStep
<1>2. /\ open /\ g \in unscanned /\ unscanned' = unscanned \ {g}
      /\ UNCHANGED <<pages, active, stored, pmt, bblk, storedBBlk, open, bBlkVbn, delGrp, op,
                     flushing, writes, losses, secured>>
  BY <1>1 DEF Scan, ScanStep, flash
<1>3. /\ Types /\ g \in Groups /\ g \in active /\ cp[g] = stored[g]
      /\ pages[g] \in Seq(LogPage) /\ stored[g] \in Nat
      /\ cp \in [Groups -> 0 .. PagesPerSBlk]
  BY <1>2, SizesAssumption DEF Inv, Types, LogTypes, Kept, Data0, Unread
<1>4. op.step # "bmt" /\ op.step # "store"
  BY ScanSteps
<1>5. /\ \A h \in Groups \ {g} : cp'[h] = cp[h]
      /\ ~(cp'[g] < PagesPerSBlk)
  <2>1. IF cp[g] < PagesPerSBlk THEN cp' = [cp EXCEPT ![g] = PagesPerSBlk] ELSE cp' = cp
    BY <1>1 DEF Scan
  <2>2. QED BY <1>3, <2>1, SizesAssumption
<1>6. Forgets \/ (buf' = buf /\ dropped' = dropped /\ reverted' = reverted)
  BY <1>1, <1>2, <1>3, <1>4, ScanForgets
<1>7. reverted \subseteq reverted' /\ (dropped => dropped')
  BY <1>6 DEF Forgets
<1>8. /\ Forgets => buf'.lpn = None /\ ~buf'.dirty /\ buf'.data = Blank /\ buf'.cp = BufPages
      /\ buf'.lpn # None \/ buf'.dirty => buf' = buf /\ dropped' = dropped /\ reverted' = reverted
  BY <1>6 DEF Forgets, NoBuf
<1>9. Old' = Old /\ Cur' = Cur
  BY <1>2, BlocksStill
<1>10. \A l \in Lpns :
          /\ Grp(l) # g => map'[l] = map[l]
          /\ map'[l] = map[l] \/ \E i \in Logged(pages[Grp(l)], stored[Grp(l)], l) :
                                     map'[l] = pages[Grp(l)][i].data
  BY <1>1, <1>2, <1>3, ScanMap
<1>11. \A l \in Lpns \ reverted, s \in Secs : Grp(l) = g =>
          /\ Covers(pages[g], stored[g], pmt[l], l, s, map'[l][s])
          /\ Traces(pages[g], stored[g], pmt[l], l, s, map'[l][s])
  BY <1>1, <1>2, <1>3, ScanCovers
<1>12. LogsClean'
  BY <1>2 DEF Kept, Data0, LogsClean
<1>13. Unread'
  <2> SUFFICES ASSUME NEW h \in unscanned \ {g}
               PROVE  cp'[h] = stored[h] /\ \A l \in Lpns : Grp(l) = h => map'[l] = pmt[l]
    BY <1>2 DEF Unread
  <2>1. h \in Groups \ {g}
    BY <1>3 DEF Types, LogTypes
  <2>2. QED BY <1>2, <1>5, <1>10, <2>1 DEF Kept, Data0, Unread
<1>14. Behind'
  BY <1>2, <1>5 DEF Kept, Data0, Behind
<1>15. PagesKept'
  <2> SUFFICES ASSUME NEW k \in Lpns \ reverted', NEW s \in Secs PROVE PageKept(k, s)'
    BY DEF PagesKept
  <2>1. PageKept(k, s) /\ k \in Lpns \ reverted
    BY <1>7 DEF Kept, Data0, PagesKept
  <2>2. Rising(k, s)' /\ Safe(k, s)'
    BY <1>2, <1>9, <2>1 DEF PageKept, Rising, Safe
  <2>3. CASE Grp(k) # g
    <3>1. Grp(k) \in Groups \ {g}
      BY <1>3, <2>3, Typed
    <3>2. Live(Grp(k))' <=> Live(Grp(k))
      BY <1>2, <1>5, <3>1 DEF Live
    <3>3. Mapped(k, s)'
      <4>1. CASE Forgets
        <5>1. SUFFICES ASSUME Grp(k) \notin unscanned, Buffered(k, s) PROVE FALSE
          BY <1>2, <1>10, <2>1, <2>3 DEF PageKept, Mapped
        <5>2. QED BY <4>1, <5>1 DEF Buffered, Forgets
      <4>2. CASE buf' = buf
        BY <1>2, <1>10, <2>1, <2>3, <4>2 DEF PageKept, Mapped, Buffered
      <4>3. QED BY <1>6, <4>1, <4>2
    <3>4. Traced(k, s)' /\ Newest(k, s)' /\ Covered(k, s)'
      BY <1>2, <1>10, <2>1, <2>3, <3>2 DEF PageKept, Traced, Newest, Covered, Deleting
    <3>5. QED BY <2>2, <3>3, <3>4 DEF PageKept
  <2>4. CASE Grp(k) = g
    <3>1. ~Live(g)'
      <4>1. ~(op.kind = "write" /\ op.step = "buffer" /\ Grp(op.lpn) = g)
        BY <1>2 DEF Inv, Phases
      <4>2. QED BY <1>2, <1>3, <1>5, <4>1 DEF Live
    <3>2. Traced(k, s)' /\ Newest(k, s)'
      BY <2>4, <3>1 DEF Traced, Newest
    <3>3. Covers(pages[g], stored[g], pmt[k], k, s, map'[k][s])
      BY <1>11, <2>1, <2>4
    <3>4. Covered(k, s)'
      BY <1>2, <2>4, <3>3 DEF Covered
    <3>5. Held(pages[g], stored[g], pmt[k], k, s, secured[k][s]) => secured[k][s] <= map'[k][s]
      <4>1. secured[k][s] \in Nat /\ map'[k][s] \in Nat /\ pmt[k] \in Data
        BY <1>3, Typed, TypedNext DEF Inv
      <4>2. QED BY <1>3, <3>3, <4>1, HeldBelow
    <3>6. Mapped(k, s)'
      <4>1. CASE Old.lpn = k /\ s \in Old.valid
        <5>1. OldHeld => secured[k][s] <= map'[k][s]
          BY <2>4, <3>5, <4>1 DEF OldHeld
        <5>2. OldHeld \/ OldInBuf
          BY <1>2, <2>1, <4>1 DEF Kept, Data0, OldKept
        <5>3. CASE Forgets
          <6>1. OldHeld
            BY <4>1, <5>3 DEF Forgets
          <6>2. QED BY <1>2, <5>1, <6>1 DEF Mapped
        <5>4. CASE buf' = buf
          BY <1>2, <4>1, <5>1, <5>2, <5>4 DEF Mapped, Buffered, OldInBuf
        <5>5. QED BY <1>6, <5>3, <5>4
      <4>2. CASE ~(Old.lpn = k /\ s \in Old.valid)
        BY <1>2, <2>1, <2>4, <3>5, <4>2 DEF PageKept, Safe, Mapped
      <4>3. QED BY <4>1, <4>2
    <3>7. QED BY <2>2, <3>2, <3>4, <3>6 DEF PageKept
  <2>5. QED BY <2>3, <2>4
<1>16. OldKept'
  <2> SUFFICES ASSUME Old.lpn \in Lpns \ reverted'
               PROVE  (OldHeld \/ OldNewer)' /\ (~dropped' => OldTops') /\ (OldHeld \/ OldInBuf)'
    BY <1>9 DEF OldKept
  <2>1. Old.lpn \in Lpns \ reverted
    BY <1>7
  <2>2. (OldHeld \/ OldNewer) /\ (~dropped => OldTops) /\ (OldHeld \/ OldInBuf)
    BY <1>2, <2>1 DEF Kept, Data0, OldKept
  <2>3. (OldHeld => OldHeld') /\ (OldTops => OldTops')
    BY <1>2, <1>9 DEF OldHeld, OldTops
  <2>4. CASE Forgets
    BY <1>8, <2>3, <2>4 DEF Forgets
  <2>5. CASE buf' = buf /\ dropped' = dropped
    <3>1. (OldNewer => OldNewer') /\ (OldInBuf => OldInBuf')
      BY <1>2, <1>9, <2>5 DEF OldNewer, OldInBuf
    <3>2. QED BY <2>2, <2>3, <2>5, <3>1
  <2>6. QED BY <1>6, <2>4, <2>5
<1>17. BufClean'
  <2> SUFFICES ASSUME buf'.lpn # None, ~buf'.dirty, NEW s \in buf'.valid
               PROVE  map'[buf'.lpn][s] = buf'.data[s]
    BY DEF BufClean
  <2>1. buf' = buf /\ buf.lpn \in Lpns
    BY <1>3, <1>8, BufTyped
  <2>2. Grp(buf.lpn) \notin unscanned
    BY <1>2, <2>1 DEF Kept, Place, Scanned, Flushed
  <2>3. map'[buf.lpn] = map[buf.lpn]
    BY <1>2, <1>10, <2>1, <2>2
  <2>4. QED BY <1>2, <2>1, <2>3 DEF Kept, Data0, BufClean
<1>18. BufNewest'
  <2> SUFFICES ASSUME NEW l, l = buf'.lpn, buf'.dirty, Trusted', l \notin reverted',
                      NEW s \in buf'.valid
               PROVE  secured[l][s] <= buf'.data[s] /\ map'[l][s] <= buf'.data[s]
    BY <1>2 DEF BufNewest
  <2>1. buf' = buf /\ dropped' = dropped /\ reverted' = reverted /\ l \in Lpns /\ buf.dirty
    BY <1>3, <1>8, BufTyped
  <2>2. Trusted
    BY <1>2, <2>1 DEF Trusted
  <2>3. secured[l][s] <= buf.data[s] /\ map[l][s] <= buf.data[s] /\ s \in Secs
    BY <1>2, <1>3, <2>1, <2>2, BufTyped DEF Kept, Data0, BufNewest
  <2>4. CASE Grp(l) # g
    BY <1>10, <2>1, <2>3, <2>4
  <2>5. CASE Grp(l) = g
    <3>1. Opening("flush") /\ l # None
      BY <1>2, <2>1, <2>5, Sizes DEF Kept, Place, Scanned
    <3>2. ~dropped
      BY <2>2, <3>1 DEF Trusted, Opening
    <3>3. Old.lpn = l /\ Old.valid = buf.valid /\ Old.data = buf.data
      BY <1>2, <1>4, <2>1, <3>1, SameBlk
    <3>4. Tops(pages[g], stored[g], pmt[l], l, s, buf.data[s])
      BY <2>1, <2>5, <3>2, <3>3 DEF Kept, Data0, OldKept, OldTops
    <3>5. Traces(pages[g], stored[g], pmt[l], l, s, map'[l][s])
      BY <1>11, <2>1, <2>3, <2>5
    <3>6. map'[l][s] \in Nat /\ buf.data[s] \in Nat /\ pmt[l] \in Data
      BY <1>3, <2>1, <2>3, Typed, TypedNext, BufTyped DEF Inv
    <3>7. map'[l][s] <= buf.data[s]
      BY <1>3, <2>3, <3>4, <3>5, <3>6, TracesBelow
    <3>8. QED BY <2>1, <2>3, <3>7
  <2>6. QED BY <2>4, <2>5
<1>19. BufTops'
  BY <1>2, <1>4 DEF BufTops
<1>20. BufForm'
  <2>1. CASE Forgets
    <3>1. buf'.lpn = None /\ ~(buf'.cp < BufPages)
      BY <1>8, <2>1, SizesAssumption
    <3>2. QED BY <1>2, <3>1 DEF Kept, BufForm
  <2>2. CASE buf' = buf
    BY <1>2, <2>2 DEF Kept, BufForm
  <2>3. QED BY <1>6, <2>1, <2>2
<1>21. Past'
  <2>1. UpTo(Blank, writes)
    BY <1>3, SizesAssumption DEF UpTo, Blank, Types, MapTypes
  <2>2. \A l \in Lpns : UpTo(map'[l], writes)
    <3> SUFFICES ASSUME NEW l \in Lpns PROVE UpTo(map'[l], writes)
      OBVIOUS
    <3>1. /\ Grp(l) \in Groups /\ pages[Grp(l)] \in Seq(LogPage) /\ stored[Grp(l)] \in Nat
      BY <1>3, Typed
    <3>2. Logged(pages[Grp(l)], stored[Grp(l)], l) \subseteq 1 .. Len(pages[Grp(l)])
      BY <3>1, LogPages
    <3>3. QED BY <1>10, <3>1, <3>2 DEF Kept, Past
  <2>3. UpTo(buf'.data, writes)
    BY <1>6, <1>8, <2>1 DEF Kept, Past
  <2>4. QED BY <1>2, <2>2, <2>3 DEF Kept, Past
<1>22. ToCome'
  <2> SUFFICES ASSUME NEW l \in Lpns, Ahead(l), NEW s \in Secs
               PROVE  /\ map'[l][s] < writes
                      /\ buf'.lpn = l => buf'.data[s] < writes
                      /\ \A i \in Logged(pages[Grp(l)], stored[Grp(l)], l) :
                             pages[Grp(l)][i].data[s] < writes
    BY <1>2 DEF ToCome, Ahead
  <2>1. /\ map[l][s] < writes
        /\ buf.lpn = l => buf.data[s] < writes
        /\ \A i \in Logged(pages[Grp(l)], stored[Grp(l)], l) : pages[Grp(l)][i].data[s] < writes
    BY DEF Kept, ToCome
  <2>2. map'[l][s] < writes
    BY <1>10, <2>1
  <2>3. buf'.lpn = l => buf'.data[s] < writes
    BY <1>8, <2>1, Sizes
  <2>4. QED BY <2>1, <2>2, <2>3
<1>23. Place'
  <2>1. Place
    BY DEF Kept
  <2>2. InBlock' /\ SameBlock'
    BY <1>2, <1>8, <1>9, <2>1 DEF Place, InBlock, SameBlock, Opening
  <2>3. GivenUp'
    <3>1. CASE Forgets
      BY <1>9, <3>1 DEF Forgets, GivenUp
    <3>2. CASE buf' = buf /\ dropped' = dropped
      BY <1>2, <1>9, <2>1, <3>2 DEF Place, GivenUp
    <3>3. QED BY <1>6, <3>1, <3>2
  <2>4. Scanned'
    BY <1>2, <1>8, <1>9, <2>1 DEF Place, Scanned, Opening
  <2>5. Flushed'
    <3>1. CASE Forgets
      BY <1>2, <1>8, <3>1 DEF Forgets, Flushed, Opening
    <3>2. CASE buf' = buf
      BY <1>2, <2>1, <3>2 DEF Place, Flushed, Opening
    <3>3. QED BY <1>6, <3>1, <3>2
  <2>6. Storing'
    BY <1>2, <1>4 DEF Storing
  <2>7. QED BY <2>2, <2>3, <2>4, <2>5, <2>6 DEF Place
<1>24. Calls'
  <2>1. StepsOf' /\ WriteWhole' /\ DeletesOne'
    BY <1>2 DEF Kept, Calls, StepsOf, WriteWhole, Whole, DeletesOne
  <2>2. ToBuffer'
    <3>1. CASE Forgets
      BY <1>2, <3>1 DEF Forgets, Opening, ToBuffer
    <3>2. CASE buf' = buf
      BY <1>2, <3>2 DEF Kept, Calls, ToBuffer, Bits, Prefix
    <3>3. QED BY <1>6, <3>1, <3>2
  <2>3. QED BY <2>1, <2>2 DEF Calls
<1>25. QED BY <1>12, <1>13, <1>14, <1>15, <1>16, <1>17, <1>18, <1>19, <1>20, <1>21, <1>22,
              <1>23, <1>24 DEF Kept, Data0
-----------------------------------------------------------------------------
(***************************************************************************)
(* The theorem.                                                            *)
(***************************************************************************)
LEMMA InitKept ==
  ASSUME Init
  PROVE  Kept
<1>1. /\ ~open /\ storedBBlk = 1 /\ bblk = [b \in {1, 2} |-> <<>>]
      /\ pages = [g \in Groups |-> <<>>] /\ stored = [g \in Groups |-> PagesPerSBlk]
      /\ pmt = [l \in Lpns |-> Blank] /\ map = [l \in Lpns |-> Blank]
      /\ secured = [l \in Lpns |-> Blank] /\ writes = 0
      /\ buf.lpn = None /\ buf.data = Blank /\ op.kind = "none" /\ op.step = "none"
  BY DEF Init, NoBuf, Idle
<1>2. Old.lpn = None
  <2>1. bblk[storedBBlk] = <<>>
    BY <1>1
  <2>2. QED BY <2>1, ScanBufferEmpty DEF Old, NoBuf
<1>3. PagesKept
  <2> SUFFICES ASSUME NEW l \in Lpns, NEW s \in Secs PROVE PageKept(l, s)
    BY DEF PagesKept
  <2>1. pages[Grp(l)] = <<>> /\ pmt[l] = Blank /\ secured[l] = Blank /\ stored[Grp(l)] = PagesPerSBlk
    BY <1>1, GrpType
  <2>2. Logged(<<>>, PagesPerSBlk, l) = {} /\ Blank[s] = 0
    BY SizesAssumption DEF Logged, Blank
  <2>3. Rising(l, s)
    BY <2>1, <2>2 DEF Rising, Rises
  <2>4. Safe(l, s)
    BY <2>1, <2>2 DEF Safe, Held
  <2>5. Mapped(l, s) /\ Traced(l, s) /\ Newest(l, s) /\ Covered(l, s)
    BY <1>1 DEF Mapped, Traced, Newest, Covered, Live
  <2>6. QED BY <2>3, <2>4, <2>5 DEF PageKept
<1>4. LogsClean
  BY <1>1 DEF LogsClean
<1>5. OldKept
  BY <1>2, Sizes DEF OldKept
<1>6. BufClean /\ BufNewest /\ BufTops /\ Unread /\ Behind
  BY <1>1 DEF BufClean, BufNewest, BufTops, Unread, Behind
<1>7. BufForm
  BY <1>1 DEF BufForm
<1>8. Past
  <2>1. UpTo(Blank, writes)
    BY <1>1 DEF UpTo, Blank
  <2>2. QED BY <1>1, <2>1 DEF Past
<1>9. ToCome /\ Calls
  BY <1>1 DEF ToCome, Ahead, Calls, StepsOf, WriteWhole, ToBuffer, DeletesOne
<1>10. Place
  BY <1>1 DEF Place
<1>11. QED BY <1>3, <1>4, <1>5, <1>6, <1>7, <1>8, <1>9, <1>10 DEF Kept, Data0

\* A step that changes nothing.
LEMMA StillKept ==
  ASSUME Kept, UNCHANGED vars
  PROVE  Kept'
<1>1. UNCHANGED still /\ UNCHANGED <<op, flushing, writes>>
  BY DEF vars, flash, ram, hist, still
<1>2. Old' = Old /\ Cur' = Cur
  BY <1>1, BlocksStill DEF still
<1>3. LogsClean' /\ Unread' /\ Behind'
  BY <1>1 DEF still, Kept, Data0, LogsClean, Unread, Behind
<1>4. PagesKept'
  <2> SUFFICES ASSUME NEW l \in Lpns \ reverted, NEW s \in Secs PROVE PageKept(l, s)'
    BY <1>1 DEF PagesKept, still
  <2>1. PageKept(l, s)
    BY DEF Kept, Data0, PagesKept
  <2>2. Live(Grp(l))' <=> Live(Grp(l))
    BY <1>1 DEF Live, still
  <2>3. Rising(l, s)' /\ Safe(l, s)' /\ Mapped(l, s)'
    BY <1>1, <1>2, <2>1 DEF PageKept, Rising, Safe, Mapped, Buffered, still
  <2>4. Traced(l, s)' /\ Newest(l, s)' /\ Covered(l, s)'
    BY <1>1, <2>1, <2>2 DEF PageKept, Traced, Newest, Covered, Deleting, still
  <2>5. QED BY <2>3, <2>4 DEF PageKept
<1>5. OldKept'
  BY <1>1, <1>2 DEF still, Kept, Data0, OldKept, OldHeld, OldNewer, OldTops, OldInBuf
<1>6. BufClean' /\ BufNewest'
  BY <1>1 DEF still, Kept, Data0, BufClean, BufNewest, Trusted
<1>7. BufTops'
  BY <1>1 DEF still, Kept, Data0, BufTops
<1>8. BufForm' /\ Past'
  BY <1>1 DEF still, Kept, BufForm, Past
<1>9. ToCome'
  BY <1>1 DEF still, Kept, ToCome, Ahead
<1>10. Place'
  <2>1. open => InBlock' /\ SameBlock' /\ GivenUp' /\ Scanned'
    BY <1>1, <1>2 DEF still, Kept, Place, InBlock, SameBlock, GivenUp, Scanned, Opening
  <2>2. open => Flushed' /\ Storing'
    BY <1>1, <1>2 DEF still, Kept, Place, Flushed, Storing, Opening
  <2>3. QED BY <1>1, <2>1, <2>2 DEF Place, still
<1>11. StepsOf' /\ WriteWhole' /\ DeletesOne'
  BY <1>1 DEF still, Kept, Calls, StepsOf, WriteWhole, Whole, DeletesOne
<1>12. ToBuffer'
  BY <1>1 DEF still, Kept, Calls, ToBuffer, Bits, Prefix
<1>13. QED BY <1>3, <1>4, <1>5, <1>6, <1>7, <1>8, <1>9, <1>10, <1>11, <1>12 DEF Kept, Data0, Calls

\* Every step keeps the invariant.
LEMMA NextKept ==
  ASSUME DeletesUnbuffered, Inv, Inv', Kept, [Next]_vars
  PROVE  Kept'
<1>1. CASE BeginOpen
  BY <1>1, BeginOpenKept
<1>2. CASE OpenStep
  BY <1>2, OpenFlushKept, OpenEraseKept, OpenStoreKept DEF OpenStep
<1>3. CASE BeginWrite
  BY <1>3, BeginWriteKept
<1>4. CASE WriteStep
  BY <1>4, StoreStepKept, WriteStartKept, WriteTakeLogStores, WriteToBufferKept, WriteLogPageKept,
     WriteBufferPageKept, WriteStoreBMTCtxKept, EndOfGroupKept DEF WriteStep
<1>5. CASE ReadStart
  BY <1>5, ReadStartKept
<1>6. CASE FlushStep
  BY <1>6, StoreStepKept, FlushPageKept, FlushTakeLogStores DEF FlushStep
<1>7. CASE ScanStep
  BY <1>7, ScanKept
<1>8. CASE \E l \in Deletable : BeginDelete(l)
  BY <1>8, BeginDeleteKept
<1>9. CASE DeleteStep
  BY <1>9, DeleteInvalidateKept, DeletePageKept DEF DeleteStep
<1>10. CASE EvictStep
  BY <1>10, StoreStepKept, EvictFlushKept, EvictStores DEF EvictStep
<1>11. CASE BeginClose
  BY <1>11, BeginCloseKept
<1>12. CASE CloseStep
  BY <1>12, StoreStepKept, CloseStartKept, CloseEraseKept, CloseStores, PowerLossKept DEF CloseStep
<1>13. CASE PowerLoss
  BY <1>13, PowerLossKept
<1>14. CASE UNCHANGED vars
  BY <1>14, StillKept
<1>15. QED BY <1>1, <1>2, <1>3, <1>4, <1>5, <1>6, <1>7, <1>8, <1>9, <1>10, <1>11, <1>12,
             <1>13, <1>14 DEF Next

\* Between calls a read returns the page of the map, or of a buffer that can be
\* trusted.
LEMMA KeptSurvives ==
  ASSUME Inv, Kept
  PROVE  SecuredSurvives
<1> SUFFICES ASSUME op.kind = "none", open, NEW l \in Lpns \ reverted, NEW s \in Secs,
                    Grp(l) \notin unscanned
             PROVE  Read(l)[s] >= secured[l][s]
  BY DEF SecuredSurvives
<1>1. secured[l][s] \in Nat /\ map[l][s] \in Nat /\ buf.data[s] \in Nat
  BY Typed DEF Inv
<1>2. Read(l)[s] = IF Buffered(l, s) THEN buf.data[s] ELSE map[l][s]
  BY DEF Read, Merged, Buffered
<1>3. CASE Buffered(l, s)
  <2>1. secured[l][s] <= buf.data[s]
    BY <1>3 DEF Kept, Data0, BufNewest, Trusted, Buffered
  <2>2. QED BY <1>1, <1>2, <1>3, <2>1
<1>4. CASE ~Buffered(l, s)
  <2>1. secured[l][s] <= map[l][s]
    BY <1>4 DEF Kept, Data0, PagesKept, PageKept, Mapped
  <2>2. QED BY <1>1, <1>2, <1>4, <2>1
<1>5. QED BY <1>3, <1>4

\* What a confirmed log, a stored map or the buffer block once held is never
\* read back older, whatever calls the power losses interrupt and however often
\* the zone is opened again: but for the pages an open has taken from a buffer
\* block that was given up in RAM, or from the log in place of a newer buffered
\* page, which "reverted" names.
THEOREM SecuredCorrect ==
  ASSUME DeletesUnbuffered
  PROVE  Spec => []SecuredSurvives
<1>1. Init => Kept
  BY InitKept
<1>2. Inv /\ Inv' /\ Kept /\ [Next]_vars => Kept'
  BY NextKept
<1>3. Inv /\ Kept => SecuredSurvives
  BY KeptSurvives
<1>4. QED BY <1>1, <1>2, <1>3, Invariance, PTL DEF Spec

(***************************************************************************)
(* Between calls nothing that reads return depends on the RAM.  The        *)
(* invariant Durable compares the map of a scanned group with what a scan  *)
(* of its log would find.  It is about whole pages and about equality      *)
(* where Kept is about sectors and about age.                              *)
(***************************************************************************)
\* The log of group g ends in a page without a confirm mark, the one in front
\* of page l.
LastPg(g) == pages[g][Len(pages[g])]
Loose(g) == stored[g] < Len(pages[g]) /\ ~LastPg(g).confirm
Joins(g, l) == Loose(g) /\ LastPg(g).lpn # None /\ l = LastPg(g).lpn + 1

\* The map of group g is the stored one with the log up to page n.
MapUpto(g, n) ==
    \A l \in Lpns : Grp(l) = g => map[l] = Apply(pmt, pages[g], stored[g] + 1, n)[l]
MapStored(g) == \A l \in Lpns : Grp(l) = g => map[l] = pmt[l]

\* The last page with a mark.
Marks(g) == {i \in stored[g] + 1 .. Len(pages[g]) : pages[g][i].confirm}
LastMark(g) == IF Marks(g) = {} THEN stored[g] ELSE Max(Marks(g))

\* A log without a mark at its end: the next page is buffered and dirty, or it
\* is the one the running write is about to program.
Hangs(g) == buf.dirty /\ Joins(g, buf.lpn)
Writing(g) ==
    op.kind = "write" /\ op.step \in {"page", "buffer", "bmt"} /\ Joins(g, op.lpn)
Filling(g) ==
    op.kind = "write" /\ op.step \in {"buffer", "bmt"} /\ Grp(op.lpn) = g

\* The map of a scanned log has what an open would find: what is in front of
\* the last mark, no page being the neighbour of the buffered one; or all of
\* the log while its last page waits for its neighbour.
Settled(g) ==
    /\ MapUpto(g, LastMark(g))
    /\ ~Joins(g, Old.lpn) /\ ~Joins(g, Cur.lpn)
    /\ cp[g] < PagesPerSBlk \/ Filling(g) => ~Loose(g)
Pending(g) == MapUpto(g, Len(pages[g])) /\ (Hangs(g) \/ Writing(g))
GroupFollows(g) == IF g \in active THEN Settled(g) \/ Pending(g) ELSE MapStored(g)
Follows == open => \A g \in Groups \ unscanned : g # delGrp => GroupFollows(g)

\* The last page of a group is always confirmed.
Borders == \A g \in Groups : \A i \in 1 .. Len(pages[g]) :
    pages[g][i].lpn # None /\ ~pages[g][i].confirm => Grp(pages[g][i].lpn + 1) = g

\* A dirty page in the buffer is no older than the map, reverted or not.
BufAbove == open /\ buf.dirty /\ op.kind # "open" =>
    \A s \in buf.valid : map[buf.lpn][s] <= buf.data[s]

Durable == Follows /\ Borders /\ BufAbove

\* The end of a log and its last mark.
LEMMA LogEnd ==
  ASSUME Types, NEW g \in Groups
  PROVE  /\ pages[g] \in Seq(LogPage) /\ stored[g] \in Nat /\ Len(pages[g]) \in Nat
         /\ Marks(g) \subseteq stored[g] + 1 .. Len(pages[g])
         /\ LastMark(g) \in Nat
         /\ stored[g] < Len(pages[g]) /\ ~Loose(g) => LastMark(g) = Len(pages[g])
         /\ Len(pages[g]) <= stored[g] => LastMark(g) = stored[g] /\ ~Loose(g)
<1>1. pages[g] \in Seq(LogPage) /\ stored[g] \in Nat /\ Len(pages[g]) \in Nat
  BY SizesAssumption DEF Types, LogTypes
<1>2. Marks(g) \subseteq stored[g] + 1 .. Len(pages[g])
  BY DEF Marks
<1>3. Marks(g) \subseteq 0 .. Len(pages[g])
  BY <1>1, <1>2
<1>4. Marks(g) # {} => Max(Marks(g)) \in Marks(g) /\ \A i \in Marks(g) : i <= Max(Marks(g))
  BY <1>1, <1>3, MaxIn
<1>5. LastMark(g) \in Nat
  BY <1>1, <1>3, <1>4 DEF LastMark
<1>6. ASSUME stored[g] < Len(pages[g]), ~Loose(g) PROVE LastMark(g) = Len(pages[g])
  <2>1. Len(pages[g]) \in Marks(g)
    BY <1>1, <1>6 DEF Marks, Loose, LastPg
  <2>2. Len(pages[g]) <= Max(Marks(g)) /\ Max(Marks(g)) \in stored[g] + 1 .. Len(pages[g])
    BY <1>2, <1>4, <2>1
  <2>3. LastMark(g) = Max(Marks(g))
    BY <2>1 DEF LastMark
  <2>4. QED BY <1>1, <2>2, <2>3
<1>7. ASSUME Len(pages[g]) <= stored[g] PROVE LastMark(g) = stored[g] /\ ~Loose(g)
  <2>1. Marks(g) = {}
    BY <1>1, <1>2, <1>7
  <2>2. ~Loose(g)
    BY <1>1, <1>7 DEF Loose
  <2>3. QED BY <2>1, <2>2 DEF LastMark
<1>8. QED BY <1>1, <1>2, <1>5, <1>6, <1>7

\* Nothing of the log is taken over.
LEMMA ApplyNothing ==
  ASSUME NEW m, NEW ps, NEW n \in Nat, NEW l \in Lpns
  PROVE  Apply(m, ps, n + 1, n)[l] = m[l]
<1>1. {i \in n + 1 .. n : ps[i].lpn = l} = {}
  OBVIOUS
<1>2. QED BY <1>1 DEF Apply

\* A page more is taken over.
LEMMA ApplyOneMore ==
  ASSUME NEW ps \in Seq(LogPage), NEW p \in LogPage, NEW m, NEW l \in Lpns,
         NEW first \in Nat \ {0}, first <= Len(ps) + 1, NEW n, n = Len(ps) + 1
  PROVE  Apply(m, Append(ps, p), first, n)[l] =
             IF p.lpn = l THEN p.data ELSE Apply(m, ps, first, Len(ps))[l]
<1> DEFINE qs == Append(ps, p)
           a1 == {i \in first .. Len(ps) : ps[i].lpn = l}
           a2 == {i \in first .. n : qs[i].lpn = l}
<1>1. /\ Len(ps) \in Nat /\ qs[n] = p
      /\ \A i \in 1 .. Len(ps) : qs[i] = ps[i]
  OBVIOUS
<1>2. Apply(m, qs, first, n)[l] = IF a2 = {} THEN m[l] ELSE qs[Max(a2)].data
  BY DEF Apply
<1>3. Apply(m, ps, first, Len(ps))[l] = IF a1 = {} THEN m[l] ELSE ps[Max(a1)].data
  BY DEF Apply
<1> HIDE DEF qs
<1>4. CASE p.lpn = l
  <2>1. n \in a2
    BY <1>1, <1>4
  <2>2. a2 \in SUBSET (0 .. n) /\ a2 # {} /\ n \in Nat
    BY <1>1, <2>1
  <2>3. Max(a2) \in a2 /\ n <= Max(a2)
    BY <2>1, <2>2, MaxIn
  <2>4. Max(a2) = n
    BY <1>1, <2>3
  <2>5. QED BY <1>1, <1>2, <1>4, <2>2, <2>4 DEF qs
<1>5. CASE p.lpn # l
  <2>1. a2 = a1
    BY <1>1, <1>5
  <2>2. a1 # {} => Max(a1) \in a1
    <3>1. a1 \in SUBSET (0 .. Len(ps))
      BY <1>1
    <3>2. QED BY <1>1, <3>1, MaxIn
  <2>3. a1 # {} => qs[Max(a1)] = ps[Max(a1)]
    BY <1>1, <2>2
  <2>4. QED BY <1>2, <1>3, <1>5, <2>1, <2>3 DEF qs
<1>6. QED BY <1>4, <1>5

\* The page behind the end of a log that waits for it is of the same group.
LEMMA JoinsGroup ==
  ASSUME Types, Borders, NEW g \in Groups, NEW l, Joins(g, l)
  PROVE  Grp(l) = g /\ l # None
<1>1. Len(pages[g]) \in 1 .. Len(pages[g]) /\ LastPg(g).lpn # None /\ ~LastPg(g).confirm
      /\ l = LastPg(g).lpn + 1
  BY LogEnd DEF Joins, Loose
<1>2. Grp(l) = g
  BY <1>1 DEF Borders, LastPg
<1>3. QED BY <1>2, GrpNone

\* A group whose log is stored follows.
LEMMA StoredFollows ==
  ASSUME Types', NEW g \in Groups, Len(pages'[g]) <= stored'[g],
         \A l \in Lpns : Grp(l) = g => map'[l] = pmt'[l]
  PROVE  GroupFollows(g)'
<1>1. stored'[g] \in Nat /\ LastMark(g)' = stored'[g] /\ ~Loose(g)'
  <2>1. pages'[g] \in Seq(LogPage) /\ stored'[g] \in Nat /\ Len(pages'[g]) \in Nat
    BY SizesAssumption DEF Types, LogTypes
  <2>2. Marks(g)' = {}
    BY <2>1 DEF Marks
  <2>3. ~Loose(g)'
    BY <2>1 DEF Loose
  <2>4. QED BY <2>1, <2>2, <2>3 DEF LastMark
<1>2. MapUpto(g, LastMark(g))'
  BY <1>1, ApplyNothing DEF MapUpto
<1>3. Settled(g)'
  BY <1>1, <1>2 DEF Settled, Joins
<1>4. MapStored(g)'
  BY DEF MapStored
<1>5. QED BY <1>3, <1>4 DEF GroupFollows

\* The log of a group and its map are as they were.
GroupStill(g) ==
    /\ pages'[g] = pages[g] /\ stored'[g] = stored[g] /\ cp'[g] = cp[g]
    /\ g \in active' <=> g \in active
    /\ \A l \in Lpns : Grp(l) = g => map'[l] = map[l] /\ pmt'[l] = pmt[l]

LEMMA StillFollows ==
  ASSUME NEW g \in Groups, GroupStill(g), GroupFollows(g),
         Settled(g) => ~Joins(g, Old'.lpn) /\ ~Joins(g, Cur'.lpn),
         Filling(g)' => Filling(g) \/ cp[g] < PagesPerSBlk,
         Hangs(g) \/ Writing(g) => Hangs(g)' \/ Writing(g)'
  PROVE  GroupFollows(g)'
<1>1. /\ LastMark(g)' = LastMark(g) /\ (Loose(g)' <=> Loose(g)) /\ LastPg(g)' = LastPg(g)
  BY DEF GroupStill, LastMark, Marks, Loose, LastPg
<1>2. \A n : MapUpto(g, n) => MapUpto(g, n)'
  <2> SUFFICES ASSUME NEW n, MapUpto(g, n) PROVE MapUpto(g, n)'
    OBVIOUS
  <2>1. \A l \in Lpns : Grp(l) = g =>
            Apply(pmt', pages'[g], stored'[g] + 1, n)[l] = Apply(pmt, pages[g], stored[g] + 1, n)[l]
    BY DEF GroupStill, Apply
  <2>2. QED BY <2>1 DEF GroupStill, MapUpto
<1>3. \A l : Joins(g, l)' <=> Joins(g, l)
  BY <1>1 DEF Joins
<1>4. Settled(g) => Settled(g)'
  <2> SUFFICES ASSUME Settled(g) PROVE Settled(g)'
    OBVIOUS
  <2>1. MapUpto(g, LastMark(g))'
    BY <1>1, <1>2 DEF Settled
  <2>2. ~Joins(g, Old.lpn)' /\ ~Joins(g, Cur.lpn)'
    BY <1>3 DEF Joins
  <2>3. QED BY <1>1, <2>1, <2>2 DEF Settled, GroupStill
<1>5. Pending(g) => Pending(g)'
  <2> SUFFICES ASSUME Pending(g) PROVE Pending(g)'
    OBVIOUS
  <2>1. MapUpto(g, Len(pages[g]))'
    <3> SUFFICES ASSUME NEW n, n = Len(pages[g]) PROVE MapUpto(g, n)'
      BY DEF GroupStill, MapUpto
    <3>1. QED BY <1>2 DEF Pending
  <2>2. QED BY <2>1 DEF Pending
<1>6. MapStored(g) => MapStored(g)'
  BY DEF MapStored, GroupStill
<1>7. QED BY <1>4, <1>5, <1>6 DEF GroupFollows, GroupStill

\* The map of a log that can be written has all of it.
LEMMA LiveUpto ==
  ASSUME Inv, Kept, Durable, open, NEW g \in Groups, g \notin unscanned, HasRoom(g), g # delGrp
  PROVE  MapUpto(g, Len(pages[g])) /\ (Settled(g) => ~Loose(g)) /\ (Settled(g) \/ Pending(g))
<1>1. Types /\ g \in active /\ cp[g] < PagesPerSBlk /\ cp[g] \in Nat
  BY SizesAssumption DEF Inv, Types, LogTypes, HasRoom
<1>2. GroupFollows(g)
  BY DEF Durable, Follows
<1>3. Settled(g) \/ Pending(g)
  BY <1>1, <1>2 DEF GroupFollows
<1>4. Settled(g) => ~Loose(g)
  BY <1>1 DEF Settled
<1>5. stored[g] <= Len(pages[g])
  <2>1. Len(pages[g]) = cp[g]
    BY <1>1 DEF Inv, Ends
  <2>2. QED BY <1>1, <2>1 DEF Kept, Data0, Behind
<1>6. ~Loose(g) => LastMark(g) = Len(pages[g])
  BY <1>1, <1>5, LogEnd
<1>7. QED BY <1>3, <1>4, <1>6 DEF Settled, Pending

\* A call that moves on.
LEMMA DurableStill ==
  ASSUME Durable, UNCHANGED still,
         op.kind = "write" /\ op.step \in {"page", "buffer", "bmt"} =>
             op'.kind = "write" /\ op'.step \in {"page", "buffer", "bmt"} /\ op'.lpn = op.lpn,
         op'.kind = "write" /\ op'.step \in {"buffer", "bmt"} =>
             op' = op \/ cp[Grp(op'.lpn)] < PagesPerSBlk,
         op.kind = "open" => op'.kind = "open" \/ ~buf.dirty
  PROVE  Durable'
<1>1. Follows'
  <2> SUFFICES ASSUME open, NEW g \in Groups \ unscanned, g # delGrp PROVE GroupFollows(g)'
    BY DEF Follows, still
  <2>1. GroupFollows(g)
    BY DEF Durable, Follows
  <2>2. GroupStill(g)
    BY DEF GroupStill, still
  <2>3. Old' = Old /\ Cur' = Cur
    BY BlocksStill DEF still
  <2>4. Settled(g) => ~Joins(g, Old'.lpn) /\ ~Joins(g, Cur'.lpn)
    BY <2>3 DEF Settled
  <2>5. Filling(g)' => Filling(g) \/ cp[g] < PagesPerSBlk
    BY DEF Filling
  <2>6. \A l : Joins(g, l)' <=> Joins(g, l)
    BY DEF Joins, Loose, LastPg, still
  <2>7. Hangs(g) => Hangs(g)'
    BY <2>6 DEF Hangs, still
  <2>8. Writing(g) => Writing(g)'
    BY <2>6 DEF Writing
  <2>9. QED BY <2>1, <2>2, <2>4, <2>5, <2>7, <2>8, StillFollows
<1>2. Borders'
  BY DEF Durable, Borders, still
<1>3. BufAbove'
  BY DEF Durable, BufAbove, still
<1>4. QED BY <1>1, <1>2, <1>3 DEF Durable

\* The calls that move on.
LEMMA CallsDurable ==
  ASSUME Inv, Kept, Durable,
         \/ BeginWrite \/ WriteToBuffer \/ EvictFlush \/ EndOfGroup \/ BeginClose \/ OpenFlush
         \/ \E l \in Deletable : BeginDelete(l)
  PROVE  Durable'
<1>1. CASE BeginWrite
  <2>1. UNCHANGED still /\ op.kind = "none"
    BY <1>1 DEF BeginWrite, still, flash
  <2>2. op'.step = "start"
    BY <1>1 DEF BeginWrite, ZoneCall
  <2>3. QED BY <2>1, <2>2, DurableStill
<1>2. CASE WriteToBuffer
  <2>1. UNCHANGED still /\ op.kind = "write" /\ op.step = "page" /\ HasRoom(Grp(op.lpn))
    BY <1>2 DEF WriteToBuffer, still, flash, hist, At
  <2>2. op'.kind = "write" /\ op'.step = "buffer" /\ op'.lpn = op.lpn
    <3>1. op \in Ops /\ op' = [op EXCEPT !.step = "buffer"]
      BY <1>2 DEF WriteToBuffer, GoTo, Inv, Types, CallTypes
    <3>2. QED BY <2>1, <3>1 DEF Ops
  <2>3. QED BY <2>1, <2>2, DurableStill DEF HasRoom
<1>3. CASE EvictFlush
  <2>1. UNCHANGED still /\ op' = op
    BY <1>3 DEF EvictFlush, still, flash, hist
  <2>2. QED BY <2>1, DurableStill
<1>4. CASE EndOfGroup
  <2>1. UNCHANGED still /\ op.kind = "write" /\ op.step = "reserve"
    BY <1>4 DEF EndOfGroup, still, flash, hist, At
  <2>2. op'.step \in {"none", "start"}
    BY <1>4 DEF EndOfGroup, ZoneCall, Idle
  <2>3. QED BY <2>1, <2>2, DurableStill
<1>5. CASE BeginClose
  <2>1. UNCHANGED still /\ op.kind = "none"
    BY <1>5 DEF BeginClose, still, flash, hist
  <2>2. op'.step = "start"
    BY <1>5 DEF BeginClose, Idle
  <2>3. QED BY <2>1, <2>2, DurableStill
<1>6. CASE OpenFlush
  <2>1. UNCHANGED still /\ op.kind = "open"
    BY <1>6 DEF OpenFlush, still, flash, hist, At
  <2>2. op'.kind = "open" \/ (op'.kind = "none" /\ ~buf.dirty)
    <3>1. op \in Ops /\ (op' = [op EXCEPT !.step = "erase"] \/ (op' = Idle /\ ~buf.dirty))
      BY <1>6 DEF OpenFlush, GoTo, Inv, Types, CallTypes
    <3>2. QED BY <2>1, <3>1 DEF Ops, Idle
  <2>3. QED BY <2>1, <2>2, DurableStill
<1>7. ASSUME NEW l \in Deletable, BeginDelete(l) PROVE Durable'
  <2>1. UNCHANGED still /\ op.kind = "none"
    BY <1>7 DEF BeginDelete, still, flash, hist
  <2>2. op'.kind = "delete"
    BY <1>7 DEF BeginDelete, Idle
  <2>3. QED BY <2>1, <2>2, DurableStill
<1>8. QED BY <1>1, <1>2, <1>3, <1>4, <1>5, <1>6, <1>7

\* A store: the group stored follows, the others as before.
LEMMA StoreDurable ==
  ASSUME Inv, Inv', Kept, Durable, StoreStep
  PROVE  Durable'
<1>1. PICK g \in Groups \ unscanned : Stores(g)
  BY DEF StoreStep
<1>2. open /\ op.step # "bmt" /\ ~Opening("store")
  BY DEF StoreStep
<1>3. Cur' = Cur /\ Old' = Cur
  BY <1>1, <1>2, StoreBlock
<1>4. /\ UNCHANGED <<open, map, unscanned, buf, op>>
      /\ \A h \in Groups \ {g} : /\ pages'[h] = pages[h] /\ stored'[h] = stored[h]
                                 /\ cp'[h] = cp[h] /\ (h \in active' <=> h \in active)
      /\ delGrp' = delGrp \/ (delGrp' = None /\ delGrp = g)
  BY <1>1 DEF Stores
<1>5. \A l \in Lpns : pmt'[l] = IF Grp(l) = g THEN map[l] ELSE pmt[l]
  BY <1>1 DEF Stores, Overlay
<1>6. ASSUME NEW h \in Groups \ unscanned, h # delGrp' PROVE GroupFollows(h)'
  <2>1. CASE h = g
    <3>1. Len(pages'[h]) <= stored'[h] /\ \A l \in Lpns : Grp(l) = h => map'[l] = pmt'[l]
      BY <1>1, <1>4, <1>5, <2>1 DEF Stores
    <3>2. QED BY <3>1, StoredFollows DEF Inv
  <2>2. CASE h # g
    <3>1. GroupFollows(h)
      BY <1>2, <1>4, <1>6, <2>2 DEF Durable, Follows
    <3>2. GroupStill(h)
      BY <1>4, <1>5, <2>2 DEF GroupStill
    <3>3. Settled(h) => ~Joins(h, Old'.lpn) /\ ~Joins(h, Cur'.lpn)
      BY <1>3 DEF Settled
    <3>4. Filling(h)' => Filling(h) \/ cp[h] < PagesPerSBlk
      BY <1>4 DEF Filling
    <3>5. \A l : Joins(h, l)' <=> Joins(h, l)
      BY <3>2 DEF Joins, Loose, LastPg, GroupStill
    <3>6. Hangs(h) \/ Writing(h) => Hangs(h)' \/ Writing(h)'
      BY <1>4, <3>5 DEF Hangs, Writing
    <3>7. QED BY <3>1, <3>2, <3>3, <3>4, <3>6, StillFollows
  <2>3. QED BY <2>1, <2>2
<1>7. Follows'
  BY <1>4, <1>6 DEF Follows
<1>8. Borders'
  <2> SUFFICES ASSUME NEW h \in Groups, NEW i \in 1 .. Len(pages'[h])
               PROVE  pages'[h][i].lpn # None /\ ~pages'[h][i].confirm =>
                          Grp(pages'[h][i].lpn + 1) = h
    BY DEF Borders
  <2>1. i \in 1 .. Len(pages[h]) /\ pages'[h][i] = pages[h][i]
    <3>1. CASE h = g
      <4>1. Len(pages'[g]) <= Len(pages[g]) /\ pages'[h][i] = pages[h][i]
        BY <1>1, <3>1 DEF Stores
      <4>2. Len(pages'[g]) \in Nat /\ Len(pages[g]) \in Nat
        BY DEF Inv, Types, LogTypes
      <4>3. QED BY <3>1, <4>1, <4>2
    <3>2. CASE h # g
      BY <1>4, <3>2
    <3>3. QED BY <3>1, <3>2
  <2>2. QED BY <2>1 DEF Durable, Borders
<1>9. BufAbove'
  BY <1>4 DEF Durable, BufAbove
<1>10. QED BY <1>7, <1>8, <1>9 DEF Durable

\* The steps of the calls that store what a delete has put off, or move on.
LEMMA StartsDurable ==
  ASSUME Inv, Inv', Kept, Durable, WriteStart \/ CloseStart \/ ReadStart
  PROVE  Durable'
<1>1. open /\ op.kind \in {"write", "close", "none"} /\ op.step \in {"start", "none"}
  <2>1. op.kind = "none" => op.step = "none"
    BY DEF Kept, Calls, StepsOf
  <2>2. QED BY <2>1, Opened DEF WriteStart, CloseStart, ReadStart, At
<1>2. CASE StoreDeletedInfo
  BY <1>1, <1>2, StoreDeletedStores, StoreDurable
<1>3. CASE WriteStart /\ ~StoreDeletedInfo
  <2>1. UNCHANGED still /\ op.kind = "write" /\ op.step = "start" /\ GoTo("page")
    BY <1>3 DEF WriteStart, At, still, flash, hist
  <2>2. op'.kind = "write" /\ op'.step = "page"
    BY <2>1, StepIs DEF Inv, Types, CallTypes, Steps
  <2>3. QED BY <2>1, <2>2, DurableStill
<1>4. CASE CloseStart /\ ~StoreDeletedInfo
  <2>1. UNCHANGED still /\ op.kind = "close"
    BY <1>4 DEF CloseStart, At, still, flash, hist
  <2>2. PICK step \in {"erase", "store"} : GoTo(step)
    BY <1>4 DEF CloseStart
  <2>3. op'.kind = "close"
    BY <2>1, <2>2, StepIs DEF Inv, Types, CallTypes, Steps
  <2>4. QED BY <2>1, <2>3, DurableStill
<1>5. QED BY <1>2, <1>3, <1>4 DEF ReadStart

\* A page is programmed: it has a mark, or the running write goes on with the
\* page behind it.
LEMMA ProgramDurable ==
  ASSUME Inv, Kept, Durable, open, NEW g \in Groups, NEW p, Programs(g, p),
         op' = op \/ op.lpn = p.lpn,
         ~p.confirm => /\ Grp(p.lpn + 1) = g
                       /\ op'.kind = "write" /\ op'.step = "page" /\ op'.lpn = p.lpn + 1
  PROVE  Durable'
<1>1. /\ pages'[g] = Append(pages[g], p) /\ p \in LogPage /\ UNCHANGED <<stored, pmt>>
      /\ \A h \in Groups : h # g => pages'[h] = pages[h]
      /\ map'[p.lpn] = p.data /\ \A l \in Lpns : l # p.lpn => map'[l] = map[l]
      /\ \A h \in Groups : h # g => cp'[h] = cp[h]
      /\ stored[g] <= Len(pages[g]) /\ stored[g] \in Nat
      /\ pages[g] \in Seq(LogPage) /\ Old' = Old /\ Cur' = Cur
  BY ProgramFrom
<1>2. /\ p.lpn \in Lpns /\ p.lpn # None /\ Grp(p.lpn) = g /\ HasRoom(g) /\ g \notin unscanned
      /\ buf'.dirty <=> buf.dirty /\ buf.lpn # p.lpn
      /\ buf'.lpn = buf.lpn /\ buf'.valid = buf.valid /\ buf'.data = buf.data
      /\ UNCHANGED <<active, open, unscanned, delGrp>>
      /\ op'.kind = op.kind /\ op'.step # "bmt"
      /\ op'.kind = "write" /\ op'.step = "buffer" => op' = op
  BY Sizes DEF Programs
<1>3. Types /\ Borders
  BY DEF Inv, Durable
<1>4. Len(pages[g]) \in Nat /\ Len(pages'[g]) = Len(pages[g]) + 1
      /\ pages'[g][Len(pages[g]) + 1] = p
      /\ \A i \in 1 .. Len(pages[g]) : pages'[g][i] = pages[g][i]
  BY <1>1
<1>5. ASSUME NEW h \in Groups \ unscanned, h # delGrp, h # g PROVE GroupFollows(h)'
  <2>1. GroupFollows(h)
    BY <1>5 DEF Durable, Follows
  <2>2. GroupStill(h)
    BY <1>1, <1>2, <1>5 DEF GroupStill
  <2>3. Settled(h) => ~Joins(h, Old'.lpn) /\ ~Joins(h, Cur'.lpn)
    BY <1>1 DEF Settled
  <2>4. Filling(h)' => Filling(h) \/ cp[h] < PagesPerSBlk
    BY <1>2 DEF Filling
  <2>5. \A l : Joins(h, l)' <=> Joins(h, l)
    BY <2>2 DEF Joins, Loose, LastPg, GroupStill
  <2>6. \A l : Joins(h, l) => l # p.lpn
    BY <1>2, <1>3, <1>5, JoinsGroup
  <2>7. Hangs(h) => Hangs(h)'
    BY <1>2, <2>5, <2>6 DEF Hangs
  <2>8. Writing(h) => Writing(h)'
    BY <2>5, <2>6 DEF Writing
  <2>9. QED BY <2>1, <2>2, <2>3, <2>4, <2>7, <2>8, StillFollows
<1>6. ASSUME g # delGrp PROVE GroupFollows(g)'
  <2> SUFFICES ASSUME NEW n, n = Len(pages[g]) + 1 PROVE GroupFollows(g)'
    OBVIOUS
  <2>1. g \in active'
    BY <1>2 DEF HasRoom
  <2>2. MapUpto(g, Len(pages[g]))
    BY <1>2, <1>6, LiveUpto
  <2>3. MapUpto(g, n)'
    <3> SUFFICES ASSUME NEW l \in Lpns, Grp(l) = g
                 PROVE  map'[l] = Apply(pmt', pages'[g], stored'[g] + 1, n)[l]
      BY DEF MapUpto
    <3>1. map[l] = Apply(pmt, pages[g], stored[g] + 1, Len(pages[g]))[l]
      BY <2>2 DEF MapUpto
    <3>2. Apply(pmt, Append(pages[g], p), stored[g] + 1, n)[l] =
              IF p.lpn = l THEN p.data ELSE Apply(pmt, pages[g], stored[g] + 1, Len(pages[g]))[l]
      <4> SUFFICES ASSUME NEW ps, ps = pages[g], NEW first, first = stored[g] + 1
                   PROVE  Apply(pmt, Append(ps, p), first, n)[l] =
                              IF p.lpn = l THEN p.data ELSE Apply(pmt, ps, first, Len(ps))[l]
        OBVIOUS
      <4>1. ps \in Seq(LogPage) /\ first \in Nat \ {0} /\ first <= Len(ps) + 1
            /\ n = Len(ps) + 1 /\ p \in LogPage
        BY <1>1
      <4>2. QED BY <4>1, ApplyOneMore
    <3>3. QED BY <1>1, <3>1, <3>2
  <2>4. stored'[g] < Len(pages'[g]) /\ LastPg(g)' = p /\ (Loose(g)' <=> ~p.confirm)
    BY <1>1, <1>4 DEF Loose, LastPg
  <2>5. CASE p.confirm
    <3>1. n \in Marks(g)' /\ Marks(g)' \in SUBSET (0 .. n) /\ n \in Nat
      BY <1>1, <1>4, <2>5 DEF Marks
    <3>2. Max(Marks(g)') \in Marks(g)' /\ n <= Max(Marks(g)')
      BY <3>1, MaxIn
    <3>3. LastMark(g)' = n
      BY <3>1, <3>2 DEF LastMark
    <3>4. Settled(g)'
      <4>1. MapUpto(g, LastMark(g))'
        BY <2>3, <3>3 DEF MapUpto
      <4>2. QED BY <2>4, <2>5, <4>1 DEF Settled, Joins
    <3>5. QED BY <2>1, <3>4 DEF GroupFollows
  <2>6. CASE ~p.confirm
    <3>1. Writing(g)'
      BY <1>2, <2>4, <2>6 DEF Writing, Joins
    <3>2. MapUpto(g, Len(pages[g]))'
      BY <1>4, <2>3 DEF MapUpto
    <3>3. QED BY <2>1, <3>1, <3>2 DEF GroupFollows, Pending
  <2>7. QED BY <2>5, <2>6
<1>7. Follows'
  BY <1>2, <1>5, <1>6 DEF Follows
<1>8. Borders'
  <2> SUFFICES ASSUME NEW h \in Groups, NEW i \in 1 .. Len(pages'[h])
               PROVE  pages'[h][i].lpn # None /\ ~pages'[h][i].confirm =>
                          Grp(pages'[h][i].lpn + 1) = h
    BY DEF Borders
  <2>1. CASE h = g /\ i = Len(pages[g]) + 1
    BY <1>4, <2>1
  <2>2. CASE h # g
    BY <1>1, <1>3, <2>2 DEF Borders
  <2>3. CASE h = g /\ i # Len(pages[g]) + 1
    <3>1. i \in 1 .. Len(pages[g])
      BY <1>4, <2>3
    <3>2. QED BY <1>3, <1>4, <2>3, <3>1 DEF Borders
  <2>4. QED BY <2>1, <2>2, <2>3
<1>9. BufAbove'
  <2>1. buf'.dirty => buf.lpn \in Lpns /\ map'[buf.lpn] = map[buf.lpn]
    BY <1>1, <1>2, <1>3, BufTyped
  <2>2. QED BY <1>2, <2>1 DEF Durable, BufAbove
<1>10. QED BY <1>7, <1>8, <1>9 DEF Durable

\* The pages of a call are of one group.
LEMMA NextPageGroup ==
  ASSUME op \in Ops, InRange(op), op.lpn # EndLpn
  PROVE  Grp(op.lpn + 1) = Grp(op.lpn)
<1> DEFINE a == op.from \div SecPerVPg
           b == op.to \div SecPerVPg
           l == op.lpn
<1>1. a \in Nat /\ b \in Nat /\ l \in a .. b /\ l # b /\ Grp(a) = Grp(b)
  <2>1. op.from \in Nat /\ op.to \in Nat
    BY DEF Ops
  <2>2. QED BY <2>1, DivIs, SizesAssumption DEF InRange, EndLpn
<1> HIDE DEF a, b, l
<1>2. l \in Nat /\ a <= l /\ l <= l + 1 /\ l + 1 <= b /\ l + 1 \in Nat
  BY <1>1
<1>3. Grp(a) <= Grp(l) /\ Grp(l) <= Grp(l + 1) /\ Grp(l + 1) <= Grp(b)
  BY <1>1, <1>2, DivMonotone, SizesAssumption DEF Grp
<1>4. Grp(l) \in Nat /\ Grp(l + 1) \in Nat /\ Grp(a) \in Nat
  BY <1>1, <1>2, DivIs, SizesAssumption DEF Grp
<1>5. Grp(l + 1) = Grp(l)
  BY <1>1, <1>3, <1>4
<1>6. QED BY <1>5 DEF l

\* The power goes off: what is open follows nothing.
LEMMA OffDurable ==
  ASSUME Durable, Off, Borders' \/ pages' = pages
  PROVE  Durable'
<1>1. ~open'
  BY DEF Off
<1>2. Borders'
  BY DEF Durable, Borders
<1>3. QED BY <1>1, <1>2 DEF Durable, Follows, BufAbove

LEMMA TornDurable ==
  ASSUME Inv, Durable, NEW g \in Groups, TornLogPage(g)
  PROVE  Durable'
<1>1. Off /\ pages' = [pages EXCEPT ![g] = Append(@, Torn)]
  BY DEF TornLogPage
<1>2. pages \in [Groups -> Seq(LogPage)]
  BY DEF Inv, Types, LogTypes
<1>3. Borders'
  <2> SUFFICES ASSUME NEW h \in Groups, NEW i \in 1 .. Len(pages'[h]), pages'[h][i].lpn # None
               PROVE  ~pages'[h][i].confirm => Grp(pages'[h][i].lpn + 1) = h
    BY DEF Borders
  <2>1. CASE h # g
    BY <1>1, <1>2, <2>1 DEF Durable, Borders
  <2>2. CASE h = g
    <3>1. pages'[h] = Append(pages[h], Torn) /\ pages[h] \in Seq(LogPage)
      BY <1>1, <1>2, <2>2
    <3>2. i = Len(pages[h]) + 1 => pages'[h][i] = Torn
      BY <3>1
    <3>3. i \in 1 .. Len(pages[h]) /\ pages'[h][i] = pages[h][i]
      BY <3>1, <3>2 DEF Torn
    <3>4. QED BY <3>3 DEF Durable, Borders
  <2>3. QED BY <2>1, <2>2
<1>4. QED BY <1>1, <1>3, OffDurable

\* The flush of the buffered page.
LEMMA FlushPageDurable ==
  ASSUME Inv, Kept, Durable, FlushPage
  PROVE  Durable'
<1> SUFFICES ASSUME NEW g, g = Grp(buf.lpn),
                    NEW p, p = [lpn |-> buf.lpn, data |-> Read(buf.lpn), confirm |-> TRUE]
             PROVE  Durable'
  OBVIOUS
<1>1. /\ open /\ g \in Groups /\ p.confirm
      /\ TornLogPage(g) \/ (Programs(g, p) /\ op' = op /\ ~flushing')
  BY FlushPagePrograms
<1>2. QED BY <1>1, TornDurable, ProgramDurable

\* A page of the running write.
LEMMA WriteLogPageDurable ==
  ASSUME Inv, Kept, Durable, WriteLogPage
  PROVE  Durable'
<1> SUFFICES ASSUME NEW l, l = op.lpn, NEW g, g = Grp(l),
                    NEW p, p = [lpn |-> l, data |-> NewData(l),
                                confirm |-> l = EndLpn \/ BufSrc(l) # {}]
             PROVE  Durable'
  OBVIOUS
<1>1. /\ op.kind = "write" /\ op.step = "page" /\ op \in Ops /\ InRange(op) /\ open
      /\ g \in Groups /\ p.lpn = l /\ (p.confirm <=> l = EndLpn \/ BufSrc(l) # {})
      /\ TornLogPage(g) \/ (Programs(g, p) /\ Advance(l))
  BY WriteLogPagePrograms
<1>2. CASE TornLogPage(g)
  BY <1>1, <1>2, TornDurable
<1>3. CASE Programs(g, p) /\ Advance(l)
  <2>1. ASSUME ~p.confirm
        PROVE  /\ Grp(p.lpn + 1) = g
               /\ op'.kind = "write" /\ op'.step = "page" /\ op'.lpn = p.lpn + 1
    <3>1. l # EndLpn
      BY <1>1, <2>1
    <3>2. op' = [op EXCEPT !.lpn = l + 1, !.step = "page"]
      BY <1>3, <3>1 DEF Advance
    <3>3. Grp(p.lpn + 1) = g
      BY <1>1, <3>1, NextPageGroup
    <3>4. QED BY <1>1, <3>2, <3>3 DEF Ops
  <2>2. QED BY <1>1, <1>3, <2>1, ProgramDurable
<1>4. QED BY <1>1, <1>2, <1>3

\* The last page of a call goes to the buffer block.
LEMMA WriteBufferPageDurable ==
  ASSUME Inv, Kept, Durable, WriteBufferPage
  PROVE  Durable'
<1> SUFFICES ASSUME NEW l, l = op.lpn, NEW bits, bits = BufferBits(l),
                    NEW data, data = [s \in Secs |-> IF s \in bits THEN NewData(l)[s] ELSE 0],
                    NEW p, p = [lpn |-> l, data |-> data, valid |-> bits],
                    NEW new, new = Append2BBlk(p), NEW n, n = NextBBlk
             PROVE  Durable'
  OBVIOUS
<1>1. op.kind = "write" /\ op.step = "buffer" /\ ~flushing
  BY DEF WriteBufferPage, At
<1>2. /\ open /\ l \in Lpns /\ l # None
      /\ bits \subseteq Secs /\ p \in BufPage /\ Prefix(p.valid)
      /\ buf.dirty => buf.lpn = l
  BY <1>1, BufferPageIs
<1>3. p.lpn = l /\ p.data = data /\ p.valid = bits
  OBVIOUS
<1>4. CASE Off /\ UNCHANGED <<pages, active, stored, pmt, storedBBlk, writes, secured, dropped, reverted>>
  BY <1>4, OffDurable
<1>5. CASE /\ bblk' = new
           /\ bBlkVbn' = n
           /\ buf' = [lpn |-> l, dirty |-> TRUE, valid |-> bits, data |-> data,
                      cp |-> IF BBlkFull THEN 1 ELSE buf.cp + 1]
           /\ dropped' = (dropped /\ BBlkFull)
           /\ GoTo("bmt")
           /\ UNCHANGED <<pages, active, stored, pmt, storedBBlk, open, map, cp,
                          unscanned, delGrp, flushing, writes, losses, secured, reverted>>
  <2>1. op'.step = "bmt" /\ op'.kind = "write" /\ op'.lpn = l
    BY <1>1, <1>5, StepIs DEF Inv, Types, CallTypes, Steps
  <2>2. Longer(new, n, p)
    BY <1>1, <1>2, Append2BBlkIs
  <2>3. buf'.lpn = l /\ buf'.dirty /\ buf'.valid = bits /\ buf'.data = data
    BY <1>5
  <2>4. Cur'.lpn = l
    <3>1. Cur' = ScanBufferBlk(new[n])
      BY <1>5 DEF Cur
    <3>2. /\ BBlkFull => new[n] = <<p>>
          /\ ~BBlkFull => /\ new[n] = Append(bblk[storedBBlk], p)
                          /\ bblk[storedBBlk] \in Seq(BufPage)
                          /\ \A i \in 1 .. Len(bblk[storedBBlk]) : bblk[storedBBlk][i].lpn # None
      BY <2>2 DEF Longer
    <3>3. ScanBufferBlk(new[n]) = [lpn |-> p.lpn, dirty |-> TRUE, valid |-> p.valid,
                                   data |-> p.data, cp |-> BufPages]
      <4>1. CASE BBlkFull
        BY <1>2, <1>3, <3>2, <4>1, ScanBufferOne
      <4>2. CASE ~BBlkFull
        <5>1. ScanBufferBlk(Append(bblk[storedBBlk], p)) =
                [lpn |-> p.lpn, dirty |-> TRUE, valid |-> p.valid, data |-> p.data, cp |-> BufPages]
          BY <1>2, <1>3, <3>2, <4>2, ScanBufferLast
        <5>2. QED BY <3>2, <4>2, <5>1
      <4>3. QED BY <4>1, <4>2
    <3>4. QED BY <1>3, <3>1, <3>3
  <2>5. Old'.lpn \in {Old.lpn, l}
    <3>1. BBlkFull => Old' = Old
      BY <1>5, <2>2 DEF Old, Longer
    <3>2. ~BBlkFull => Old' = Cur'
      BY <1>5, <2>2 DEF Old, Cur, Longer
    <3>3. QED BY <2>4, <3>1, <3>2
  <2>6. ASSUME NEW g \in Groups \ unscanned, g # delGrp PROVE GroupFollows(g)'
    <3>1. GroupFollows(g)
      BY <1>2, <2>6 DEF Durable, Follows
    <3>2. GroupStill(g)
      BY <1>5 DEF GroupStill
    <3>3. Settled(g) => ~Joins(g, Old'.lpn) /\ ~Joins(g, Cur'.lpn)
      <4>1. Joins(g, l) => Filling(g)
        BY <1>1, JoinsGroup DEF Inv, Durable, Filling
      <4>2. QED BY <2>4, <2>5, <4>1 DEF Settled, Joins
    <3>4. Filling(g)' => Filling(g)
      BY <1>1, <2>1 DEF Filling
    <3>5. \A k : Joins(g, k)' <=> Joins(g, k)
      BY <3>2 DEF Joins, Loose, LastPg, GroupStill
    <3>6. Hangs(g) => Hangs(g)'
      BY <1>2, <2>3, <3>5 DEF Hangs
    <3>7. Writing(g) => Writing(g)'
      BY <2>1, <3>5 DEF Writing
    <3>8. QED BY <3>1, <3>2, <3>3, <3>4, <3>6, <3>7, StillFollows
  <2>7. Follows'
    BY <1>5, <2>6 DEF Follows
  <2>8. Borders'
    BY <1>5 DEF Durable, Borders
  <2>9. BufAbove'
    <3> SUFFICES ASSUME NEW s \in bits PROVE map[l][s] <= data[s]
      BY <1>5, <2>3 DEF BufAbove
    <3>1. s \in Secs /\ data[s] = IF s \in Bits(l) THEN writes
                                  ELSE IF Buffered(l, s) THEN buf.data[s] ELSE map[l][s]
      BY <1>2 DEF NewData, Read, Merged, Buffered
    <3>2. map[l][s] \in Nat /\ map[l][s] <= writes
      BY <1>2, <3>1, Typed DEF Inv, Kept, Past, UpTo
    <3>3. Buffered(l, s) => map[l][s] <= buf.data[s]
      BY <1>1, <1>2 DEF Durable, BufAbove, Buffered
    <3>4. QED BY <3>1, <3>2, <3>3
  <2>10. QED BY <2>7, <2>8, <2>9 DEF Durable
<1>6. QED BY <1>4, <1>5 DEF WriteBufferPage

\* The context on flash names its block: the page is buffered.
LEMMA WriteStoreBMTCtxDurable ==
  ASSUME Inv, Kept, Durable, WriteStoreBMTCtx
  PROVE  Durable'
<1>1. /\ op.kind = "write" /\ op.step = "bmt" /\ storedBBlk' = bBlkVbn /\ Advance(op.lpn)
      /\ UNCHANGED <<pages, active, stored, pmt, bblk, open, map, cp, unscanned,
                     buf, bBlkVbn, delGrp, flushing, writes, losses, reverted>>
  BY DEF WriteStoreBMTCtx, At
<1>2. open /\ op \in Ops /\ InRange(op) /\ buf.lpn = op.lpn
  BY <1>1, Opened DEF Inv, Types, CallTypes, Ranged, Phases
<1>3. buf.dirty
  BY <1>1, <1>2 DEF Kept, Data0, BufTops
<1>4. op'.kind = "write" /\ op'.step \in {"page", "reserve"}
  BY <1>1, <1>2, AdvanceAhead
<1>5. Cur' = Cur /\ Old' = Cur
  BY <1>1 DEF Old, Cur
<1>6. ASSUME NEW g \in Groups \ unscanned, g # delGrp PROVE GroupFollows(g)'
  <2>1. GroupFollows(g)
    BY <1>2, <1>6 DEF Durable, Follows
  <2>2. GroupStill(g)
    BY <1>1 DEF GroupStill
  <2>3. Settled(g) => ~Joins(g, Old'.lpn) /\ ~Joins(g, Cur'.lpn)
    BY <1>5 DEF Settled
  <2>4. ~Filling(g)'
    BY <1>4 DEF Filling
  <2>5. \A k : Joins(g, k)' <=> Joins(g, k)
    BY <2>2 DEF Joins, Loose, LastPg, GroupStill
  <2>6. Hangs(g) \/ Writing(g) => Hangs(g)'
    BY <1>1, <1>2, <1>3, <2>5 DEF Hangs, Writing
  <2>7. QED BY <2>1, <2>2, <2>3, <2>4, <2>6, StillFollows
<1>7. Follows'
  BY <1>1, <1>6 DEF Follows
<1>8. Borders'
  BY <1>1 DEF Durable, Borders
<1>9. BufAbove'
  BY <1>1, <1>4 DEF Durable, BufAbove
<1>10. QED BY <1>7, <1>8, <1>9 DEF Durable

\* After its flush the page is in the log: nothing waits for it.
LEMMA DeleteInvalidateDurable ==
  ASSUME Inv, Kept, Durable, DeleteInvalidate
  PROVE  Durable'
<1>1. /\ op.kind = "delete" /\ op.step = "invalidate" /\ ~flushing /\ open
      /\ buf' = NoBuf(buf.cp) /\ GoTo("map")
      /\ UNCHANGED <<flash, open, map, cp, unscanned, bBlkVbn, delGrp>>
  BY Opened DEF DeleteInvalidate, At
<1>2. UNCHANGED <<pages, active, stored, pmt, bblk, storedBBlk>>
  BY <1>1 DEF flash
<1>3. ~buf.dirty /\ ~buf'.dirty
  BY <1>1 DEF Kept, Place, Flushed, NoBuf
<1>4. Old' = Old /\ Cur' = Cur
  BY <1>1, <1>2, BlocksStill
<1>5. op'.kind = "delete"
  BY <1>1, StepIs DEF Inv, Types, CallTypes, Steps
<1>6. ASSUME NEW g \in Groups \ unscanned, g # delGrp PROVE GroupFollows(g)'
  <2>1. GroupFollows(g)
    BY <1>1, <1>6 DEF Durable, Follows
  <2>2. GroupStill(g)
    BY <1>1, <1>2 DEF GroupStill
  <2>3. Settled(g) => ~Joins(g, Old'.lpn) /\ ~Joins(g, Cur'.lpn)
    BY <1>4 DEF Settled
  <2>4. ~Filling(g)' /\ ~Hangs(g) /\ ~Writing(g)
    BY <1>1, <1>3, <1>5 DEF Filling, Hangs, Writing
  <2>5. QED BY <2>1, <2>2, <2>3, <2>4, StillFollows
<1>7. Follows'
  BY <1>1, <1>6 DEF Follows
<1>8. QED BY <1>2, <1>3, <1>7 DEF Durable, Borders, BufAbove

\* The map of a deleted page is to be stored, if it has changed.
LEMMA DeletePageDurable ==
  ASSUME Inv, Inv', Kept, Durable, DeletePage
  PROVE  Durable'
<1> SUFFICES ASSUME NEW l, l = op.lpn, NEW g, g = Grp(l) PROVE Durable'
  OBVIOUS
<1>1. op.kind = "delete" /\ op.step = "map" /\ open
  BY Opened DEF DeletePage, At
<1>2. Types /\ l \in Lpns /\ g \in Groups /\ l \in Deletable
  BY <1>1, GrpType DEF Inv, Ranged, Kept, Calls, DeletesOne
<1>3. CASE StoreDeletedInfo
  BY <1>1, <1>3, StoreDeletedStores, StoreDurable
<1>4. CASE /\ delGrp \in {None, g}
           /\ map' = [map EXCEPT ![l] = Blank]
           /\ delGrp' = IF map[l] # Blank THEN g ELSE delGrp
           /\ secured' = [secured EXCEPT ![l] = Blank]
           /\ op' = Idle
           /\ UNCHANGED <<flash, open, cp, unscanned, buf, bBlkVbn,
                          flushing, writes, losses, dropped, reverted>>
  <2>1. op'.kind = "none" /\ UNCHANGED <<pages, active, stored, pmt, bblk, storedBBlk>>
    BY <1>4, IdleType DEF flash
  <2>2. Old' = Old /\ Cur' = Cur
    BY <1>4, <2>1, BlocksStill
  <2>3. \A k \in Lpns : k # l => map'[k] = map[k]
    BY <1>2, <1>4 DEF Types, MapTypes
  <2>4. ASSUME NEW h \in Groups \ unscanned, h # delGrp' PROVE GroupFollows(h)'
    <3>1. h # delGrp
      <4>1. h # None
        BY <2>4, Sizes
      <4>2. CASE delGrp = None
        BY <4>1, <4>2
      <4>3. CASE delGrp = g
        <5>1. delGrp' = g
          BY <1>4, <4>3
        <5>2. QED BY <2>4, <4>3, <5>1
      <4>4. QED BY <1>4, <4>2, <4>3
    <3>2. GroupFollows(h)
      BY <1>1, <2>4, <3>1 DEF Durable, Follows
    <3>3. \A k \in Lpns : Grp(k) = h => map'[k] = map[k]
      <4>1. CASE h = g
        <5>1. map[l] = Blank
          BY <1>4, <2>4, <4>1
        <5>2. map'[l] = map[l]
          BY <1>2, <1>4, <5>1 DEF Types, MapTypes
        <5>3. QED BY <2>3, <5>2
      <4>2. CASE h # g
        BY <2>3, <4>2
      <4>3. QED BY <4>1, <4>2
    <3>4. GroupStill(h)
      BY <1>4, <2>1, <3>3 DEF GroupStill
    <3>5. Settled(h) => ~Joins(h, Old'.lpn) /\ ~Joins(h, Cur'.lpn)
      BY <2>2 DEF Settled
    <3>6. ~Filling(h)' /\ ~Writing(h)
      BY <1>1, <2>1 DEF Filling, Writing
    <3>7. Hangs(h) => Hangs(h)'
      BY <1>4, <2>1 DEF Hangs, Joins, Loose, LastPg
    <3>8. QED BY <3>2, <3>4, <3>5, <3>6, <3>7, StillFollows
  <2>5. Follows'
    BY <1>4, <2>4 DEF Follows
  <2>6. Borders'
    BY <2>1 DEF Durable, Borders
  <2>7. BufAbove'
    <3>1. buf.dirty => buf.lpn \in Lpns /\ buf.lpn # None /\ buf.lpn # l
      BY <1>2, BufTyped, Sizes DEF Kept, BufForm, Good
    <3>2. QED BY <1>1, <1>4, <2>3, <3>1 DEF Durable, BufAbove
  <2>8. QED BY <2>5, <2>6, <2>7 DEF Durable
<1>5. QED BY <1>3, <1>4 DEF DeletePage

\* The buffer block is erased when nothing waits for its page.
LEMMA EraseDurable ==
  ASSUME Inv, Kept, Durable, CloseErase \/ OpenErase
  PROVE  Durable'
<1>1. /\ op.kind \in {"close", "open"} /\ op.step = "erase" /\ ~flushing /\ open
      /\ EraseBBlk /\ GoTo("store")
      /\ buf' = NoBuf(0) \/ buf' = [buf EXCEPT !.cp = 0]
      /\ UNCHANGED <<pages, active, stored, pmt, storedBBlk, open, map, cp,
                     unscanned, delGrp, flushing, writes, losses, secured, reverted>>
  BY Opened DEF CloseErase, OpenErase, At
<1>2. /\ ~buf.dirty /\ (Old'.lpn = None \/ Old' = Old) /\ bblk'[bBlkVbn'] = <<>>
  BY <1>1, EraseBlock
<1>3. Cur'.lpn = None
  BY <1>2, ScanBufferEmpty DEF Cur, NoBuf
<1>4. ~buf'.dirty
  BY <1>1, <1>2 DEF NoBuf, Inv, Types, CallTypes, Bufs
<1>5. op'.kind \in {"close", "open"}
  BY <1>1, StepIs DEF Inv, Types, CallTypes, Steps
<1>6. ASSUME NEW g \in Groups \ unscanned, g # delGrp PROVE GroupFollows(g)'
  <2>1. GroupFollows(g)
    BY <1>1, <1>6 DEF Durable, Follows
  <2>2. GroupStill(g)
    BY <1>1 DEF GroupStill
  <2>3. ~Joins(g, None)
    BY JoinsGroup DEF Inv, Durable
  <2>4. Settled(g) => ~Joins(g, Old'.lpn) /\ ~Joins(g, Cur'.lpn)
    BY <1>2, <1>3, <2>3 DEF Settled
  <2>5. ~Filling(g)' /\ ~Hangs(g) /\ ~Writing(g)
    BY <1>1, <1>2, <1>5 DEF Filling, Hangs, Writing
  <2>6. QED BY <2>1, <2>2, <2>4, <2>5, StillFollows
<1>7. Follows'
  BY <1>1, <1>6 DEF Follows
<1>8. QED BY <1>1, <1>4, <1>7 DEF Durable, Borders, BufAbove

\* The store at the end of an open.
LEMMA OpenStoreDurable ==
  ASSUME Inv, Inv', Kept, Durable, OpenStore
  PROVE  Durable'
<1> SUFFICES ASSUME NEW g, g = Grp(buf.lpn) PROVE Durable'
  OBVIOUS
<1>1. /\ op.kind = "open" /\ op.step = "store" /\ open
      /\ stored' = [stored EXCEPT ![g] = cp[g]] /\ pmt' = Overlay(pmt, g, map)
      /\ storedBBlk' = bBlkVbn /\ buf' = NoBuf(0) /\ op' = Idle
      /\ UNCHANGED <<pages, active, bblk, open, map, cp, unscanned, bBlkVbn,
                     delGrp, flushing, writes, losses, reverted>>
  BY Opened DEF OpenStore, At, StorePMTCtx
<1>2. Types /\ bblk[bBlkVbn] = <<>> /\ ~buf.dirty /\ g \in Groups \ unscanned
  <2>1. Types /\ bblk[bBlkVbn] = <<>>
    BY <1>1 DEF Inv, Phases
  <2>2. ~buf.dirty /\ buf.lpn # None /\ Grp(buf.lpn) \notin unscanned
    BY <1>1 DEF Kept, Place, Storing, Flushed, Scanned, Opening
  <2>3. QED BY <2>1, <2>2, BufTyped, GrpType
<1>3. Old'.lpn = None /\ Cur'.lpn = None
  <2>1. bblk'[storedBBlk'] = <<>> /\ bblk'[bBlkVbn'] = <<>>
    BY <1>1, <1>2
  <2>2. QED BY <2>1, ScanBufferEmpty DEF Old, Cur, NoBuf
<1>4. ~buf'.dirty /\ op'.kind = "none"
  BY <1>1 DEF NoBuf, Idle
<1>5. /\ pages \in [Groups -> Seq(LogPage)] /\ cp \in [Groups -> 0 .. PagesPerSBlk]
      /\ stored \in [Groups -> 0 .. PagesPerSBlk] /\ Len(pages[g]) <= PagesPerSBlk
  BY <1>2 DEF Types, LogTypes
<1>6. stored'[g] = cp[g] /\ (\A h \in Groups \ {g} : stored'[h] = stored[h])
  BY <1>1, <1>2, <1>5
<1>7. Len(pages'[g]) <= stored'[g]
  <2>1. cp[g] < PagesPerSBlk => Len(pages[g]) = cp[g]
    BY <1>1, <1>2 DEF Inv, Ends
  <2>2. cp[g] \in 0 .. PagesPerSBlk /\ Len(pages[g]) \in Nat
    BY <1>2, <1>5
  <2>3. QED BY <1>1, <1>5, <1>6, <2>1, <2>2, SizesAssumption
<1>8. \A l \in Lpns : pmt'[l] = IF Grp(l) = g THEN map[l] ELSE pmt[l]
  BY <1>1 DEF Overlay
<1>9. ASSUME NEW h \in Groups \ unscanned, h # delGrp PROVE GroupFollows(h)'
  <2>1. CASE h = g
    <3>1. \A l \in Lpns : Grp(l) = h => map'[l] = pmt'[l]
      BY <1>1, <1>8, <2>1
    <3>2. QED BY <1>7, <2>1, <3>1, StoredFollows DEF Inv
  <2>2. CASE h # g
    <3>1. GroupFollows(h)
      BY <1>1, <1>9 DEF Durable, Follows
    <3>2. GroupStill(h)
      BY <1>1, <1>6, <1>8, <2>2 DEF GroupStill
    <3>3. ~Joins(h, None)
      BY JoinsGroup DEF Inv, Durable
    <3>4. ~Joins(h, Old'.lpn) /\ ~Joins(h, Cur'.lpn)
      BY <1>3, <3>3
    <3>5. ~Filling(h)' /\ ~Hangs(h) /\ ~Writing(h)
      BY <1>1, <1>2, <1>4 DEF Filling, Hangs, Writing
    <3>6. QED BY <3>1, <3>2, <3>4, <3>5, StillFollows
  <2>3. QED BY <2>1, <2>2
<1>10. Follows'
  BY <1>1, <1>9 DEF Follows
<1>11. QED BY <1>1, <1>4, <1>10 DEF Durable, Borders, BufAbove

\* A zone that is opened has the maps on flash.
LEMMA BeginOpenDurable ==
  ASSUME Durable, BeginOpen
  PROVE  Durable'
<1>1. /\ map' = pmt /\ unscanned' = active /\ op'.kind = "open"
      /\ UNCHANGED <<pages, active, stored, pmt>>
  BY DEF BeginOpen, flash, Idle
<1>2. Follows'
  BY <1>1 DEF Follows, GroupFollows, MapStored
<1>3. QED BY <1>1, <1>2 DEF Durable, Borders, BufAbove

\* The power goes off between two steps, or a close is done.
LEMMA PowerLossDurable ==
  ASSUME Durable, PowerLoss \/ CloseDone
  PROVE  Durable'
BY OffDurable DEF PowerLoss, CloseDone, flash

\* A scan takes all of a log that waits for the buffered page, and of another
\* one what is in front of its last mark.
LEMMA Recovers ==
  ASSUME Types, LogsClean, Borders, NEW g \in Groups, NEW b,
         NEW first, first = stored[g] + 1
  PROVE  /\ Joins(g, b.lpn) => /\ RecoverTo(pages[g], first, b) = Len(pages[g])
                               /\ ~FoundInLog(pages[g], first, b)
         /\ ~Joins(g, b.lpn) => RecoverTo(pages[g], first, b) = LastMark(g)
<1> SUFFICES ASSUME NEW ps, ps = pages[g]
             PROVE  /\ Joins(g, b.lpn) => /\ RecoverTo(ps, first, b) = Len(ps)
                                          /\ ~FoundInLog(ps, first, b)
                    /\ ~Joins(g, b.lpn) => RecoverTo(ps, first, b) = LastMark(g)
  OBVIOUS
<1> DEFINE ok == {i \in first .. Len(ps) : ps[i].lpn # None}
           good == {i \in first .. LastValid(ps, first) : ps[i].lpn # None /\ Confirmed(ps, i, b)}
<1>1. /\ ps \in Seq(LogPage) /\ stored[g] \in Nat /\ Len(ps) \in Nat
      /\ first \in Nat /\ first = stored[g] + 1
      /\ Marks(g) \subseteq first .. Len(ps) /\ Marks(g) \subseteq 0 .. Len(ps)
  <2>1. /\ ps \in Seq(LogPage) /\ stored[g] \in Nat /\ Len(ps) \in Nat
        /\ Marks(g) \subseteq first .. Len(ps)
    BY LogEnd
  <2>2. QED BY <2>1
<1>2. \A i \in first .. Len(ps) : i \in 1 .. Len(ps) /\ (ps[i].lpn # None => ps[i].lpn \in Lpns)
  <2>1. \A i \in 1 .. Len(ps) : ps[i] \in LogPage
    BY <1>1
  <2>2. \A p \in LogPage : p.lpn \in Lpns \cup {None}
    BY DEF LogPage
  <2>3. \A i \in first .. Len(ps) : i \in 1 .. Len(ps)
    BY <1>1
  <2>4. QED BY <2>1, <2>2, <2>3
<1>3. Marks(g) = {i \in first .. Len(ps) : ps[i].confirm}
  BY DEF Marks
<1>4. \A i \in Marks(g) : i \in ok
  BY <1>2, <1>3 DEF LogsClean
<1>5. ok \in SUBSET (0 .. Len(ps))
  BY <1>1
<1>6. ok # {} => /\ LastValid(ps, first) = Max(ok) /\ Max(ok) \in ok
                 /\ \A i \in ok : i <= Max(ok)
  BY <1>1, <1>5, MaxIn DEF LastValid
<1>7. ok = {} => LastValid(ps, first) = 0
  BY DEF LastValid
<1>8. RecoverTo(ps, first, b) =
          IF LastValid(ps, first) = 0 \/ good = {} THEN first - 1 ELSE Max(good)
  BY DEF RecoverTo
<1>9. Joins(g, b.lpn) <=> /\ stored[g] < Len(ps) /\ ~ps[Len(ps)].confirm
                          /\ ps[Len(ps)].lpn # None /\ b.lpn = ps[Len(ps)].lpn + 1
  BY DEF Joins, Loose, LastPg
<1>10. CASE Joins(g, b.lpn)
  <2>1. Len(ps) \in ok /\ Len(ps) \in first .. Len(ps)
    BY <1>1, <1>9, <1>10
  <2>2. LastValid(ps, first) = Len(ps) /\ LastValid(ps, first) # 0
    <3>1. Max(ok) \in ok /\ Len(ps) <= Max(ok) /\ LastValid(ps, first) = Max(ok)
      BY <1>6, <2>1
    <3>2. Max(ok) \in first .. Len(ps)
      BY <3>1
    <3>3. QED BY <1>1, <3>1, <3>2
  <2>3. b.lpn # None
    BY <1>10, JoinsGroup
  <2>4. Len(ps) \in good
    BY <1>9, <1>10, <2>1, <2>2, <2>3 DEF Confirmed
  <2>5. Max(good) = Len(ps)
    <3>1. good \in SUBSET (0 .. Len(ps))
      BY <1>1, <2>2
    <3>2. Max(good) \in good /\ Len(ps) <= Max(good)
      BY <1>1, <2>4, <3>1, MaxIn
    <3>3. Max(good) \in 0 .. Len(ps)
      BY <3>1, <3>2
    <3>4. QED BY <1>1, <3>2, <3>3
  <2>6. RecoverTo(ps, first, b) = Len(ps)
    BY <1>8, <2>2, <2>4, <2>5
  <2>7. ~FoundInLog(ps, first, b)
    <3>1. ps[Len(ps)].lpn \in Lpns
      BY <1>2, <1>9, <1>10, <2>1
    <3>2. ps[Len(ps)].lpn # b.lpn
      BY <1>9, <1>10, <3>1, Sizes
    <3>3. QED BY <2>2, <3>2 DEF FoundInLog, LastIsBuffered
  <2>8. QED BY <1>10, <2>6, <2>7
<1>11. CASE ~Joins(g, b.lpn)
  <2>1. CASE ok = {}
    <3>1. Marks(g) = {}
      BY <1>4, <2>1
    <3>2. LastMark(g) = stored[g]
      BY <3>1 DEF LastMark
    <3>3. RecoverTo(ps, first, b) = first - 1
      BY <1>7, <1>8, <2>1
    <3>4. QED BY <1>1, <1>11, <3>2, <3>3
  <2>2. CASE ok # {}
    <3> SUFFICES ASSUME NEW last, last = LastValid(ps, first)
                 PROVE  RecoverTo(ps, first, b) = LastMark(g)
      BY <1>11
    <3>1. last \in ok /\ last \in first .. Len(ps) /\ \A i \in ok : i <= last
      BY <1>6, <2>2
    <3>2. last # 0
      BY <1>1, <3>1
    <3>3. good \subseteq Marks(g)
      <4> SUFFICES ASSUME NEW i \in good PROVE i \in Marks(g)
        OBVIOUS
      <4>1. i \in first .. Len(ps) /\ ps[i].lpn # None /\ Confirmed(ps, i, b)
        BY <1>1, <3>1
      <4>2. CASE ps[i].confirm
        BY <1>3, <4>1, <4>2
      <4>3. CASE i = Len(ps) /\ b.lpn # None /\ ps[i].lpn + 1 = b.lpn
        <5>1. stored[g] < Len(ps)
          BY <1>1, <4>1, <4>3
        <5>2. ps[i].confirm
          BY <1>9, <1>11, <4>1, <4>3, <5>1
        <5>3. QED BY <1>3, <4>1, <5>2
      <4>4. QED BY <4>1, <4>2, <4>3 DEF Confirmed
    <3>4. Marks(g) \subseteq good
      <4> SUFFICES ASSUME NEW i \in Marks(g) PROVE i \in good
        OBVIOUS
      <4>1. i \in ok /\ i \in first .. Len(ps) /\ ps[i].confirm
        BY <1>3, <1>4
      <4>2. i \in first .. last
        BY <1>1, <3>1, <4>1
      <4>3. QED BY <4>1, <4>2 DEF Confirmed
    <3>5. good = Marks(g)
      BY <3>3, <3>4
    <3> HIDE DEF good
    <3>6. RecoverTo(ps, first, b) = IF Marks(g) = {} THEN first - 1 ELSE Max(Marks(g))
      BY <1>8, <3>2, <3>5
    <3>7. first - 1 = stored[g]
      BY <1>1
    <3>8. QED BY <3>6, <3>7 DEF LastMark
  <2>3. QED BY <2>1, <2>2
<1>12. QED BY <1>10, <1>11

\* After a scan the map of the group has what the scan has taken over.
LEMMA ScanGroup ==
  ASSUME Inv, Kept, Durable, open, NEW g \in Groups, Scan(g), cp[g] < PagesPerSBlk,
         NEW n, n = RecoverTo(pages[g], stored[g] + 1, buf)
  PROVE  MapUpto(g, n)'
<1>1. /\ g \in unscanned /\ map' = Apply(map, pages[g], stored[g] + 1, n)
      /\ pages' = pages /\ stored' = stored /\ pmt' = pmt
  BY DEF Scan, flash
<1>2. \A l \in Lpns : Grp(l) = g => map[l] = pmt[l]
  BY <1>1 DEF Kept, Data0, Unread
<1>3. \A l \in Lpns : Grp(l) = g =>
          Apply(map, pages[g], stored[g] + 1, n)[l] = Apply(pmt, pages[g], stored[g] + 1, n)[l]
  BY <1>2 DEF Apply
<1>4. QED BY <1>1, <1>3 DEF MapUpto

\* The scanned group follows its log.
LEMMA ScanSettles ==
  ASSUME Inv, Inv', Kept, Durable, open, NEW g \in Groups, Scan(g),
         op.step # "bmt", op.step # "store"
  PROVE  GroupFollows(g)'
<1>1. /\ g \in unscanned /\ op' = op
      /\ UNCHANGED <<pages, active, stored, pmt, bblk, storedBBlk, bBlkVbn>>
  BY DEF Scan, flash
<1>2. /\ Types /\ LogsClean /\ Borders /\ Place /\ g \in active /\ cp[g] = stored[g]
      /\ pages[g] \in Seq(LogPage) /\ stored[g] \in Nat /\ cp[g] \in 0 .. PagesPerSBlk
      /\ cp \in [Groups -> 0 .. PagesPerSBlk] /\ Len(pages[g]) <= PagesPerSBlk
      /\ \A l \in Lpns : Grp(l) = g => map[l] = pmt[l]
  BY <1>1, SizesAssumption DEF Inv, Types, LogTypes, Kept, Data0, Unread, Durable
<1>3. Old' = Old /\ Cur' = Cur
  BY <1>1, BlocksStill
<1>4. \A l : Joins(g, l)' <=> Joins(g, l)
  BY <1>1 DEF Joins, Loose, LastPg
<1>5. CASE ~(cp[g] < PagesPerSBlk)
  <2>1. map' = map
    BY <1>5 DEF Scan
  <2>2. Len(pages'[g]) <= stored'[g]
    BY <1>1, <1>2, <1>5, SizesAssumption
  <2>3. QED BY <1>1, <1>2, <2>1, <2>2, StoredFollows DEF Inv
<1>6. CASE cp[g] < PagesPerSBlk
  <2> SUFFICES ASSUME NEW first, first = stored[g] + 1,
                      NEW n, n = RecoverTo(pages[g], first, buf)
               PROVE  GroupFollows(g)'
    OBVIOUS
  <2>1. MapUpto(g, n)'
    BY <1>6, ScanGroup
  <2>2. CASE Joins(g, buf.lpn)
    <3>1. n = Len(pages[g]) /\ ~FoundInLog(pages[g], first, buf)
      BY <1>2, <2>2, Recovers
    <3>2. buf' = buf
      BY <1>6, <3>1 DEF Scan
    <3>3. Grp(buf.lpn) = g /\ buf.lpn # None
      BY <1>2, <2>2, JoinsGroup
    <3>4. buf.dirty
      BY <1>1, <1>2, <3>3 DEF Place, Scanned, Flushed
    <3>5. Hangs(g)'
      BY <1>4, <2>2, <3>2, <3>4 DEF Hangs, Joins
    <3>6. n = Len(pages'[g])
      BY <1>1, <3>1
    <3>7. Pending(g)'
      BY <2>1, <3>5, <3>6 DEF Pending
    <3>8. QED BY <1>1, <1>2, <3>7 DEF GroupFollows
  <2>3. CASE ~Joins(g, buf.lpn)
    <3>1. n = LastMark(g)
      BY <1>2, <2>3, Recovers
    <3>2. n = LastMark(g)'
      BY <1>1, <3>1 DEF LastMark, Marks
    <3>3. ~Joins(g, Old.lpn)
      <4>1. CASE Old.lpn = None
        BY <1>2, <4>1, JoinsGroup
      <4>2. CASE Old.lpn # None /\ Grp(Old.lpn) \notin unscanned
        BY <1>1, <1>2, <4>2, JoinsGroup
      <4>3. CASE Old.lpn # None /\ Grp(Old.lpn) \in unscanned
        BY <2>3, <4>3, SameBlk
      <4>4. QED BY <4>1, <4>2, <4>3
    <3>4. ~Joins(g, Cur.lpn)
      BY <3>3, SameBlk
    <3>5. ~(cp'[g] < PagesPerSBlk)
      BY <1>2, <1>6, SizesAssumption DEF Scan
    <3>6. ~Filling(g)'
      BY <1>1 DEF Filling, Inv, Phases
    <3>7. ~Joins(g, Old.lpn)' /\ ~Joins(g, Cur.lpn)'
      BY <1>3, <1>4, <3>3, <3>4 DEF Joins
    <3>8. Settled(g)'
      BY <2>1, <3>2, <3>5, <3>6, <3>7 DEF Settled
    <3>9. QED BY <1>1, <1>2, <3>8 DEF GroupFollows
  <2>4. QED BY <2>2, <2>3
<1>7. QED BY <1>5, <1>6

\* A scan of the log.
LEMMA ScanDurable ==
  ASSUME Inv, Inv', Kept, Durable, ScanStep
  PROVE  Durable'
<1>1. PICK g \in ToScan : Scan(g)
  BY DEF ScanStep
<1>2. /\ open /\ g \in unscanned /\ unscanned' = unscanned \ {g} /\ op' = op /\ delGrp' = delGrp
      /\ open' = open
      /\ UNCHANGED <<pages, active, stored, pmt, bblk, storedBBlk, bBlkVbn>>
  BY <1>1 DEF Scan, ScanStep, flash
<1>3. /\ Types /\ g \in Groups /\ cp \in [Groups -> 0 .. PagesPerSBlk] /\ Borders
  BY <1>2 DEF Inv, Types, LogTypes, Durable
<1>4. op.step # "bmt" /\ op.step # "store"
  BY ScanSteps
<1>5. Forgets \/ buf' = buf
  BY <1>1, <1>2, <1>3, <1>4, ScanForgets
<1>6. \A h \in Groups \ {g} : cp'[h] = cp[h]
  <2>1. cp' = [cp EXCEPT ![g] = PagesPerSBlk] \/ cp' = cp
    BY <1>1 DEF Scan
  <2>2. QED BY <1>3, <2>1
<1>7. \A l \in Lpns : Grp(l) # g => map'[l] = map[l]
  BY <1>1, <1>2, <1>3, ScanMap
<1>8. Old' = Old /\ Cur' = Cur
  BY <1>2, BlocksStill
<1>9. ASSUME NEW h \in Groups \ unscanned, h # delGrp PROVE GroupFollows(h)'
  <2>1. GroupFollows(h) /\ h # g
    BY <1>2, <1>9 DEF Durable, Follows
  <2>2. GroupStill(h)
    BY <1>2, <1>6, <1>7, <2>1 DEF GroupStill
  <2>3. Settled(h) => ~Joins(h, Old'.lpn) /\ ~Joins(h, Cur'.lpn)
    BY <1>8 DEF Settled
  <2>4. Filling(h)' => Filling(h)
    BY <1>2 DEF Filling
  <2>5. \A l : Joins(h, l)' <=> Joins(h, l)
    BY <1>2 DEF Joins, Loose, LastPg
  <2>6. Writing(h) => Writing(h)'
    BY <1>2, <2>5 DEF Writing, Joins
  <2>7. Hangs(h) => Hangs(h)'
    <3> SUFFICES ASSUME Hangs(h) PROVE Hangs(h)'
      OBVIOUS
    <3>1. Grp(buf.lpn) = h
      BY <1>3, JoinsGroup DEF Hangs
    <3>2. buf' = buf
      BY <1>5, <1>9, <3>1 DEF Forgets
    <3>3. QED BY <2>5, <3>2 DEF Hangs, Joins
  <2>8. QED BY <2>1, <2>2, <2>3, <2>4, <2>6, <2>7, StillFollows
<1>10. GroupFollows(g)'
  BY <1>1, <1>2, <1>3, <1>4, ScanSettles
<1>11. Follows'
  BY <1>2, <1>9, <1>10 DEF Follows
<1>12. BufAbove'
  <2> SUFFICES ASSUME buf'.dirty, op.kind # "open", NEW s \in buf'.valid
               PROVE  map'[buf'.lpn][s] <= buf'.data[s]
    BY <1>2 DEF BufAbove
  <2>1. buf' = buf
    BY <1>5 DEF Forgets, NoBuf
  <2>2. buf.lpn \in Lpns /\ buf.lpn # None
    BY <1>3, <2>1, BufTyped, Sizes
  <2>3. Grp(buf.lpn) # g
    BY <1>2, <2>2 DEF Kept, Place, Scanned, Opening
  <2>4. map'[buf.lpn] = map[buf.lpn]
    BY <1>7, <2>2, <2>3
  <2>5. map[buf.lpn][s] <= buf.data[s]
    BY <1>2, <2>1 DEF Durable, BufAbove
  <2>6. QED BY <2>1, <2>4, <2>5
<1>13. QED BY <1>2, <1>11, <1>12 DEF Durable, Borders

\* Nothing is in the logs of a formatted zone.
LEMMA InitDurable ==
  ASSUME Init
  PROVE  Durable
<1>1. ~open /\ pages = [g \in Groups |-> <<>>]
  BY DEF Init
<1>2. Borders
  BY <1>1 DEF Borders
<1>3. QED BY <1>1, <1>2 DEF Durable, Follows, BufAbove

\* A step that changes nothing.
LEMMA StillDurable ==
  ASSUME Durable, UNCHANGED vars
  PROVE  Durable'
<1>1. UNCHANGED still /\ op' = op
  BY DEF vars, flash, ram, hist, still
<1>2. op.kind = "open" => op'.kind = "open" \/ ~buf.dirty
  BY <1>1
<1>3. QED BY <1>1, <1>2, DurableStill

\* Every step keeps the invariant.
LEMMA NextDurable ==
  ASSUME Inv, Inv', Kept, Durable, [Next]_vars
  PROVE  Durable'
<1>1. CASE BeginOpen
  BY <1>1, BeginOpenDurable
<1>2. CASE OpenStep
  BY <1>2, CallsDurable, EraseDurable, OpenStoreDurable DEF OpenStep
<1>3. CASE BeginWrite
  BY <1>3, CallsDurable
<1>4. CASE WriteStep
  BY <1>4, StoreDurable, StartsDurable, WriteTakeLogStores, CallsDurable, WriteLogPageDurable,
     WriteBufferPageDurable, WriteStoreBMTCtxDurable DEF WriteStep
<1>5. CASE ReadStart
  BY <1>5, StartsDurable
<1>6. CASE FlushStep
  BY <1>6, StoreDurable, FlushPageDurable, FlushTakeLogStores DEF FlushStep
<1>7. CASE ScanStep
  BY <1>7, ScanDurable
<1>8. CASE \E l \in Deletable : BeginDelete(l)
  BY <1>8, CallsDurable
<1>9. CASE DeleteStep
  BY <1>9, DeleteInvalidateDurable, DeletePageDurable DEF DeleteStep
<1>10. CASE EvictStep
  BY <1>10, StoreDurable, CallsDurable, EvictStores DEF EvictStep
<1>11. CASE BeginClose
  BY <1>11, CallsDurable
<1>12. CASE CloseStep
  BY <1>12, StoreDurable, StartsDurable, EraseDurable, CloseStores, PowerLossDurable DEF CloseStep
<1>13. CASE PowerLoss
  BY <1>13, PowerLossDurable
<1>14. CASE UNCHANGED vars
  BY <1>14, StillDurable
<1>15. QED BY <1>1, <1>2, <1>3, <1>4, <1>5, <1>6, <1>7, <1>8, <1>9, <1>10, <1>11, <1>12,
             <1>13, <1>14 DEF Next

\* Between calls an open would find the map of a scanned log.
LEMMA MapRecovered ==
  ASSUME Inv, Kept, Durable, op.kind = "none", open, NEW l \in Lpns, NEW g, g = Grp(l),
         g \notin unscanned, g # delGrp
  PROVE  map[l] = IF g \in active /\ stored[g] < PagesPerSBlk
                  THEN Apply(pmt, pages[g], stored[g] + 1,
                             RecoverTo(pages[g], stored[g] + 1, Old))[l]
                  ELSE pmt[l]
<1>1. /\ g \in Groups /\ Types /\ LogsClean /\ Borders /\ GroupFollows(g)
      /\ op.step # "bmt" /\ op.step # "store"
  BY GrpType DEF Inv, Kept, Data0, Calls, StepsOf, Durable, Follows
<1>2. Hangs(g) => Joins(g, Old.lpn)
  <2> SUFFICES ASSUME Hangs(g) PROVE Joins(g, Old.lpn)
    OBVIOUS
  <2>1. buf.lpn # None
    BY <1>1, JoinsGroup DEF Hangs
  <2>2. Old.lpn = buf.lpn
    BY <1>1, <2>1, SameBlk
  <2>3. QED BY <2>2 DEF Hangs
<1>3. ~Writing(g)
  BY DEF Writing
<1> SUFFICES ASSUME NEW first, first = stored[g] + 1,
                    NEW n, n = RecoverTo(pages[g], first, Old)
             PROVE  map[l] = IF g \in active /\ stored[g] < PagesPerSBlk
                             THEN Apply(pmt, pages[g], first, n)[l] ELSE pmt[l]
  OBVIOUS
<1>4. CASE g \notin active
  BY <1>1, <1>4 DEF GroupFollows, MapStored
<1>5. CASE g \in active
  <2>1. MapUpto(g, n)
    <3>1. CASE Settled(g)
      <4>1. n = LastMark(g)
        BY <1>1, <3>1, Recovers DEF Settled
      <4>2. QED BY <3>1, <4>1 DEF Settled
    <3>2. CASE Pending(g)
      <4>1. n = Len(pages[g])
        BY <1>1, <1>2, <1>3, <3>2, Recovers DEF Pending
      <4>2. QED BY <3>2, <4>1 DEF Pending
    <3>3. QED BY <1>1, <1>5, <3>1, <3>2 DEF GroupFollows
  <2>2. map[l] = Apply(pmt, pages[g], first, n)[l]
    BY <2>1 DEF MapUpto
  <2>3. CASE stored[g] < PagesPerSBlk
    BY <1>5, <2>2, <2>3
  <2>4. CASE ~(stored[g] < PagesPerSBlk)
    <3>1. Len(pages[g]) <= stored[g] /\ stored[g] \in Nat
      BY <1>1, <2>4, SizesAssumption DEF Types, LogTypes
    <3>2. LastMark(g) = stored[g] /\ ~Loose(g)
      BY <1>1, <3>1, LogEnd
    <3>3. n = stored[g]
      BY <1>1, <3>2, Recovers DEF Joins
    <3>4. Apply(pmt, pages[g], first, n)[l] = pmt[l]
      BY <3>1, <3>3, ApplyNothing
    <3>5. QED BY <2>2, <2>4, <3>4
  <2>5. QED BY <2>3, <2>4
<1>6. QED BY <1>4, <1>5

\* The last page of the log is what the map has for its logical page.
LEMMA LastMapped ==
  ASSUME Types, NEW g \in Groups, NEW first, first = stored[g] + 1,
         MapUpto(g, Len(pages[g])), NEW b, LastIsBuffered(pages[g], first, b),
         b.lpn \in Lpns, Grp(b.lpn) = g
  PROVE  map[b.lpn] = pages[g][LastValid(pages[g], first)].data
<1> SUFFICES ASSUME NEW ps, ps = pages[g], NEW i, i = LastValid(ps, first)
             PROVE  map[b.lpn] = ps[i].data
  OBVIOUS
<1> DEFINE ok == {k \in first .. Len(ps) : ps[k].lpn # None}
           at == {k \in first .. Len(ps) : ps[k].lpn = b.lpn}
<1>1. /\ Len(ps) \in Nat /\ stored[g] \in Nat /\ first \in Nat
  <2>1. ps \in Seq(LogPage) /\ stored[g] \in Nat /\ Len(ps) \in Nat
    BY LogEnd
  <2>2. QED BY <2>1
<1>2. i # 0 /\ ps[i].lpn = b.lpn
  BY DEF LastIsBuffered
<1>3. ok # {} /\ i = Max(ok)
  BY <1>2 DEF LastValid
<1>4. ok \in SUBSET (0 .. Len(ps)) /\ at \in SUBSET (0 .. Len(ps))
  BY <1>1
<1>5. i \in ok /\ \A k \in ok : k <= i
  BY <1>1, <1>3, <1>4, MaxIn
<1>6. i \in at /\ at \subseteq ok
  BY <1>2, <1>5, Sizes
<1>7. Max(at) \in at /\ i <= Max(at)
  BY <1>1, <1>4, <1>6, MaxIn
<1>8. Max(at) = i
  <2>1. Max(at) <= i /\ Max(at) \in 0 .. Len(ps) /\ i \in 0 .. Len(ps)
    BY <1>4, <1>5, <1>6, <1>7
  <2>2. QED BY <1>1, <1>7, <2>1
<1>9. Apply(pmt, ps, first, Len(ps))[b.lpn] = IF at = {} THEN pmt[b.lpn] ELSE ps[Max(at)].data
  BY DEF Apply
<1>10. map[b.lpn] = Apply(pmt, ps, first, Len(ps))[b.lpn]
  BY DEF MapUpto
<1>11. at # {}
  BY <1>6
<1> HIDE DEF at
<1>12. QED BY <1>8, <1>9, <1>10, <1>11

\* A buffered page whose flush an open takes the last page of the log for has
\* the same sectors as the map, unless it was written behind that page.
LEMMA FoundEqual ==
  ASSUME Inv, Kept, Durable, op.kind = "none", open, NEW g, g = Grp(buf.lpn), g # delGrp,
         buf.dirty, NEW first, first = stored[g] + 1,
         LastIsBuffered(pages[g], first, buf), ~Overtaken(g), NEW s \in buf.valid
  PROVE  map[buf.lpn][s] = buf.data[s]
<1>1. /\ Types /\ buf.lpn \in Lpns /\ g \in Groups /\ s \in Secs
  BY BufTyped, GrpType DEF Inv
<1>2. g \notin unscanned /\ HasRoom(g)
  BY DEF Inv, Room
<1>3. MapUpto(g, Len(pages[g]))
  BY <1>1, <1>2, LiveUpto
<1>4. map[buf.lpn] = pages[g][LastValid(pages[g], first)].data
  BY <1>1, <1>3, LastMapped
<1>5. ~(buf.data[s] > map[buf.lpn][s])
  BY <1>4 DEF Overtaken
<1>6. map[buf.lpn][s] <= buf.data[s]
  BY DEF Durable, BufAbove
<1>7. map[buf.lpn][s] \in Nat /\ buf.data[s] \in Nat
  BY <1>1, Typed
<1>8. QED BY <1>5, <1>6, <1>7

\* What an open would read is what reads return.
LEMMA DurableAtRest ==
  ASSUME Inv, Kept, Durable
  PROVE  AtRestDurable
<1> SUFFICES ASSUME op.kind = "none", open, NEW l \in Lpns, NEW g, g = Grp(l),
                    g \notin unscanned, g # delGrp, ~Stale(l), ~Masked(l)
             PROVE  Recovered(l) = Read(l)
  BY DEF AtRestDurable
<1> DEFINE first == stored[g] + 1
           scan == g \in active /\ stored[g] < PagesPerSBlk
           m == IF scan
                THEN Apply(pmt, pages[g], first, RecoverTo(pages[g], first, Old)) ELSE pmt
           found == scan /\ FoundInLog(pages[g], first, Old)
<1>1. Types /\ BufForm /\ op.step # "bmt" /\ op.step # "store"
  BY DEF Inv, Kept, Calls, StepsOf
<1>2. m[l] = map[l]
  BY MapRecovered
<1>3. Recovered(l) = IF found THEN Merged(l, m, NoBuf(0)) ELSE Merged(l, m, Old)
  BY DEF Recovered, Old
<1> HIDE DEF m
<1>4. Merged(l, m, NoBuf(0)) = [s \in Secs |-> map[l][s]]
  BY <1>2 DEF Merged, NoBuf
<1>5. Merged(l, m, Old) = [s \in Secs |-> IF Old.dirty /\ Old.lpn = l /\ s \in Old.valid
                                          THEN Old.data[s] ELSE map[l][s]]
  BY <1>2 DEF Merged
<1>6. Read(l) = [s \in Secs |-> IF buf.dirty /\ buf.lpn = l /\ s \in buf.valid
                                THEN buf.data[s] ELSE map[l][s]]
  BY DEF Read, Merged
<1>7. l # None
  BY Sizes
<1>8. buf.lpn # None => Old.lpn = buf.lpn /\ Old.valid = buf.valid /\ Old.data = buf.data
  BY <1>1, SameBlk
<1>9. CASE Old.lpn # l
  <2>1. buf.lpn # l
    BY <1>7, <1>8, <1>9
  <2>2. QED BY <1>3, <1>4, <1>5, <1>6, <1>9, <2>1
<1>10. CASE Old.lpn = l
  <2>1. buf.lpn = l /\ Old.dirty /\ Old.valid = buf.valid /\ Old.data = buf.data
    <3>1. buf.lpn # None
      BY <1>1, <1>7, <1>10, SameBlk DEF Stale, Old
    <3>2. QED BY <1>1, <1>7, <1>8, <1>10, <3>1, OldGood
  <2>2. ~buf.dirty => \A s \in buf.valid : map[l][s] = buf.data[s]
    BY <1>7, <2>1 DEF Kept, Data0, BufClean
  <2>3. CASE ~found
    <3>1. \A s \in Secs : (IF Old.dirty /\ Old.lpn = l /\ s \in Old.valid
                           THEN Old.data[s] ELSE map[l][s])
                        = (IF buf.dirty /\ buf.lpn = l /\ s \in buf.valid
                           THEN buf.data[s] ELSE map[l][s])
      BY <1>10, <2>1, <2>2
    <3>2. QED BY <1>3, <1>5, <1>6, <2>3, <3>1
  <2>4. CASE found
    <3>1. ASSUME buf.dirty, NEW s \in buf.valid PROVE map[l][s] = buf.data[s]
      <4>1. LastIsBuffered(pages[g], first, buf)
        BY <1>10, <2>1, <2>4 DEF FoundInLog, LastIsBuffered
      <4>2. ~Overtaken(g)
        BY <2>1, <2>4, <3>1 DEF Masked
      <4>3. QED BY <2>1, <3>1, <4>1, <4>2, FoundEqual
    <3>2. \A s \in Secs : map[l][s] = (IF buf.dirty /\ buf.lpn = l /\ s \in buf.valid
                                       THEN buf.data[s] ELSE map[l][s])
      BY <3>1
    <3>3. QED BY <1>3, <1>4, <1>6, <2>4, <3>2
  <2>5. QED BY <2>3, <2>4
<1>11. QED BY <1>9, <1>10

\* Between calls nothing that reads return depends on the RAM: an open after a
\* power loss would find every page as it reads now.  But for the pages of the
\* group whose delete waits for its store, a page of a buffer block that was
\* given up in RAM, and one an open takes the last page of the log for that was
\* written before it.
THEOREM AtRestCorrect ==
  ASSUME DeletesUnbuffered
  PROVE  Spec => []AtRestDurable
<1>1. Init => Kept /\ Durable
  BY InitKept, InitDurable
<1>2. Inv /\ Inv' /\ Kept /\ [Next]_vars => Kept'
  BY NextKept
<1>3. Inv /\ Inv' /\ Kept /\ Durable /\ [Next]_vars => Durable'
  BY NextDurable
<1>4. Inv /\ Kept /\ Durable => AtRestDurable
  BY DurableAtRest
<1>5. QED BY <1>1, <1>2, <1>3, <1>4, Invariance, PTL DEF Spec
=============================================================================
