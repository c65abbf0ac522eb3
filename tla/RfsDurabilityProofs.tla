------------------------ MODULE RfsDurabilityProofs ------------------------
(***************************************************************************)
(* The course of the operations of RfsJournal, for every number of         *)
(* clusters, entries and inodes: each leads from one sound volume to the   *)
(* next, and at every step on the way the log restores the one it started  *)
(* from.                                                                   *)
(***************************************************************************)
EXTENDS RfsDurability, RfsJournalProofs

(***************************************************************************)
(* Volumes that are sound, and the course of an operation.                 *)
(***************************************************************************)
\* The chains of the entries of a volume and, for None, the chain behind the
\* log file.
Chains == [Slot \cup {None} -> Seq(Cluster)]
SoundBy(b, C) ==
  /\ \A s \in Slot : IF b.live[s] THEN b.start[s] = HeadOr(C[s], TAIL) ELSE C[s] = <<>>
  /\ b.fat[Log] = HeadOr(C[None], TAIL)
  /\ \A x \in Slot \cup {None} : Trail(b.fat, C[x], TAIL) /\ Once(C[x])
  /\ \A x, y \in Slot \cup {None} : x # y => ToSet(C[x]) \cap ToSet(C[y]) = {}
  /\ \A c \in Cluster : b.fat[c] # FREE => \E x \in Slot \cup {None} : c \in ToSet(C[x])
Sound(b) == \E C \in Chains : SoundBy(b, C)

\* A point in the course of an operation: the volume as the caches show it (the
\* start clusters at least of the entries that are fixed), the log, the in-core
\* state, the volume a mount would come to, the places its replay sets, and
\* whether every block has been written back.
Point(v, l, r, b, m, x, k) ==
  [vol |-> v, log |-> l, ram |-> r, base |-> b, mask |-> m, fixed |-> x, clean |-> k]

Sane(c) ==
  /\ c.vol \in Volume /\ c.base \in Volume /\ c.log \in Seq(RecSet) /\ c.ram \in Rams
  /\ c.fixed \subseteq Slot /\ c.clean \in BOOLEAN
  /\ Agree(c.vol, c.base, c.mask) /\ Restores(c.log, c.base, c.mask) /\ Sound(c.base)
  /\ \A s \in Slot : c.base.live[s] /\ <<"start", s>> \notin c.mask => s \in c.fixed
  /\ \A f \in File, s \in c.fixed : Owns(c.ram.ino, f, s) => c.vol.start[s] = c.ram.ino[f].start
  /\ c.clean => \A f \in File, s \in Slot : Owns(c.ram.ino, f, s) => s \in c.fixed

\* What the files become with the last record of the log.
AfterRecord(l, old) ==
  IF Cuts(l) THEN [old EXCEPT ![Last(l).d.slot] = Kept(@, Last(l).d.newlast)] ELSE old

\* The change of one step, by its kind.
EditTo(c, s, e) ==
  /\ s \in Edits /\ e.vol = Apply(c.vol, s)
  /\ e.log = c.log /\ e.ram = c.ram /\ e.base = c.base /\ e.mask = c.mask
  /\ e.fixed = (IF s.op = "start" THEN c.fixed \cup {s.at} ELSE c.fixed) /\ e.clean = FALSE
FlushTo(c, s, e) ==
  /\ s.op = "flush" /\ e.vol = c.vol /\ e.log = c.log /\ e.ram = c.ram
  /\ e.base = c.base /\ e.mask = c.mask /\ e.fixed = c.fixed /\ e.clean = TRUE
RamTo(c, s, e) ==
  /\ s.op = "ram" /\ e.vol = c.vol /\ e.log = c.log /\ e.ram = s.ram
  /\ e.base = c.base /\ e.mask = c.mask /\ e.fixed \subseteq c.fixed /\ e.clean = FALSE
LogTo(c, s, e) ==
  /\ s.op = "log" /\ e.vol = c.vol /\ e.log = Append(c.log, s.rec) /\ e.ram = c.ram
  /\ e.fixed = c.fixed /\ e.clean = FALSE
  /\ c.clean \/ \A d \in Volume : Agree(d, c.base, c.mask) => Agree(d, e.base, e.mask)
  /\ View(e.base) = AfterRecord(e.log, View(c.base))
MarkTo(c, s, e) ==
  /\ s.op = "mark" /\ c.clean /\ c.log # <<>>
  /\ \A u \in Slot : c.vol.live[u] => u \in c.fixed
  /\ e.vol = c.vol /\ e.log = <<>> /\ e.ram = s.ram /\ e.base = c.vol /\ e.mask = {}
  /\ e.fixed = c.fixed /\ e.clean = FALSE
StepTo(c, s, e) ==
  EditTo(c, s, e) \/ FlushTo(c, s, e) \/ RamTo(c, s, e) \/ LogTo(c, s, e) \/ MarkTo(c, s, e)

\* The steps t lead from one point to another, by the points w.
Course(w, c, t, e) ==
  /\ w[0] = c /\ w[Len(t)] = e
  /\ \A i \in 0..Len(t) : Sane(w[i])
  /\ \A i, j \in 0..Len(t) : j = i + 1 => StepTo(w[i], t[j], w[j])
Reach(c, t, e) == \E w : Course(w, c, t, e)

LEMMA ReachNone ==
  ASSUME NEW c, NEW e
  PROVE  Reach(c, <<>>, e) <=> Sane(c) /\ c = e
<1>1. Len(<<>>) = 0 /\ (\A i \in 0..0 : i = 0) /\ 0 \in 0..0 /\ \A i, j \in 0..0 : j # i + 1
  OBVIOUS
<1>2. ASSUME Sane(c), c = e PROVE Reach(c, <<>>, e)
  <2> DEFINE w == [i \in 0..0 |-> c]
  <2>1. w[0] = c /\ \A i \in 0..0 : w[i] = c
    OBVIOUS
  <2> HIDE DEF w
  <2>2. Course(w, c, <<>>, e)
    BY <1>1, <1>2, <2>1 DEF Course
  <2>3. QED BY <2>2 DEF Reach
<1>3. ASSUME Reach(c, <<>>, e) PROVE Sane(c) /\ c = e
  BY <1>1, <1>3 DEF Reach, Course
<1>4. QED BY <1>2, <1>3

LEMMA ReachOne ==
  ASSUME NEW c, NEW e, NEW s, Sane(c), Sane(e), StepTo(c, s, e)
  PROVE  Reach(c, <<s>>, e)
<1> DEFINE w == [i \in 0..1 |-> IF i = 0 THEN c ELSE e]
           t == <<s>>
<1>1. Len(t) = 1 /\ t[1] = s /\ w[0] = c /\ w[1] = e /\ \A i \in 0..1 : i = 0 \/ i = 1
  OBVIOUS
<1>2. \A i, j \in 0..1 : j = i + 1 => i = 0 /\ j = 1
  OBVIOUS
<1> HIDE DEF w, t
<1>3. Course(w, c, t, e)
  BY <1>1, <1>2 DEF Course
<1>4. QED BY <1>3 DEF Reach, t

LEMMA ReachConcat ==
  ASSUME NEW S, NEW a \in Seq(S), NEW b \in Seq(S), NEW c, NEW d, NEW e,
         Reach(c, a, d), Reach(d, b, e)
  PROVE  Reach(c, a \o b, e)
<1> DEFINE A == Len(a)
           B == Len(b)
           t == a \o b
<1>1. /\ A \in Nat /\ B \in Nat /\ Len(t) = A + B
      /\ \A n \in 1..A : t[n] = a[n]
      /\ \A n \in 1..(A + B) : n > A => t[n] = b[n - A]
  OBVIOUS
<1>2. PICK f : Course(f, c, a, d)
  BY DEF Reach
<1>3. PICK h : Course(h, d, b, e)
  BY DEF Reach
<1> DEFINE w == [n \in 0..(A + B) |-> IF n <= A THEN f[n] ELSE h[n - A]]
<1>4. /\ \A n \in 0..A : w[n] = f[n]
      /\ \A n \in 0..B, k \in 0..(A + B) : k = n + A => w[k] = h[n]
  <2>1. \A n \in 0..A : w[n] = f[n]
    BY <1>1
  <2>2. ASSUME NEW n \in 0..B, NEW k \in 0..(A + B), k = n + A PROVE w[k] = h[n]
    <3>1. CASE n = 0
      <4>1. k = A /\ A \in 0..A /\ w[A] = f[A]
        BY <1>1, <2>2, <3>1
      <4>2. f[A] = d /\ h[0] = d
        BY <1>2, <1>3 DEF Course
      <4>3. QED BY <3>1, <4>1, <4>2
    <3>2. CASE n # 0
      <4>1. ~(k <= A) /\ k - A = n
        BY <1>1, <2>2, <3>2
      <4>2. QED BY <4>1
    <3>3. QED BY <3>1, <3>2
  <2>3. QED BY <2>1, <2>2
<1>5. w[0] = c /\ w[A + B] = e
  <2>1. 0 \in 0..A /\ B \in 0..B /\ A + B \in 0..(A + B) /\ A + B = B + A
    BY <1>1
  <2> HIDE DEF w
  <2>2. w[0] = f[0] /\ w[A + B] = h[B]
    BY <1>4, <2>1
  <2>3. QED BY <1>2, <1>3, <2>2 DEF Course
<1>6. ASSUME NEW i \in 0..(A + B) PROVE Sane(w[i])
  <2> HIDE DEF w
  <2>1. CASE i <= A
    <3>1. i \in 0..A
      BY <1>1, <2>1
    <3>2. QED BY <1>2, <1>4, <3>1 DEF Course
  <2>2. CASE ~(i <= A)
    <3>1. i - A \in 0..B /\ i = (i - A) + A
      BY <1>1, <2>2
    <3>2. w[i] = h[i - A]
      BY <1>4, <3>1
    <3>3. QED BY <1>3, <3>1, <3>2 DEF Course
  <2>3. QED BY <2>1, <2>2
<1>7. ASSUME NEW i \in 0..(A + B), NEW j \in 0..(A + B), j = i + 1 PROVE StepTo(w[i], t[j], w[j])
  <2>1. CASE j <= A
    <3>1. i \in 0..A /\ j \in 0..A /\ j \in 1..A
      BY <1>1, <1>7, <2>1
    <3>2. t[j] = a[j]
      BY <1>1, <3>1
    <3> HIDE DEF w, t
    <3>3. w[i] = f[i] /\ w[j] = f[j] /\ StepTo(f[i], a[j], f[j])
      BY <1>2, <1>4, <1>7, <3>1 DEF Course
    <3>4. QED BY <3>2, <3>3
  <2>2. CASE ~(j <= A)
    <3> DEFINE x == i - A
               y == j - A
    <3>1. x \in 0..B /\ y \in 0..B /\ i = x + A /\ j = y + A /\ y = x + 1
          /\ j > A /\ j \in 1..(A + B)
      BY <1>1, <1>7, <2>2
    <3>2. t[j] = b[y]
      BY <1>1, <3>1
    <3> HIDE DEF w, t, x, y
    <3>3. w[i] = h[x] /\ w[j] = h[y]
      BY <1>4, <3>1
    <3>4. StepTo(h[x], b[y], h[y])
      BY <1>3, <3>1 DEF Course
    <3>5. QED BY <3>2, <3>3, <3>4
  <2>3. QED BY <2>1, <2>2
<1>8. Course(w, c, t, e)
  <2> HIDE DEF w, t
  <2>1. QED BY <1>1, <1>5, <1>6, <1>7 DEF Course
<1>9. QED BY <1>8 DEF Reach

LEMMA ReachEnds ==
  ASSUME NEW S, NEW t \in Seq(S), NEW c, NEW e, Reach(c, t, e)
  PROVE  Sane(c) /\ Sane(e)
<1>1. PICK w : Course(w, c, t, e)
  BY DEF Reach
<1>2. 0 \in 0..Len(t) /\ Len(t) \in 0..Len(t)
  OBVIOUS
<1>3. QED BY <1>1, <1>2 DEF Course

LEMMA ReachHead ==
  ASSUME NEW S, NEW t \in Seq(S), t # <<>>, NEW c, NEW e, Reach(c, t, e)
  PROVE  \E d : Sane(d) /\ StepTo(c, Head(t), d) /\ Reach(d, Tail(t), e)
<1> DEFINE N == Len(t) - 1
           u == Tail(t)
<1>1. /\ N \in Nat /\ Len(t) = N + 1 /\ Len(u) = N /\ Head(t) = t[1]
      /\ \A i \in 1..N : u[i] = t[i + 1]
  OBVIOUS
<1>2. PICK w : Course(w, c, t, e)
  BY DEF Reach
<1> DEFINE x == [i \in 0..N |-> w[i + 1]]
<1>3. x[0] = w[1] /\ x[N] = w[N + 1] /\ \A i \in 0..N : x[i] = w[i + 1]
  BY <1>1
<1>4. /\ \A i \in 0..N : i + 1 \in 0..Len(t)
      /\ \A i \in 1..N : i + 1 \in 0..Len(t)
      /\ 0 \in 0..Len(t) /\ 1 \in 0..Len(t) /\ 1 = 0 + 1
  BY <1>1
<1> HIDE DEF N, u, x
<1>5. \A i \in 0..N : Sane(x[i])
  BY <1>2, <1>3, <1>4 DEF Course
<1>6. ASSUME NEW i \in 0..N, NEW j \in 0..N, j = i + 1 PROVE StepTo(x[i], u[j], x[j])
  <2> DEFINE p == i + 1
             q == j + 1
  <2>1. p \in 0..Len(t) /\ q \in 0..Len(t) /\ q = p + 1 /\ j \in 1..N
    BY <1>1, <1>4, <1>6
  <2>2. x[i] = w[p] /\ x[j] = w[q] /\ u[j] = t[q]
    BY <1>1, <1>3, <2>1
  <2> HIDE DEF p, q
  <2>3. StepTo(w[p], t[q], w[q])
    BY <1>2, <2>1 DEF Course
  <2>4. QED BY <2>2, <2>3
<1>7. Course(x, x[0], u, e)
  BY <1>1, <1>2, <1>3, <1>5, <1>6 DEF Course
<1>8. StepTo(c, Head(t), x[0]) /\ Sane(x[0])
  <2>1. StepTo(w[0], t[1], w[1])
    BY <1>2, <1>4 DEF Course
  <2>2. 0 \in 0..N
    BY <1>1
  <2>3. QED BY <1>1, <1>2, <1>3, <1>5, <2>1, <2>2 DEF Course
<1>9. QED BY <1>7, <1>8 DEF Reach, u

\* What a step does to the volume is what the model says.
LEMMA StepApplies ==
  ASSUME NEW c, NEW s \in StepSet, NEW e, StepTo(c, s, e)
  PROVE  e.vol = Apply(c.vol, s)
<1>1. CASE EditTo(c, s, e)
  BY <1>1 DEF EditTo
<1>2. CASE s.op \in {"flush", "ram", "log", "mark"} /\ e.vol = c.vol
  BY <1>2 DEF Apply
<1>3. QED BY <1>1, <1>2 DEF StepTo, FlushTo, RamTo, LogTo, MarkTo

LEMMA ReachApplies ==
  ASSUME NEW t \in Seq(StepSet), NEW c, NEW e, Reach(c, t, e)
  PROVE  e.vol = ApplyAll(c.vol, t)
<1> DEFINE N == Len(t)
<1>1. N \in Nat /\ \A n \in 1..N : t[n] \in StepSet
  OBVIOUS
<1>2. PICK w : Course(w, c, t, e)
  BY DEF Reach
<1>3. c.vol \in Volume
  BY ReachEnds DEF Sane
<1>4. PICK f \in Volumes(t) : Passes(f, c.vol, t) /\ ApplyAll(c.vol, t) = f[N]
  BY <1>3, ApplySteps
<1> DEFINE S == {n \in 0..N : w[n].vol = f[n]}
<1>5. 0 \in S
  BY <1>1, <1>2, <1>4 DEF Passes, Course
<1>6. ASSUME NEW n \in 1..N, n - 1 \in S PROVE n \in S
  <2>1. n - 1 \in 0..N /\ n \in 0..N /\ n = (n - 1) + 1
    BY <1>1
  <2>2. StepTo(w[n - 1], t[n], w[n])
    BY <1>2, <2>1 DEF Course
  <2>3. w[n].vol = Apply(w[n - 1].vol, t[n])
    BY <1>1, <2>2, StepApplies
  <2>4. f[n] = Apply(f[n - 1], t[n])
    BY <1>4 DEF Passes
  <2>5. QED BY <1>6, <2>1, <2>3, <2>4
<1>7. \A n \in 0..N : n \in S
  <2> HIDE DEF S, N
  <2>1. QED BY <1>1, <1>5, <1>6, Reaches
<1>8. N \in S
  <2>1. N \in 0..N
    BY <1>1
  <2> HIDE DEF S, N
  <2>2. QED BY <1>7, <2>1
<1>9. QED BY <1>2, <1>4, <1>8 DEF Course

-----------------------------------------------------------------------------
(***************************************************************************)
(* Steps that keep a point sane.                                           *)
(***************************************************************************)
\* A step may change a place that the replay sets, a start cluster that does not
\* count, or put there what the mount would.
Lets(c, s) == Spot(s) \in Held(c.base) \ c.mask => s.val = At(c.base, Spot(s))

LEMMA EditReach ==
  ASSUME NEW c, Sane(c), NEW s \in Edits, Lets(c, s),
         s.op = "start" => \A f \in File : Owns(c.ram.ino, f, s.at) => c.ram.ino[f].start = s.val,
         NEW e, EditTo(c, s, e)
  PROVE  Sane(e) /\ Reach(c, <<s>>, e)
<1>1. /\ c.vol \in Volume /\ c.base \in Volume /\ c.log \in Seq(RecSet) /\ c.ram \in Rams
      /\ c.fixed \subseteq Slot
      /\ Agree(c.vol, c.base, c.mask) /\ Restores(c.log, c.base, c.mask) /\ Sound(c.base)
      /\ \A u \in Slot : c.base.live[u] /\ <<"start", u>> \notin c.mask => u \in c.fixed
      /\ \A f \in File, u \in c.fixed : Owns(c.ram.ino, f, u) => c.vol.start[u] = c.ram.ino[f].start
  BY DEF Sane
<1>2. /\ e.vol = Apply(c.vol, s)
      /\ e.log = c.log /\ e.ram = c.ram /\ e.base = c.base /\ e.mask = c.mask
      /\ e.fixed = (IF s.op = "start" THEN c.fixed \cup {s.at} ELSE c.fixed) /\ e.clean = FALSE
  BY DEF EditTo
<1>3. /\ e.vol \in Volume /\ Spot(s) \in Spots
      /\ \A x \in Spots : At(e.vol, x) = IF x = Spot(s) THEN s.val ELSE At(c.vol, x)
  BY <1>1, <1>2, EditOne
<1>4. s.op = "start" => s.at \in Slot
  BY DEF Edits, StartSteps, FatSteps, LiveSteps
<1>5. Agree(e.vol, e.base, e.mask)
  <2>1. ASSUME NEW x \in Held(c.base) \ c.mask PROVE At(e.vol, x) = At(c.base, x)
    <3>1. x \in Spots
      BY HeldIs
    <3>2. CASE x = Spot(s)
      BY <1>3, <2>1, <3>1, <3>2 DEF Lets
    <3>3. CASE x # Spot(s)
      BY <1>1, <1>3, <2>1, <3>1, <3>3 DEF Agree
    <3>4. QED BY <3>2, <3>3
  <2>2. QED BY <1>2, <2>1 DEF Agree
<1>6. ASSUME NEW u \in Slot
      PROVE  e.vol.start[u] = IF s.op = "start" /\ u = s.at THEN s.val ELSE c.vol.start[u]
  <2>1. <<"start", u>> \in Spots /\ At(e.vol, <<"start", u>>) = e.vol.start[u]
        /\ At(c.vol, <<"start", u>>) = c.vol.start[u]
    BY SpotIs
  <2>2. <<"start", u>> = Spot(s) <=> s.op = "start" /\ u = s.at
    BY DEF Spot
  <2>3. QED BY <1>3, <2>1, <2>2
<1>7. \A f \in File, u \in e.fixed : Owns(e.ram.ino, f, u) => e.vol.start[u] = e.ram.ino[f].start
  <2>1. ASSUME NEW f \in File, NEW u \in e.fixed, Owns(e.ram.ino, f, u)
        PROVE  e.vol.start[u] = e.ram.ino[f].start
    <3>1. u \in Slot /\ (u \in c.fixed \/ (s.op = "start" /\ u = s.at))
      BY <1>1, <1>2, <1>4
    <3>2. CASE s.op = "start" /\ u = s.at
      BY <1>2, <1>6, <2>1, <3>1, <3>2
    <3>3. CASE ~(s.op = "start" /\ u = s.at)
      BY <1>1, <1>2, <1>6, <2>1, <3>1, <3>3
    <3>4. QED BY <3>2, <3>3
  <2>2. QED BY <2>1
<1>8. Sane(e)
  BY <1>1, <1>2, <1>3, <1>4, <1>5, <1>7 DEF Sane
<1>9. QED BY <1>8, ReachOne DEF StepTo

\* A record that is undone to what the mount would come to.
Undoes(c, r) == \A i \in 1..Len(Undo(r)) :
  LET s == Undo(r)[i] IN Spot(s) \in Held(c.base) \ c.mask => s.val = At(c.base, Spot(s))

LEMMA AgreeLess ==
  ASSUME NEW d, NEW b, NEW m, NEW n, Agree(d, b, m), m \subseteq n
  PROVE  Agree(d, b, n)
BY DEF Agree

LEMMA UndoReach ==
  ASSUME NEW c, Sane(c), NEW r \in RecSet, r.kind \notin {"dealloc", "mrc"}, Undoes(c, r),
         NEW e, e = Point(c.vol, Append(c.log, r), c.ram, c.base, c.mask \cup SpotsOf(Undo(r)),
                          c.fixed, FALSE)
  PROVE  Sane(e) /\ Reach(c, <<Rec(r)>>, e)
<1> DEFINE l2 == Append(c.log, r)
           n == c.mask \cup SpotsOf(Undo(r))
<1>1. /\ c.vol \in Volume /\ c.base \in Volume /\ c.log \in Seq(RecSet) /\ c.ram \in Rams
      /\ c.fixed \subseteq Slot
      /\ Agree(c.vol, c.base, c.mask) /\ Restores(c.log, c.base, c.mask) /\ Sound(c.base)
      /\ \A u \in Slot : c.base.live[u] /\ <<"start", u>> \notin c.mask => u \in c.fixed
      /\ \A f \in File, u \in c.fixed : Owns(c.ram.ino, f, u) => c.vol.start[u] = c.ram.ino[f].start
  BY DEF Sane
<1>2. l2 \in Seq(RecSet) /\ l2[Len(l2)] = r /\ Last(l2) = r
  BY <1>1, RedoneAppend DEF Last
<1>3. ~Stops(l2, Len(l2)) /\ ~Cuts(l2)
  BY <1>2 DEF Stops, Cuts
<1> HIDE DEF l2
<1>4. Restores(l2, c.base, n)
  <2> DEFINE u == Undo(r)
  <2>1. \A i \in 1..Len(u) : Spot(u[i]) \in Held(c.base) \ c.mask => u[i].val = At(c.base, Spot(u[i]))
    BY DEF Undoes
  <2> HIDE DEF u
  <2>2. Restores(l2, c.base, c.mask \cup SpotsOf(u))
    BY <1>1, <1>3, <2>1, RestoresUndo DEF l2, u
  <2>3. QED BY <2>2 DEF u
<1> HIDE DEF n
<1>5. c.mask \subseteq n
  BY DEF n
<1>6. e = Point(c.vol, l2, c.ram, c.base, n, c.fixed, FALSE)
  BY DEF l2, n
<1>7. /\ e.vol = c.vol /\ e.log = l2 /\ e.ram = c.ram /\ e.base = c.base /\ e.mask = n
      /\ e.fixed = c.fixed /\ e.clean = FALSE
  BY <1>6 DEF Point
<1>8. \A d \in Volume : Agree(d, c.base, c.mask) => Agree(d, c.base, n)
  BY <1>5, AgreeLess
<1>9. Sane(e)
  BY <1>1, <1>2, <1>4, <1>5, <1>7, <1>8 DEF Sane
<1>10. LogTo(c, Rec(r), e)
  <2>1. Rec(r).op = "log" /\ Rec(r).rec = r
    BY DEF Rec
  <2>2. View(e.base) = AfterRecord(e.log, View(c.base))
    BY <1>3, <1>7 DEF AfterRecord
  <2>3. QED BY <1>7, <1>8, <2>1, <2>2 DEF LogTo, l2
<1>11. QED BY <1>9, <1>10, ReachOne DEF StepTo

LEMMA FlushReach ==
  ASSUME NEW c, Sane(c), \A f \in File, s \in Slot : Owns(c.ram.ino, f, s) => s \in c.fixed,
         NEW e, e = Point(c.vol, c.log, c.ram, c.base, c.mask, c.fixed, TRUE)
  PROVE  Sane(e) /\ Reach(c, <<Flush>>, e)
<1>1. /\ e.vol = c.vol /\ e.log = c.log /\ e.ram = c.ram /\ e.base = c.base /\ e.mask = c.mask
      /\ e.fixed = c.fixed /\ e.clean = TRUE
  BY DEF Point
<1>2. /\ c.vol \in Volume /\ c.base \in Volume /\ c.log \in Seq(RecSet) /\ c.ram \in Rams
      /\ c.fixed \subseteq Slot
      /\ Agree(c.vol, c.base, c.mask) /\ Restores(c.log, c.base, c.mask) /\ Sound(c.base)
      /\ \A u \in Slot : c.base.live[u] /\ <<"start", u>> \notin c.mask => u \in c.fixed
      /\ \A f \in File, u \in c.fixed : Owns(c.ram.ino, f, u) => c.vol.start[u] = c.ram.ino[f].start
  BY DEF Sane
<1>3. e.clean \in BOOLEAN /\ \A f \in File, s \in Slot : Owns(e.ram.ino, f, s) => s \in e.fixed
  BY <1>1
<1>4. \A f \in File, u \in e.fixed : Owns(e.ram.ino, f, u) => e.vol.start[u] = e.ram.ino[f].start
  <2>1. e.vol = c.vol /\ e.fixed = c.fixed /\ e.ram.ino = c.ram.ino
    BY <1>1
  <2>2. ASSUME NEW f \in File, NEW u \in e.fixed, Owns(e.ram.ino, f, u)
        PROVE  e.vol.start[u] = e.ram.ino[f].start
    <3>1. u \in c.fixed /\ Owns(c.ram.ino, f, u)
      BY <2>1, <2>2
    <3>2. c.vol.start[u] = c.ram.ino[f].start
      BY <1>2, <3>1
    <3>3. QED BY <2>1, <3>2
  <2>3. QED BY <2>2
<1>5. Sane(e)
  BY <1>1, <1>2, <1>3, <1>4 DEF Sane
<1>6. FlushTo(c, Flush, e)
  BY <1>1 DEF FlushTo, Flush
<1>7. QED BY <1>5, <1>6, ReachOne DEF StepTo

LEMMA MarkReach ==
  ASSUME NEW c, Sane(c), c.clean, c.log # <<>>, Sound(c.vol),
         \A s \in Slot : c.vol.live[s] => s \in c.fixed,
         NEW q \in Rams, q.ino = c.ram.ino,
         NEW e, e = Point(c.vol, <<>>, q, c.vol, {}, c.fixed, FALSE)
  PROVE  Sane(e) /\ Reach(c, <<Mark(q)>>, e)
<1>1. /\ e.vol = c.vol /\ e.log = <<>> /\ e.ram = q /\ e.base = c.vol /\ e.mask = {}
      /\ e.fixed = c.fixed /\ e.clean = FALSE
  BY DEF Point
<1>2. /\ c.vol \in Volume /\ <<>> \in Seq(RecSet) /\ c.fixed \subseteq Slot
      /\ \A f \in File, u \in c.fixed : Owns(c.ram.ino, f, u) => c.vol.start[u] = c.ram.ino[f].start
  BY DEF Sane
<1>3. Agree(c.vol, c.vol, {}) /\ Restores(<<>>, c.vol, {})
  BY <1>2, RestoresNone DEF Agree
<1>4. \A f \in File, u \in e.fixed : Owns(e.ram.ino, f, u) => e.vol.start[u] = e.ram.ino[f].start
  <2>1. e.vol = c.vol /\ e.fixed = c.fixed /\ e.ram.ino = c.ram.ino
    BY <1>1
  <2>2. ASSUME NEW f \in File, NEW u \in e.fixed, Owns(e.ram.ino, f, u)
        PROVE  e.vol.start[u] = e.ram.ino[f].start
    <3>1. u \in c.fixed /\ Owns(c.ram.ino, f, u)
      BY <2>1, <2>2
    <3>2. c.vol.start[u] = c.ram.ino[f].start
      BY <1>2, <3>1
    <3>3. QED BY <2>1, <3>2
  <2>3. QED BY <2>2
<1>5. \A s \in Slot : e.base.live[s] => s \in e.fixed
  BY <1>1
<1>6. e.clean \in BOOLEAN /\ ~e.clean
  BY <1>1
<1>7. Sane(e)
  BY <1>1, <1>2, <1>3, <1>4, <1>5, <1>6 DEF Sane
<1>8. MarkTo(c, Mark(q), e)
  BY <1>1 DEF MarkTo, Mark
<1>9. QED BY <1>7, <1>8, ReachOne DEF StepTo

LEMMA RamReach ==
  ASSUME NEW c, Sane(c), NEW q \in Rams, NEW x \in SUBSET c.fixed,
         \A s \in Slot : c.base.live[s] /\ <<"start", s>> \notin c.mask => s \in x,
         \A f \in File, s \in x : Owns(q.ino, f, s) => c.vol.start[s] = q.ino[f].start,
         NEW e, e = Point(c.vol, c.log, q, c.base, c.mask, x, FALSE)
  PROVE  Sane(e) /\ Reach(c, <<Ram(q)>>, e)
<1>1. /\ e.vol = c.vol /\ e.log = c.log /\ e.ram = q /\ e.base = c.base /\ e.mask = c.mask
      /\ e.fixed = x /\ e.clean = FALSE
  BY DEF Point
<1>2. /\ c.vol \in Volume /\ c.base \in Volume /\ c.log \in Seq(RecSet)
      /\ c.fixed \subseteq Slot
      /\ Agree(c.vol, c.base, c.mask) /\ Restores(c.log, c.base, c.mask) /\ Sound(c.base)
  BY DEF Sane
<1>3. Sane(e)
  BY <1>1, <1>2 DEF Sane
<1>4. RamTo(c, Ram(q), e)
  BY <1>1 DEF RamTo, Ram
<1>5. QED BY <1>3, <1>4, ReachOne DEF StepTo

\* The entries whose start cluster the steps t write.
Starts(t) == {s \in Slot : <<"start", s>> \in SpotsOf(t)}
\* The point behind steps that change the volume alone.
Edited(c, t) == Point(ApplyAll(c.vol, t), c.log, c.ram, c.base, c.mask, c.fixed \cup Starts(t), FALSE)
\* A step may write the start cluster of an inode to its entry, or any cluster to
\* an entry that no inode owns.
Suits(c, s) == s.op = "start" => \A f \in File : Owns(c.ram.ino, f, s.at) => c.ram.ino[f].start = s.val

LEMMA BeginNext ==
  ASSUME NEW S, NEW t \in Seq(S), NEW n \in 1..Len(t)
  PROVE  /\ Begin(t, n - 1) \in Seq(S) /\ <<t[n]>> \in Seq(S) /\ t[n] \in S
         /\ Begin(t, n) = Begin(t, n - 1) \o <<t[n]>>
         /\ n = 1 => Begin(t, n - 1) = <<>>
<1> DEFINE a == Begin(t, n - 1)
           b == Begin(t, n)
           w == a \o <<t[n]>>
<1>1. n - 1 \in 0..Len(t) /\ n \in 0..Len(t) /\ t[n] \in S /\ <<t[n]>> \in Seq(S) /\ n \in Nat
  OBVIOUS
<1>2. /\ a \in Seq(S) /\ Len(a) = n - 1 /\ \A i \in 1..(n - 1) : a[i] = t[i]
      /\ b \in Seq(S) /\ Len(b) = n /\ \A i \in 1..n : b[i] = t[i]
  BY <1>1, BeginIs
<1> HIDE DEF a, b
<1>3. w \in Seq(S) /\ Len(w) = n
  BY <1>1, <1>2
<1>4. \A i \in 1..n : w[i] = t[i]
  BY <1>1, <1>2
<1> HIDE DEF w
<1>5. b = w
  BY <1>2, <1>3, <1>4, SeqEqual
<1>6. n = 1 => a = <<>>
  BY <1>1, <1>2
<1>7. QED BY <1>1, <1>2, <1>5, <1>6 DEF a, b, w

LEMMA EditedPoint ==
  ASSUME NEW c, NEW t
  PROVE  /\ Edited(c, t).vol = ApplyAll(c.vol, t) /\ Edited(c, t).log = c.log
         /\ Edited(c, t).ram = c.ram /\ Edited(c, t).base = c.base /\ Edited(c, t).mask = c.mask
         /\ Edited(c, t).fixed = c.fixed \cup Starts(t) /\ Edited(c, t).clean = FALSE
BY DEF Edited, Point

\* A point that is as far as the steps a.
EditedBy(c, a, o) ==
  /\ o.vol = ApplyAll(c.vol, a) /\ o.log = c.log /\ o.ram = c.ram /\ o.base = c.base /\ o.mask = c.mask
  /\ o.fixed = c.fixed \cup Starts(a)
  /\ Sane(o) /\ Reach(c, a, o)

LEMMA EditedNone ==
  ASSUME NEW c, Sane(c)
  PROVE  EditedBy(c, <<>>, c)
<1>1. c.vol \in Volume
  BY DEF Sane
<1>2. Starts(<<>>) = {}
  BY SpotsNone DEF Starts
<1>3. c.vol = ApplyAll(c.vol, <<>>)
  BY <1>1, ApplyNone
<1>4. c.fixed = c.fixed \cup Starts(<<>>)
  BY <1>2
<1>5. QED BY <1>3, <1>4, ReachNone DEF EditedBy

LEMMA EditedNext ==
  ASSUME NEW c, Sane(c), NEW a \in Seq(Edits), NEW s \in Edits, NEW b, b = a \o <<s>>,
         NEW o, EditedBy(c, a, o), Lets(c, s), Suits(c, s)
  PROVE  EditedBy(c, b, Edited(c, b))
<1> DEFINE e == Edited(c, b)
<1>1. <<s>> \in Seq(Edits) /\ a \in Seq(StepSet) /\ <<s>> \in Seq(StepSet) /\ s \in StepSet
  BY EditsAreSteps
<1>2. c.vol \in Volume
  BY DEF Sane
<1>3. /\ o.vol = ApplyAll(c.vol, a) /\ o.log = c.log /\ o.ram = c.ram /\ o.base = c.base /\ o.mask = c.mask
      /\ o.fixed = c.fixed \cup Starts(a) /\ Sane(o) /\ Reach(c, a, o)
  BY DEF EditedBy
<1>4. /\ e.vol = ApplyAll(c.vol, b) /\ e.log = c.log /\ e.ram = c.ram /\ e.base = c.base /\ e.mask = c.mask
      /\ e.fixed = c.fixed \cup Starts(b) /\ e.clean = FALSE
  BY EditedPoint
<1>5. e.vol = Apply(o.vol, s)
  <2>1. ApplyAll(c.vol, b) = ApplyAll(ApplyAll(c.vol, a), <<s>>) /\ ApplyAll(c.vol, a) \in Volume
    BY <1>1, <1>2, ApplyConcat, ApplyAllType
  <2>2. ApplyAll(ApplyAll(c.vol, a), <<s>>) = Apply(ApplyAll(c.vol, a), s)
    BY <1>1, <2>1, ApplyOne
  <2>3. QED BY <1>3, <1>4, <2>1, <2>2
<1> HIDE DEF e
<1>6. Starts(b) = IF s.op = "start" THEN Starts(a) \cup {s.at} ELSE Starts(a)
  <2>1. SpotsOf(b) = SpotsOf(a) \cup {Spot(s)}
    <3>1. SpotsOf(a \o <<s>>) = SpotsOf(a) \cup SpotsOf(<<s>>)
      BY <1>1, SpotsConcat
    <3>2. SpotsOf(<<s>>) = {Spot(s)}
      BY SpotsOne
    <3>3. QED BY <3>1, <3>2
  <2>2. s.op = "start" => s.at \in Slot
    BY DEF Edits, StartSteps, FatSteps, LiveSteps
  <2>3. QED BY <2>1, <2>2 DEF Starts, Spot
<1>7. EditTo(o, s, e)
  <2>1. e.fixed = IF s.op = "start" THEN o.fixed \cup {s.at} ELSE o.fixed
    BY <1>3, <1>4, <1>6
  <2>2. QED BY <1>3, <1>4, <1>5, <2>1 DEF EditTo
<1>8. Lets(o, s) /\ (s.op = "start" => \A f \in File : Owns(o.ram.ino, f, s.at) => o.ram.ino[f].start = s.val)
  BY <1>3 DEF Lets, Suits
<1>9. Sane(e) /\ Reach(o, <<s>>, e)
  BY <1>3, <1>7, <1>8, EditReach
<1>10. Reach(c, b, e)
  BY <1>1, <1>3, <1>9, ReachConcat
<1>11. QED BY <1>4, <1>9, <1>10 DEF EditedBy, e

LEMMA EditsReach ==
  ASSUME NEW c, Sane(c), NEW t \in Seq(Edits), t # <<>>,
         \A i \in 1..Len(t) : Lets(c, t[i]) /\ Suits(c, t[i])
  PROVE  Sane(Edited(c, t)) /\ Reach(c, t, Edited(c, t))
<1> DEFINE N == Len(t)
           S == {n \in 0..N : IF n = 0 THEN EditedBy(c, <<>>, c)
                              ELSE EditedBy(c, Begin(t, n), Edited(c, Begin(t, n)))}
<1>1. N \in Nat /\ N # 0
  OBVIOUS
<1>2. 0 \in S
  BY <1>1, EditedNone
<1>3. ASSUME NEW n \in 1..N, n - 1 \in S PROVE n \in S
  <2> DEFINE a == Begin(t, n - 1)
             b == Begin(t, n)
             s == t[n]
  <2>1. /\ a \in Seq(Edits) /\ s \in Edits /\ b = a \o <<s>> /\ (n = 1 => a = <<>>)
        /\ Lets(c, s) /\ Suits(c, s)
    BY BeginNext
  <2>2. \E o : EditedBy(c, a, o)
    BY <1>3, <2>1
  <2> HIDE DEF a, b, s
  <2>3. EditedBy(c, b, Edited(c, b))
    BY <2>1, <2>2, EditedNext
  <2>4. n \in 0..N /\ n # 0
    BY <1>1
  <2>5. QED BY <2>3, <2>4 DEF b
<1>4. \A n \in 0..N : n \in S
  <2> HIDE DEF S, N
  <2>1. QED BY <1>1, <1>2, <1>3, Reaches
<1>5. EditedBy(c, Begin(t, N), Edited(c, Begin(t, N)))
  <2>1. N \in 0..N
    BY <1>1
  <2>2. QED BY <1>1, <1>4, <2>1
<1>6. Begin(t, N) = t
  BY BeginAll
<1>7. QED BY <1>5, <1>6 DEF EditedBy

LEMMA ApplyFields ==
  ASSUME NEW v \in Volume
  PROVE  /\ \A c \in FatIndex : \A x : /\ Apply(v, Fat(c, x)).fat = [v.fat EXCEPT ![c] = x]
                                   /\ Apply(v, Fat(c, x)).live = v.live
                                   /\ Apply(v, Fat(c, x)).start = v.start
         /\ \A s \in Slot : \A x : /\ Apply(v, Start(s, x)).start = [v.start EXCEPT ![s] = x]
                               /\ Apply(v, Start(s, x)).live = v.live
                               /\ Apply(v, Start(s, x)).fat = v.fat
         /\ \A s \in Slot : \A x : /\ Apply(v, Live(s, x)).live = [v.live EXCEPT ![s] = x]
                               /\ Apply(v, Live(s, x)).start = v.start
                               /\ Apply(v, Live(s, x)).fat = v.fat
BY DEF Volume, Apply, Fat, Start, Live

LEMMA VolumeFields ==
  ASSUME NEW v \in Volume
  PROVE  /\ v.fat \in FatMap /\ v.live \in [Slot -> BOOLEAN]
         /\ v.start \in [Slot -> Cluster \cup {TAIL}]
BY DEF Volume, FatMap, FatVal, FatIndex

\* What a step may write.
LEMMA LetsBy ==
  ASSUME NEW c
  PROVE  /\ \A i \in FatIndex : \A x : Lets(c, Fat(i, x)) <=> <<"fat", i>> \in c.mask \/ x = c.base.fat[i]
         /\ \A s \in Slot : \A x : Lets(c, Live(s, x)) <=> <<"live", s>> \in c.mask \/ x = c.base.live[s]
         /\ \A s \in Slot : \A x : Lets(c, Start(s, x)) <=>
              <<"start", s>> \in c.mask \/ ~c.base.live[s] \/ x = c.base.start[s]
<1>1. ASSUME NEW i \in FatIndex, NEW x
      PROVE  Lets(c, Fat(i, x)) <=> <<"fat", i>> \in c.mask \/ x = c.base.fat[i]
  BY SpotIs, SpotIntro, HeldIs DEF Lets
<1>2. ASSUME NEW s \in Slot, NEW x
      PROVE  Lets(c, Live(s, x)) <=> <<"live", s>> \in c.mask \/ x = c.base.live[s]
  BY SpotIs, SpotIntro, HeldIs DEF Lets
<1>3. ASSUME NEW s \in Slot, NEW x
      PROVE  Lets(c, Start(s, x)) <=>
               <<"start", s>> \in c.mask \/ ~c.base.live[s] \/ x = c.base.start[s]
  BY SpotIs, SpotIntro, HeldIs DEF Lets
<1>4. QED BY <1>1, <1>2, <1>3

\* All steps of t may be taken from c on.
Puts(c, t) == \A i \in 1..Len(t) : Lets(c, t[i])
AllSuit(c, t) == \A i \in 1..Len(t) : Suits(c, t[i])

LEMMA PutsParts ==
  ASSUME NEW c
  PROVE  /\ Puts(c, <<>>) /\ AllSuit(c, <<>>)
         /\ \A s : (Puts(c, <<s>>) <=> Lets(c, s)) /\ (AllSuit(c, <<s>>) <=> Suits(c, s))
         /\ \A s, u : (Puts(c, <<s, u>>) <=> Lets(c, s) /\ Lets(c, u))
                      /\ (AllSuit(c, <<s, u>>) <=> Suits(c, s) /\ Suits(c, u))
<1>1. Puts(c, <<>>) /\ AllSuit(c, <<>>)
  BY DEF Puts, AllSuit
<1>2. ASSUME NEW s
      PROVE  (Puts(c, <<s>>) <=> Lets(c, s)) /\ (AllSuit(c, <<s>>) <=> Suits(c, s))
  BY DEF Puts, AllSuit
<1>3. ASSUME NEW s, NEW u
      PROVE  (Puts(c, <<s, u>>) <=> Lets(c, s) /\ Lets(c, u))
             /\ (AllSuit(c, <<s, u>>) <=> Suits(c, s) /\ Suits(c, u))
  <2>1. Len(<<s, u>>) = 2 /\ <<s, u>>[1] = s /\ <<s, u>>[2] = u
    OBVIOUS
  <2>2. 1..2 = {1, 2}
    OBVIOUS
  <2>3. QED BY <2>1, <2>2 DEF Puts, AllSuit
<1>4. QED BY <1>1, <1>2, <1>3

LEMMA PutsConcat ==
  ASSUME NEW c, NEW S, NEW a \in Seq(S), NEW b \in Seq(S)
  PROVE  /\ Puts(c, a \o b) <=> Puts(c, a) /\ Puts(c, b)
         /\ AllSuit(c, a \o b) <=> AllSuit(c, a) /\ AllSuit(c, b)
<1> DEFINE w == a \o b
<1>1. /\ Len(w) = Len(a) + Len(b) /\ Len(a) \in Nat /\ Len(b) \in Nat
      /\ \A i \in 1..Len(w) : w[i] = IF i <= Len(a) THEN a[i] ELSE b[i - Len(a)]
  OBVIOUS
<1> HIDE DEF w
<1>2. \A i \in 1..Len(a) : i \in 1..Len(w) /\ w[i] = a[i]
  BY <1>1
<1>3. \A i \in 1..Len(b) : i + Len(a) \in 1..Len(w) /\ w[i + Len(a)] = b[i]
  BY <1>1
<1>4. \A i \in 1..Len(w) : (i \in 1..Len(a) /\ w[i] = a[i]) \/ (i - Len(a) \in 1..Len(b) /\ w[i] = b[i - Len(a)])
  BY <1>1
<1>5. Puts(c, w) <=> Puts(c, a) /\ Puts(c, b)
  <2>1. ASSUME Puts(c, w) PROVE Puts(c, a) /\ Puts(c, b)
    <3>1. ASSUME NEW i \in 1..Len(b) PROVE Lets(c, b[i])
      <4>1. Lets(c, w[i + Len(a)])
        BY <1>3, <2>1 DEF Puts
      <4>2. QED BY <1>3, <4>1
    <3>2. QED BY <1>2, <2>1, <3>1 DEF Puts
  <2>2. ASSUME Puts(c, a), Puts(c, b) PROVE Puts(c, w)
    BY <1>4, <2>2 DEF Puts
  <2>3. QED BY <2>1, <2>2
<1>6. AllSuit(c, w) <=> AllSuit(c, a) /\ AllSuit(c, b)
  <2>1. ASSUME AllSuit(c, w) PROVE AllSuit(c, a) /\ AllSuit(c, b)
    <3>1. ASSUME NEW i \in 1..Len(b) PROVE Suits(c, b[i])
      <4>1. Suits(c, w[i + Len(a)])
        BY <1>3, <2>1 DEF AllSuit
      <4>2. QED BY <1>3, <4>1
    <3>2. QED BY <1>2, <2>1, <3>1 DEF AllSuit
  <2>2. ASSUME AllSuit(c, a), AllSuit(c, b) PROVE AllSuit(c, w)
    BY <1>4, <2>2 DEF AllSuit
  <2>3. QED BY <2>1, <2>2
<1>7. QED BY <1>5, <1>6 DEF w

LEMMA SuitsBy ==
  ASSUME NEW c
  PROVE  /\ \A i, x : Suits(c, Fat(i, x)) /\ Suits(c, Live(i, x))
         /\ \A s, x : Suits(c, Start(s, x)) <=>
              \A f \in File : Owns(c.ram.ino, f, s) => c.ram.ino[f].start = x
BY DEF Suits, Fat, Live, Start

\* Freeing clusters.
LEMMA PutsFrees ==
  ASSUME NEW c, NEW cs \in Seq(Cluster),
         \A x \in ToSet(cs) : <<"fat", x>> \in c.mask \/ c.base.fat[x] = FREE
  PROVE  Puts(c, Frees(cs)) /\ AllSuit(c, Frees(cs))
<1>1. Len(cs) \in Nat /\ Len(Frees(cs)) = Len(cs) /\ \A i \in 1..Len(cs) : Frees(cs)[i] = Fat(cs[i], FREE)
  BY FreesType DEF Frees
<1>2. ASSUME NEW i \in 1..Len(cs) PROVE Lets(c, Fat(cs[i], FREE)) /\ Suits(c, Fat(cs[i], FREE))
  <2>1. cs[i] \in ToSet(cs) /\ cs[i] \in FatIndex
    BY SetIs DEF FatIndex
  <2>2. QED BY <2>1, LetsBy, SuitsBy
<1>3. QED BY <1>1, <1>2 DEF Puts, AllSuit

\* What each record is undone to.
LEMMA UndoIs ==
  /\ \A s : Undo(BuildRec(s)) = <<Live(s, FALSE)>> /\ Undo(RemoveRec(s)) = <<Live(s, TRUE)>>
  /\ \A p, x, y : Undo(MoveRec(None, p, x, y)) = <<Fat(y, TAIL), Fat(p, TAIL)>>
  /\ \A s \in Slot : \A p, x, y :
       Undo(MoveRec(s, p, x, y)) = <<Start(s, x)>> \o <<Fat(y, TAIL), Fat(p, TAIL)>>
  /\ \A s, p, x, cs : p # TAIL => Undo(AllocRec(s, p, x, cs)) = <<Fat(p, x)>> \o Frees(cs)
  /\ \A x, cs : Undo(AllocRec(None, TAIL, x, cs)) = <<>> \o Frees(cs)
  /\ \A s \in Slot : \A x, cs : Undo(AllocRec(s, TAIL, x, cs)) = <<Start(s, TAIL)>> \o Frees(cs)
<1>1. \A s : Undo(BuildRec(s)) = <<Live(s, FALSE)>> /\ Undo(RemoveRec(s)) = <<Live(s, TRUE)>>
  BY DEF Undo, BuildRec, RemoveRec
<1>2. None \notin Slot
  BY ConstantFacts
<1>3. ASSUME NEW p, NEW x, NEW y
      PROVE  Undo(MoveRec(None, p, x, y)) = <<>> \o <<Fat(y, TAIL), Fat(p, TAIL)>>
  BY DEF Undo, MoveRec, UndoMove, If
<1>4. ASSUME NEW s \in Slot, NEW p, NEW x, NEW y
      PROVE  Undo(MoveRec(s, p, x, y)) = <<Start(s, x)>> \o <<Fat(y, TAIL), Fat(p, TAIL)>>
  BY <1>2 DEF Undo, MoveRec, UndoMove, If
<1>5. ASSUME NEW s, NEW p, NEW x, NEW cs, p # TAIL
      PROVE  Undo(AllocRec(s, p, x, cs)) = <<Fat(p, x)>> \o Frees(cs)
  BY <1>5 DEF Undo, AllocRec, UndoAlloc
<1>6. ASSUME NEW x, NEW cs
      PROVE  Undo(AllocRec(None, TAIL, x, cs)) = <<>> \o Frees(cs)
  BY DEF Undo, AllocRec, UndoAlloc, If
<1>7. ASSUME NEW s \in Slot, NEW x, NEW cs
      PROVE  Undo(AllocRec(s, TAIL, x, cs)) = <<Start(s, TAIL)>> \o Frees(cs)
  BY <1>2 DEF Undo, AllocRec, UndoAlloc, If
<1>8. \A p, y : <<>> \o <<Fat(y, TAIL), Fat(p, TAIL)>> = <<Fat(y, TAIL), Fat(p, TAIL)>>
  OBVIOUS
<1>9. QED BY <1>1, <1>3, <1>4, <1>5, <1>6, <1>7, <1>8

-----------------------------------------------------------------------------
(***************************************************************************)
(* Volumes between two operations.                                         *)
(***************************************************************************)
\* The inodes in r have the chains K, which make up the volume but for the start
\* clusters of the entries; those of the unlinked inodes hang behind the log file.
Shape(v, r, K) ==
  /\ K \in [File -> Seq(Cluster)] /\ Distinct(r.ino)
  /\ \A s \in Slot : v.live[s] <=> \E f \in File : Owns(r.ino, f, s)
  /\ \A f \in File : /\ Once(K[f]) /\ r.ino[f].start = HeadOr(K[f], TAIL)
                     /\ K[f] # <<>> => r.ino[f].last = K[f][Len(K[f])]
                     /\ r.ino[f].st = "none" => K[f] = <<>>
                     /\ r.ino[f].st = "alloc" => Trail(v.fat, K[f], TAIL)
  /\ v.fat[Log] = SegNext(r, 0)
  /\ \A k \in 1..Len(r.segs) : Trail(v.fat, K[r.segs[k]], SegNext(r, k))
  /\ \A f, g \in File : f # g => ToSet(K[f]) \cap ToSet(K[g]) = {}
  /\ \A c \in Cluster : v.fat[c] # FREE => \E f \in File : c \in ToSet(K[f])
Hanging(r, K) == [k \in 1..Len(r.segs) |-> K[r.segs[k]]]
\* The owner of an entry.
Owner(ino, s) == CHOOSE f \in File : Owns(ino, f, s)
ChainsBy(r, K) == [x \in Slot \cup {None} |->
  IF x = None THEN FlattenSeq(Hanging(r, K))
  ELSE IF \E f \in File : Owns(r.ino, f, x) THEN K[Owner(r.ino, x)] ELSE <<>>]

LEMMA SegFacts ==
  ASSUME NEW r \in Rams
  PROVE  /\ r.segs \in Seq(File) /\ Len(r.segs) \in Nat
         /\ \A k \in 1..Len(r.segs) : /\ r.segs[k] \in File /\ r.ino[r.segs[k]].st = "free"
                                      /\ r.ino[r.segs[k]].start # TAIL
         /\ \A j, k \in 1..Len(r.segs) : r.segs[j] = r.segs[k] => j = k
         /\ \A f \in File : r.ino[f].st = "free" /\ r.ino[f].start # TAIL =>
              \E k \in 1..Len(r.segs) : r.segs[k] = f
<1>1. /\ r.segs \in Seq(File) /\ IsInjective(r.segs) /\ ToSet(r.segs) = Hung(r.ino)
  BY RamFields
<1>2. /\ Len(r.segs) \in Nat /\ DOMAIN r.segs = 1..Len(r.segs)
      /\ \A k \in 1..Len(r.segs) : r.segs[k] \in File
  BY <1>1
<1>3. \A k \in 1..Len(r.segs) : r.segs[k] \in Hung(r.ino)
  BY <1>1, <1>2, SetIs
<1>4. \A f \in Hung(r.ino) : \E k \in 1..Len(r.segs) : r.segs[k] = f
  BY <1>1, SetIs
<1>5. \A j, k \in 1..Len(r.segs) : r.segs[j] = r.segs[k] => j = k
  BY <1>1, <1>2 DEF IsInjective
<1>6. QED BY <1>1, <1>2, <1>3, <1>4, <1>5 DEF Hung

\* The chains of the unlinked inodes make one chain behind the log file.
LEMMA HangingJoined ==
  ASSUME NEW v, NEW r \in Rams, NEW K, Shape(v, r, K), NEW h, h = Hanging(r, K)
  PROVE  /\ h \in Seq(Seq(Cluster)) /\ Len(h) = Len(r.segs)
         /\ \A k \in 1..Len(r.segs) : h[k] = K[r.segs[k]]
         /\ Joined(v.fat, h, TAIL)
         /\ v.fat[Log] = IF h = <<>> THEN TAIL ELSE h[1][1]
<1> DEFINE N == Len(r.segs)
<1>1. /\ N \in Nat /\ \A k \in 1..N : r.segs[k] \in File /\ r.ino[r.segs[k]].start # TAIL
      /\ \A j, k \in 1..N : r.segs[j] = r.segs[k] => j = k
  BY SegFacts
<1>2. /\ K \in [File -> Seq(Cluster)]
      /\ \A f \in File : Once(K[f]) /\ r.ino[f].start = HeadOr(K[f], TAIL)
      /\ v.fat[Log] = SegNext(r, 0)
      /\ \A k \in 1..N : Trail(v.fat, K[r.segs[k]], SegNext(r, k))
      /\ \A f, g \in File : f # g => ToSet(K[f]) \cap ToSet(K[g]) = {}
  BY DEF Shape
<1>3. h \in Seq(Seq(Cluster)) /\ Len(h) = N /\ \A k \in 1..N : h[k] = K[r.segs[k]]
  BY <1>1, <1>2 DEF Hanging
<1> HIDE DEF N
<1>4. \A k \in 1..N : h[k] # <<>> /\ Once(h[k]) /\ h[k][1] = r.ino[r.segs[k]].start
  <2>1. ASSUME NEW k \in 1..N PROVE h[k] # <<>> /\ Once(h[k]) /\ h[k][1] = r.ino[r.segs[k]].start
    <3>1. r.segs[k] \in File /\ r.ino[r.segs[k]].start # TAIL /\ h[k] = K[r.segs[k]]
      BY <1>1, <1>3
    <3>2. Once(K[r.segs[k]]) /\ r.ino[r.segs[k]].start = HeadOr(K[r.segs[k]], TAIL)
      BY <1>2, <3>1
    <3>3. QED BY <3>1, <3>2 DEF HeadOr
  <2>2. QED BY <2>1
<1>5. ASSUME NEW j \in 1..N, NEW k \in 1..N
      PROVE  /\ j = k + 1 => Trail(v.fat, h[k], h[j][1])
             /\ j # k => ToSet(h[j]) \cap ToSet(h[k]) = {}
  <2>1. ASSUME j = k + 1 PROVE Trail(v.fat, h[k], h[j][1])
    <3>1. SegNext(r, k) = r.ino[r.segs[k + 1]].start
      BY <1>1, <2>1 DEF SegNext, SegStart, N
    <3>2. h[j][1] = r.ino[r.segs[j]].start /\ h[k] = K[r.segs[k]]
      BY <1>3, <1>4
    <3>3. Trail(v.fat, K[r.segs[k]], SegNext(r, k))
      BY <1>2
    <3>4. QED BY <2>1, <3>1, <3>2, <3>3
  <2>2. ASSUME j # k PROVE ToSet(h[j]) \cap ToSet(h[k]) = {}
    <3>1. r.segs[j] \in File /\ r.segs[k] \in File /\ r.segs[j] # r.segs[k]
      BY <1>1, <2>2
    <3>2. QED BY <1>2, <1>3, <3>1
  <2>3. QED BY <2>1, <2>2
<1>6. h # <<>> => Trail(v.fat, h[Len(h)], TAIL)
  <2>1. ASSUME h # <<>> PROVE Trail(v.fat, h[N], TAIL)
    <3>1. N \in 1..N
      BY <1>1, <1>3, <2>1
    <3>2. SegNext(r, N) = TAIL
      BY <1>1 DEF SegNext, N
    <3>3. QED BY <1>2, <1>3, <3>1, <3>2
  <2>2. QED BY <1>3, <2>1
<1>7. v.fat[Log] = IF h = <<>> THEN TAIL ELSE h[1][1]
  <2>1. CASE h = <<>>
    BY <1>1, <1>2, <1>3, <2>1 DEF SegNext, N
  <2>2. CASE h # <<>>
    <3>1. 1 \in 1..N /\ 0 < N
      BY <1>1, <1>3, <2>2
    <3>2. SegNext(r, 0) = r.ino[r.segs[1]].start
      BY <3>1 DEF SegNext, SegStart, N
    <3>3. QED BY <1>2, <1>4, <2>2, <3>1, <3>2
  <2>3. QED BY <2>1, <2>2
<1>8. Joined(v.fat, h, TAIL)
  BY <1>3, <1>4, <1>5, <1>6 DEF Joined
<1>9. QED BY <1>3, <1>7, <1>8 DEF N

LEMMA OwnerIs ==
  ASSUME NEW ino, Distinct(ino), NEW f \in File, NEW s \in Slot, Owns(ino, f, s)
  PROVE  Owner(ino, s) = f
<1>1. Owner(ino, s) \in File /\ Owns(ino, Owner(ino, s), s)
  BY DEF Owner
<1>2. QED BY <1>1 DEF Distinct

LEMMA ChainsByIs ==
  ASSUME NEW v, NEW r \in Rams, NEW K, Shape(v, r, K), NEW C, C = ChainsBy(r, K)
  PROVE  /\ C \in Chains
         /\ C[None] = FlattenSeq(Hanging(r, K))
         /\ \A f \in File, s \in Slot : Owns(r.ino, f, s) => C[s] = K[f]
         /\ \A s \in Slot : Free(r.ino, s) => C[s] = <<>>
         /\ Trail(v.fat, C[None], TAIL) /\ Once(C[None]) /\ v.fat[Log] = HeadOr(C[None], TAIL)
         /\ \A x : x \in ToSet(C[None]) <=> \E f \in File : r.ino[f].st = "free" /\ x \in ToSet(K[f])
<1> DEFINE h == Hanging(r, K)
<1>0. h = Hanging(r, K) /\ C[None] = FlattenSeq(h)
  BY DEF ChainsBy
<1> HIDE DEF h
<1>1. /\ h \in Seq(Seq(Cluster)) /\ Len(h) = Len(r.segs)
      /\ \A k \in 1..Len(r.segs) : h[k] = K[r.segs[k]]
      /\ Joined(v.fat, h, TAIL)
      /\ v.fat[Log] = IF h = <<>> THEN TAIL ELSE h[1][1]
  BY <1>0, HangingJoined
<1>2. None \notin Slot
  BY ConstantFacts
<1>3. K \in [File -> Seq(Cluster)] /\ Distinct(r.ino)
  BY DEF Shape
<1>5. ASSUME NEW f \in File, NEW s \in Slot, Owns(r.ino, f, s) PROVE C[s] = K[f]
  <2>1. Owner(r.ino, s) = f
    BY <1>3, <1>5, OwnerIs
  <2>2. QED BY <1>2, <1>5, <2>1 DEF ChainsBy
<1>6. ASSUME NEW s \in Slot, Free(r.ino, s) PROVE C[s] = <<>>
  BY <1>2, <1>6 DEF ChainsBy, Free
<1>7. /\ C[None] \in Seq(Cluster) /\ Trail(v.fat, C[None], TAIL) /\ Once(C[None])
      /\ \A x : x \in ToSet(C[None]) <=> \E k \in 1..Len(h) : x \in ToSet(h[k])
      /\ HeadOr(C[None], TAIL) = IF h = <<>> THEN TAIL ELSE h[1][1]
  BY <1>0, <1>1, FlattenTrail
<1>8. C \in Chains
  <2>1. ASSUME NEW s \in Slot PROVE C[s] \in Seq(Cluster)
    <3>1. CASE Free(r.ino, s)
      <4>1. <<>> \in Seq(Cluster)
        OBVIOUS
      <4>2. QED BY <1>6, <3>1, <4>1
    <3>2. CASE ~Free(r.ino, s)
      BY <1>3, <1>5, <3>2 DEF Free
    <3>3. QED BY <3>1, <3>2
  <2>2. DOMAIN C = Slot \cup {None} /\ C = [x \in DOMAIN C |-> C[x]]
    BY DEF ChainsBy
  <2>3. QED BY <1>7, <2>1, <2>2 DEF Chains
<1>9. ASSUME NEW x
      PROVE  x \in ToSet(C[None]) <=> \E f \in File : r.ino[f].st = "free" /\ x \in ToSet(K[f])
  <2>1. ASSUME NEW k \in 1..Len(h), x \in ToSet(h[k])
        PROVE  \E f \in File : r.ino[f].st = "free" /\ x \in ToSet(K[f])
    <3>1. k \in 1..Len(r.segs) /\ h[k] = K[r.segs[k]]
      BY <1>1
    <3>2. r.segs[k] \in File /\ r.ino[r.segs[k]].st = "free"
      BY <3>1, SegFacts
    <3>3. QED BY <2>1, <3>1, <3>2
  <2>2. ASSUME NEW f \in File, r.ino[f].st = "free", x \in ToSet(K[f])
        PROVE  \E k \in 1..Len(h) : x \in ToSet(h[k])
    <3>1. K[f] # <<>>
      BY <1>3, <2>2, SetIs
    <3>2. r.ino[f].start # TAIL
      <4>1. r.ino[f].start = HeadOr(K[f], TAIL) /\ K[f] \in Seq(Cluster)
        BY <1>3 DEF Shape
      <4>2. K[f][1] \in Cluster
        BY <3>1, <4>1
      <4>3. QED BY <3>1, <4>1, <4>2, ConstantFacts DEF HeadOr
    <3>3. PICK k \in 1..Len(r.segs) : r.segs[k] = f
      BY <2>2, <3>2, SegFacts
    <3>4. k \in 1..Len(h) /\ h[k] = K[f]
      BY <1>1, <3>3
    <3>5. QED BY <2>2, <3>4
  <2>3. QED BY <1>7, <2>1, <2>2
<1>10. QED BY <1>0, <1>1, <1>5, <1>6, <1>7, <1>8, <1>9

\* With the start clusters in place such a volume is sound.
LEMMA ShapeSound ==
  ASSUME NEW v, NEW r \in Rams, NEW K, Shape(v, r, K),
         \A f \in File, s \in Slot : Owns(r.ino, f, s) => v.start[s] = r.ino[f].start
  PROVE  SoundBy(v, ChainsBy(r, K)) /\ Sound(v)
<1> DEFINE C == ChainsBy(r, K)
<1>1. /\ C \in Chains
      /\ \A f \in File, s \in Slot : Owns(r.ino, f, s) => C[s] = K[f]
      /\ \A s \in Slot : Free(r.ino, s) => C[s] = <<>>
      /\ Trail(v.fat, C[None], TAIL) /\ Once(C[None]) /\ v.fat[Log] = HeadOr(C[None], TAIL)
      /\ \A x : x \in ToSet(C[None]) <=> \E f \in File : r.ino[f].st = "free" /\ x \in ToSet(K[f])
  BY ChainsByIs
<1>2. /\ K \in [File -> Seq(Cluster)] /\ Distinct(r.ino)
      /\ \A s \in Slot : v.live[s] <=> \E f \in File : Owns(r.ino, f, s)
      /\ \A f \in File : /\ Once(K[f]) /\ r.ino[f].start = HeadOr(K[f], TAIL)
                         /\ r.ino[f].st = "none" => K[f] = <<>>
                         /\ r.ino[f].st = "alloc" => Trail(v.fat, K[f], TAIL)
      /\ \A f, g \in File : f # g => ToSet(K[f]) \cap ToSet(K[g]) = {}
      /\ \A c \in Cluster : v.fat[c] # FREE => \E f \in File : c \in ToSet(K[f])
  BY DEF Shape
<1> HIDE DEF C
<1>3. ASSUME NEW s \in Slot
      PROVE  /\ IF v.live[s] THEN v.start[s] = HeadOr(C[s], TAIL) ELSE C[s] = <<>>
             /\ Trail(v.fat, C[s], TAIL) /\ Once(C[s])
             /\ ToSet(C[s]) \cap ToSet(C[None]) = {}
  <2>1. CASE Free(r.ino, s)
    <3>1. C[s] = <<>> /\ ~v.live[s]
      BY <1>1, <1>2, <2>1 DEF Free
    <3>2. QED BY <3>1, TrailNone
  <2>2. ASSUME NEW f \in File, Owns(r.ino, f, s)
        PROVE  /\ IF v.live[s] THEN v.start[s] = HeadOr(C[s], TAIL) ELSE C[s] = <<>>
               /\ Trail(v.fat, C[s], TAIL) /\ Once(C[s])
               /\ ToSet(C[s]) \cap ToSet(C[None]) = {}
    <3>1. C[s] = K[f] /\ v.live[s] /\ v.start[s] = r.ino[f].start
      BY <1>1, <1>2, <2>2
    <3>2. Once(K[f]) /\ r.ino[f].start = HeadOr(K[f], TAIL) /\ Trail(v.fat, K[f], TAIL)
      BY <1>2, <2>2 DEF Owns
    <3>3. ASSUME NEW x \in ToSet(C[s]) PROVE x \notin ToSet(C[None])
      <4>1. \A g \in File : r.ino[g].st = "free" => g # f
        BY <2>2 DEF Owns
      <4>2. QED BY <1>1, <1>2, <3>1, <3>3, <4>1
    <3>4. QED BY <3>1, <3>2, <3>3
  <2>3. QED BY <2>1, <2>2 DEF Free
<1>4. ASSUME NEW s \in Slot, NEW t \in Slot, s # t PROVE ToSet(C[s]) \cap ToSet(C[t]) = {}
  <2>1. CASE Free(r.ino, s) \/ Free(r.ino, t)
    <3>1. C[s] = <<>> \/ C[t] = <<>>
      BY <1>1, <2>1
    <3>2. ToSet(<<>>) = {}
      BY TrailNone
    <3>3. QED BY <3>1, <3>2
  <2>2. CASE ~Free(r.ino, s) /\ ~Free(r.ino, t)
    <3>1. PICK f \in File : Owns(r.ino, f, s)
      BY <2>2 DEF Free
    <3>2. PICK g \in File : Owns(r.ino, g, t)
      BY <2>2 DEF Free
    <3>3. f # g
      BY <1>4, <3>1, <3>2 DEF Owns
    <3>4. C[s] = K[f] /\ C[t] = K[g]
      BY <1>1, <3>1, <3>2
    <3>5. QED BY <1>2, <3>3, <3>4
  <2>3. QED BY <2>1, <2>2
<1>5. ASSUME NEW c \in Cluster, v.fat[c] # FREE
      PROVE  \E x \in Slot \cup {None} : c \in ToSet(C[x])
  <2>1. PICK f \in File : c \in ToSet(K[f])
    BY <1>2, <1>5
  <2>2. r.ino[f].st # "none"
    BY <1>2, <2>1, TrailNone
  <2>3. r.ino[f] \in Inodes /\ InodeOK(r.ino[f])
    BY RamFields
  <2>4. CASE r.ino[f].st = "alloc"
    <3>1. r.ino[f].slot \in Slot /\ Owns(r.ino, f, r.ino[f].slot)
      BY <2>3, <2>4 DEF InodeOK, Owns
    <3>2. QED BY <1>1, <2>1, <3>1
  <2>5. CASE r.ino[f].st = "free"
    BY <1>1, <2>1, <2>5
  <2>6. QED BY <2>2, <2>3, <2>4, <2>5 DEF Inodes
<1>6. SoundBy(v, C)
  <2>1. \A x \in Slot \cup {None} : Trail(v.fat, C[x], TAIL) /\ Once(C[x])
    BY <1>1, <1>3
  <2>2. ASSUME NEW x \in Slot \cup {None}, NEW y \in Slot \cup {None}, x # y
        PROVE  ToSet(C[x]) \cap ToSet(C[y]) = {}
    <3>1. CASE x \in Slot /\ y \in Slot
      BY <1>4, <2>2, <3>1
    <3>2. CASE x = None
      <4>1. y \in Slot
        BY <2>2, <3>2
      <4>2. QED BY <1>3, <3>2, <4>1
    <3>3. CASE y = None
      <4>1. x \in Slot
        BY <2>2, <3>3
      <4>2. QED BY <1>3, <3>3, <4>1
    <3>4. QED BY <3>1, <3>2, <3>3
  <2>3. QED BY <1>1, <1>3, <1>5, <2>1, <2>2 DEF SoundBy
<1>7. QED BY <1>1, <1>6 DEF Sound, C

LEMMA ShapeSame ==
  ASSUME NEW v, NEW r, NEW K, Shape(v, r, K),
         NEW w, w.fat = v.fat, w.live = v.live, NEW q, q.ino = r.ino, q.segs = r.segs
  PROVE  Shape(w, q, K)
BY DEF Shape, SegNext, SegStart

-----------------------------------------------------------------------------
(***************************************************************************)
(* A record with the changes it covers, and the end of a transaction.      *)
(***************************************************************************)
Logged(c, r) ==
  Point(c.vol, Append(c.log, r), c.ram, c.base, c.mask \cup SpotsOf(Undo(r)), c.fixed, FALSE)

LEMMA LoggedPoint ==
  ASSUME NEW c, NEW r
  PROVE  /\ Logged(c, r).vol = c.vol /\ Logged(c, r).log = Append(c.log, r)
         /\ Logged(c, r).ram = c.ram /\ Logged(c, r).base = c.base
         /\ Logged(c, r).mask = c.mask \cup SpotsOf(Undo(r))
         /\ Logged(c, r).fixed = c.fixed /\ Logged(c, r).clean = FALSE
BY DEF Logged, Point

LEMMA RecordReach ==
  ASSUME NEW c, Sane(c), NEW r \in RecSet, r.kind \notin {"dealloc", "mrc"}, Puts(c, Undo(r)),
         NEW d, d = Logged(c, r), NEW t \in Seq(Edits), t # <<>>, Puts(d, t), AllSuit(d, t)
  PROVE  /\ Sane(Edited(d, t)) /\ Reach(c, <<Rec(r)>> \o t, Edited(d, t))
<1>1. Undoes(c, r)
  <2> DEFINE u == Undo(r)
  <2>1. Puts(c, u)
    OBVIOUS
  <2> HIDE DEF u
  <2>2. \A i \in 1..Len(u) : Spot(u[i]) \in Held(c.base) \ c.mask => u[i].val = At(c.base, Spot(u[i]))
    BY <2>1 DEF Puts, Lets
  <2>3. QED BY <2>2 DEF Undoes, u
<1>2. Sane(d) /\ Reach(c, <<Rec(r)>>, d)
  BY <1>1, UndoReach DEF Logged
<1>3. Sane(Edited(d, t)) /\ Reach(d, t, Edited(d, t))
  <2>1. \A i \in 1..Len(t) : Lets(d, t[i]) /\ Suits(d, t[i])
    BY DEF Puts, AllSuit
  <2>2. QED BY <1>2, <2>1, EditsReach
<1>4. <<Rec(r)>> \in Seq(StepSet) /\ t \in Seq(StepSet)
  <2>1. Rec(r) \in StepSet
    BY StepTypes DEF StepSet, DataSteps
  <2>2. QED BY <2>1, EditsAreSteps
<1>5. QED BY <1>2, <1>3, <1>4, ReachConcat

\* A record whose change follows later.
LEMMA LoneReach ==
  ASSUME NEW c, Sane(c), NEW r \in RecSet, r.kind \notin {"dealloc", "mrc"}, Puts(c, Undo(r)),
         NEW d, d = Logged(c, r)
  PROVE  Sane(d) /\ Reach(c, <<Rec(r)>>, d)
<1>1. Undoes(c, r)
  <2> DEFINE u == Undo(r)
  <2>1. Puts(c, u)
    OBVIOUS
  <2> HIDE DEF u
  <2>2. \A i \in 1..Len(u) : Spot(u[i]) \in Held(c.base) \ c.mask => u[i].val = At(c.base, Spot(u[i]))
    BY <2>1 DEF Puts, Lets
  <2>3. QED BY <2>2 DEF Undoes, u
<1>2. QED BY <1>1, UndoReach DEF Logged

LEMMA TwoSplit ==
  ASSUME NEW S, NEW p \in S, NEW q \in S
  PROVE  <<p, q>> = <<p>> \o <<q>>
<1> DEFINE a == <<p, q>>
           b == <<p>> \o <<q>>
<1>1. a \in Seq(S) /\ Len(a) = 2 /\ a[1] = p /\ a[2] = q
  OBVIOUS
<1>2. b \in Seq(S) /\ Len(b) = 2
  OBVIOUS
<1>3. b[1] = p /\ b[2] = q
  OBVIOUS
<1> HIDE DEF a, b
<1>4. \A i \in 1..2 : a[i] = b[i]
  <2>1. 1..2 = {1, 2}
    OBVIOUS
  <2>2. QED BY <1>1, <1>3, <2>1
<1>5. a = b
  BY <1>1, <1>2, <1>4, SeqEqual
<1>6. QED BY <1>5 DEF a, b

LEMMA ApplyFat ==
  ASSUME NEW v \in Volume, NEW c \in FatIndex, NEW x
  PROVE  /\ Apply(v, Fat(c, x)).fat = [v.fat EXCEPT ![c] = x]
         /\ Apply(v, Fat(c, x)).live = v.live /\ Apply(v, Fat(c, x)).start = v.start
BY ApplyFields

LEMMA ApplyStart ==
  ASSUME NEW v \in Volume, NEW s \in Slot, NEW x
  PROVE  /\ Apply(v, Start(s, x)).start = [v.start EXCEPT ![s] = x]
         /\ Apply(v, Start(s, x)).live = v.live /\ Apply(v, Start(s, x)).fat = v.fat
BY ApplyFields

LEMMA ApplyLive ==
  ASSUME NEW v \in Volume, NEW s \in Slot, NEW x
  PROVE  /\ Apply(v, Live(s, x)).live = [v.live EXCEPT ![s] = x]
         /\ Apply(v, Live(s, x)).start = v.start /\ Apply(v, Live(s, x)).fat = v.fat
BY ApplyFields

LEMMA ThreeSplit ==
  ASSUME NEW p, NEW q, NEW u
  PROVE  <<p, q, u>> = <<p>> \o <<q, u>>
OBVIOUS

\* What one step edits.
LEMMA EditedOne ==
  ASSUME NEW c, Sane(c), NEW s \in Edits
  PROVE  /\ Edited(c, <<s>>).vol = Apply(c.vol, s)
         /\ Edited(c, <<s>>).fixed = c.fixed \cup (IF s.op = "start" THEN {s.at} ELSE {})
<1>1. c.vol \in Volume /\ s \in StepSet
  BY EditsAreSteps DEF Sane
<1>2. Starts(<<s>>) = IF s.op = "start" THEN {s.at} ELSE {}
  <2>1. s.op = "start" => s.at \in Slot
    BY DEF Edits, StartSteps, FatSteps, LiveSteps
  <2>2. QED BY <2>1, SpotsOne DEF Starts, Spot
<1>3. ApplyAll(c.vol, <<s>>) = Apply(c.vol, s)
  BY <1>1, ApplyOne
<1> DEFINE t == <<s>>
<1> HIDE DEF t
<1>4. Edited(c, t).vol = ApplyAll(c.vol, t) /\ Edited(c, t).fixed = c.fixed \cup Starts(t)
  BY EditedPoint
<1>5. QED BY <1>2, <1>3, <1>4 DEF t

LEMMA EditedTwo ==
  ASSUME NEW c, Sane(c), NEW s \in Edits, NEW u \in Edits, u.op # "start"
  PROVE  /\ Edited(c, <<s, u>>).vol = Apply(Apply(c.vol, s), u) /\ Apply(c.vol, s) \in Volume
         /\ Edited(c, <<s, u>>).fixed = c.fixed \cup (IF s.op = "start" THEN {s.at} ELSE {})
<1>1. c.vol \in Volume /\ s \in StepSet /\ u \in StepSet
  BY EditsAreSteps DEF Sane
<1>2. <<s, u>> = <<s>> \o <<u>> /\ <<s>> \in Seq(StepSet) /\ <<u>> \in Seq(StepSet)
      /\ <<s>> \in Seq(Edits) /\ <<u>> \in Seq(Edits)
  <2>1. <<s, u>> = <<s>> \o <<u>>
    BY <1>1, TwoSplit
  <2>2. /\ <<s>> \in Seq(StepSet) /\ <<u>> \in Seq(StepSet)
        /\ <<s>> \in Seq(Edits) /\ <<u>> \in Seq(Edits)
    BY <1>1
  <2>3. QED BY <2>1, <2>2
<1>3. ApplyAll(c.vol, <<s, u>>) = Apply(Apply(c.vol, s), u) /\ Apply(c.vol, s) \in Volume
  <2>1. ApplyAll(c.vol, <<s>> \o <<u>>) = ApplyAll(ApplyAll(c.vol, <<s>>), <<u>>)
    BY <1>1, <1>2, ApplyConcat
  <2>2. ApplyAll(c.vol, <<s>>) = Apply(c.vol, s) /\ Apply(c.vol, s) \in Volume
    BY <1>1, ApplyOne, ApplyType
  <2>3. ApplyAll(Apply(c.vol, s), <<u>>) = Apply(Apply(c.vol, s), u)
    BY <1>1, <2>2, ApplyOne
  <2>4. QED BY <1>2, <2>1, <2>2, <2>3
<1>4. Starts(<<s, u>>) = IF s.op = "start" THEN {s.at} ELSE {}
  <2>1. s.op = "start" => s.at \in Slot
    BY DEF Edits, StartSteps, FatSteps, LiveSteps
  <2>2. SpotsOf(<<s, u>>) = {Spot(s)} \cup {Spot(u)}
    <3>1. SpotsOf(<<s>> \o <<u>>) = SpotsOf(<<s>>) \cup SpotsOf(<<u>>)
      BY <1>2, SpotsConcat
    <3>2. QED BY <1>2, <3>1, SpotsOne
  <2>3. QED BY <2>1, <2>2 DEF Starts, Spot
<1> DEFINE t == <<s, u>>
<1> HIDE DEF t
<1>5. Edited(c, t).vol = ApplyAll(c.vol, t) /\ Edited(c, t).fixed = c.fixed \cup Starts(t)
  BY EditedPoint
<1>6. QED BY <1>3, <1>4, <1>5 DEF t

\* The point behind a mark.
Marked(c, q, e) ==
  /\ e.vol.fat = c.vol.fat /\ e.vol.live = c.vol.live /\ e.log = <<>> /\ e.ram = q
  /\ e.base = e.vol /\ e.mask = {} /\ c.fixed \subseteq e.fixed
  /\ \A f \in File, s \in Slot : Owns(q.ino, f, s) => s \in e.fixed

LEMMA CommitReach ==
  ASSUME NEW c, Sane(c), c.log # <<>>, NEW f \in File \cup {None}, NEW K, Shape(c.vol, c.ram, K),
         \A g \in File, s \in Slot : Owns(c.ram.ino, g, s) /\ g # f => s \in c.fixed,
         NEW q \in Rams, q.ino = c.ram.ino
  PROVE  \E e : Sane(e) /\ Marked(c, q, e) /\ Reach(c, MetaCommit(c.ram, f) \o <<Mark(q)>>, e)
<1> DEFINE r == c.ram
           u == f # None /\ r.ino[f].st = "alloc"
           s == Start(r.ino[f].slot, r.ino[f].start)
           o == If(u, <<s>>)
<1>1. /\ c.vol \in Volume /\ c.base \in Volume /\ c.log \in Seq(RecSet) /\ c.ram \in Rams
      /\ c.fixed \subseteq Slot /\ Agree(c.vol, c.base, c.mask)
      /\ \A z \in Slot : c.base.live[z] /\ <<"start", z>> \notin c.mask => z \in c.fixed
      /\ \A g \in File, z \in c.fixed : Owns(r.ino, g, z) => c.vol.start[z] = r.ino[g].start
  BY DEF Sane
<1>2. Distinct(r.ino) /\ \A z \in Slot : c.vol.live[z] <=> \E g \in File : Owns(r.ino, g, z)
  BY DEF Shape
<1>3. \E d : /\ Sane(d) /\ Reach(c, o, d)
             /\ d.vol.fat = c.vol.fat /\ d.vol.live = c.vol.live /\ d.log = c.log /\ d.ram = r
             /\ c.fixed \subseteq d.fixed
             /\ \A g \in File, z \in Slot : Owns(r.ino, g, z) => z \in d.fixed
  <2>1. CASE ~u
    <3>1. o = <<>>
      BY <2>1 DEF If
    <3>2. \A g \in File, z \in Slot : Owns(r.ino, g, z) => g # f
      BY <2>1, ConstantFacts DEF Owns
    <3>3. Reach(c, o, c)
      BY <3>1, ReachNone
    <3>4. QED BY <3>2, <3>3
  <2>2. CASE u
    <3> DEFINE z0 == r.ino[f].slot
               d == Edited(c, <<s>>)
    <3>1. o = <<s>> /\ f \in File
      BY <2>2 DEF If
    <3>2. r.ino[f] \in Inodes /\ InodeOK(r.ino[f])
      BY <1>1, <3>1, RamFields
    <3>3. z0 \in Slot /\ s \in Edits /\ Owns(r.ino, f, z0) /\ s.op = "start" /\ s.at = z0
      <4>1. z0 \in Slot /\ r.ino[f].start \in Cluster \cup {TAIL} /\ Owns(r.ino, f, z0)
        BY <2>2, <3>2 DEF InodeOK, Inodes, Owns
      <4>2. s \in Edits /\ s.op = "start" /\ s.at = z0
        BY <4>1, EditIntro DEF Start
      <4>3. QED BY <4>1, <4>2
    <3>4. Suits(c, s)
      <4>1. \A g \in File : Owns(r.ino, g, z0) => g = f
        BY <1>2, <3>1, <3>3 DEF Distinct
      <4>2. QED BY <4>1, SuitsBy
    <3>5. Lets(c, s)
      <4>1. ASSUME <<"start", z0>> \notin c.mask, c.base.live[z0]
            PROVE  r.ino[f].start = c.base.start[z0]
        <5>1. c.vol.start[z0] = r.ino[f].start
          BY <1>1, <3>1, <3>3, <4>1
        <5>2. c.vol.start[z0] = c.base.start[z0]
          BY <1>1, <3>3, <4>1, AgreeIs
        <5>3. QED BY <5>1, <5>2
      <4>2. QED BY <3>3, <4>1, LetsBy
    <3> HIDE DEF s, z0
    <3>6. Sane(d) /\ Reach(c, <<s>>, d)
      <4>1. Puts(c, <<s>>) /\ AllSuit(c, <<s>>)
        BY <3>4, <3>5, PutsParts
      <4>2. \A i \in 1..Len(<<s>>) : Lets(c, <<s>>[i]) /\ Suits(c, <<s>>[i])
        BY <4>1 DEF Puts, AllSuit
      <4>3. <<s>> \in Seq(Edits) /\ <<s>> # <<>>
        BY <3>3
      <4>4. QED BY <4>2, <4>3, EditsReach
    <3>7. d.vol = Apply(c.vol, s) /\ d.fixed = c.fixed \cup {z0} /\ d.log = c.log /\ d.ram = r
      BY <3>3, EditedOne, EditedPoint
    <3>8. d.vol.fat = c.vol.fat /\ d.vol.live = c.vol.live
      <4>1. s = Start(z0, r.ino[f].start)
        BY DEF s, z0
      <4>2. /\ Apply(c.vol, Start(z0, r.ino[f].start)).fat = c.vol.fat
            /\ Apply(c.vol, Start(z0, r.ino[f].start)).live = c.vol.live
        <5>1. c.vol \in Volume /\ z0 \in Slot
          BY <1>1, <3>3
        <5>2. QED BY <5>1, ApplyStart
      <4>3. QED BY <3>7, <4>1, <4>2
    <3>9. \A g \in File, z \in Slot : Owns(r.ino, g, z) => z \in d.fixed
      <4>1. \A g \in File, z \in Slot : Owns(r.ino, g, z) /\ g = f => z = z0
        BY DEF Owns, z0
      <4>2. QED BY <3>7, <4>1
    <3> HIDE DEF d
    <3>10. QED BY <3>1, <3>6, <3>7, <3>8, <3>9
  <2>3. QED BY <2>1, <2>2
<1> HIDE DEF o
<1>4. PICK d : /\ Sane(d) /\ Reach(c, o, d)
               /\ d.vol.fat = c.vol.fat /\ d.vol.live = c.vol.live /\ d.log = c.log /\ d.ram = r
               /\ c.fixed \subseteq d.fixed
               /\ \A g \in File, z \in Slot : Owns(r.ino, g, z) => z \in d.fixed
  BY <1>3
<1> DEFINE h == Point(d.vol, d.log, d.ram, d.base, d.mask, d.fixed, TRUE)
           e == Point(h.vol, <<>>, q, h.vol, {}, h.fixed, FALSE)
<1>5. Sane(h) /\ Reach(d, <<Flush>>, h)
  BY <1>4, FlushReach
<1>6. h.vol = d.vol /\ h.log = c.log /\ h.ram = r /\ h.fixed = d.fixed /\ h.clean
  BY <1>4 DEF Point
<1> HIDE DEF h
<1>7. Sound(h.vol)
  <2>1. Shape(h.vol, h.ram, K)
    BY <1>4, <1>6, ShapeSame
  <2>2. ASSUME NEW g \in File, NEW z \in Slot, Owns(h.ram.ino, g, z)
        PROVE  h.vol.start[z] = h.ram.ino[g].start
    <3>1. z \in d.fixed
      BY <1>4, <1>6, <2>2
    <3>2. d.vol.start[z] = d.ram.ino[g].start
      BY <1>4, <1>6, <2>2, <3>1 DEF Sane
    <3>3. QED BY <1>4, <1>6, <3>2
  <2>3. h.ram \in Rams
    BY <1>1, <1>6
  <2>4. QED BY <2>1, <2>2, <2>3, ShapeSound
<1>8. \A z \in Slot : h.vol.live[z] => z \in h.fixed
  BY <1>2, <1>4, <1>6
<1>9. Sane(e) /\ Reach(h, <<Mark(q)>>, e)
  BY <1>5, <1>6, <1>7, <1>8, MarkReach
<1>10. Marked(c, q, e)
  <2>1. e.vol = h.vol /\ e.log = <<>> /\ e.ram = q /\ e.base = h.vol /\ e.mask = {} /\ e.fixed = h.fixed
    BY DEF Point
  <2>2. QED BY <1>4, <1>6, <2>1 DEF Marked
<1>11. Reach(c, MetaCommit(r, f) \o <<Mark(q)>>, e)
  <2>1. MetaCommit(r, f) = o \o <<Flush>>
    BY DEF MetaCommit, o
  <2>2. o \in Seq(StepSet) /\ <<Flush>> \in Seq(StepSet) /\ <<Mark(q)>> \in Seq(StepSet)
    <3>1. Flush \in StepSet /\ Mark(q) \in StepSet
      BY StepTypes DEF StepSet, DataSteps
    <3>2. o \in Seq(StepSet)
      <4>1. r.ino[f].st = "alloc" /\ f \in File => s \in StepSet
        <5>1. r \in Rams
          BY <1>1
        <5>2. QED BY <5>1, CalmSteps
      <4>2. u => <<s>> \in Seq(StepSet)
        BY <4>1
      <4>3. QED BY <4>2, IfType DEF o
    <3>3. QED BY <3>1, <3>2
  <2> HIDE DEF e
  <2>3. Reach(c, o \o <<Flush>>, h) /\ o \o <<Flush>> \in Seq(StepSet)
    <3>1. Reach(c, o, d) /\ Reach(d, <<Flush>>, h)
      BY <1>4, <1>5
    <3> DEFINE w == <<Flush>>
    <3> HIDE DEF w
    <3>2. w \in Seq(StepSet) /\ o \in Seq(StepSet)
      BY <2>2 DEF w
    <3>3. Reach(d, w, h) /\ Reach(c, o, d)
      BY <3>1 DEF w
    <3>4. Reach(c, o \o w, h)
      BY <3>2, <3>3, ReachConcat
    <3>5. o \o w \in Seq(StepSet)
      BY <3>2
    <3>6. QED BY <3>4, <3>5 DEF w
  <2>4. Reach(c, (o \o <<Flush>>) \o <<Mark(q)>>, e)
    BY <1>9, <2>2, <2>3, ReachConcat
  <2>5. QED BY <2>1, <2>4
<1>12. QED BY <1>9, <1>10, <1>11

\* A point between two operations: no transaction is open, or a WRITE transaction
\* whose records cover what is pre-allocated and the cluster it goes behind.
Rest(c, K) ==
  /\ Shape(c.vol, c.ram, K)
  /\ \A f \in File, s \in Slot : Owns(c.ram.ino, f, s) /\ f # c.ram.writer => s \in c.fixed
  /\ c.ram.writer = None => c.log = <<>> /\ c.mask = {} /\ c.ram.pre = <<>>
  /\ c.ram.writer # None =>
       /\ c.log # <<>>
       /\ \A x \in ToSet(c.ram.pre) : c.vol.fat[x] = FREE /\ <<"fat", x>> \in c.mask
       /\ c.ram.pre # <<>> => /\ c.ram.ino[c.ram.writer].last # TAIL
                              /\ <<"fat", c.ram.ino[c.ram.writer].last>> \in c.mask
\* No transaction is open.
Fresh(c, K) == Sane(c) /\ Rest(c, K) /\ c.ram.writer = None

LEMMA MarkedRest ==
  ASSUME NEW c, NEW K, Shape(c.vol, c.ram, K), NEW q, q.ino = c.ram.ino, q.segs = c.ram.segs,
         q.writer = None, q.pre = <<>>, NEW e, Marked(c, q, e)
  PROVE  Rest(e, K)
<1>1. Shape(e.vol, e.ram, K)
  BY ShapeSame DEF Marked
<1>2. QED BY <1>1 DEF Marked, Rest

LEMMA LogEndReach ==
  ASSUME NEW c, Sane(c), c.log # <<>>, NEW f \in File \cup {None}, NEW K, Shape(c.vol, c.ram, K),
         \A g \in File, s \in Slot : Owns(c.ram.ino, g, s) /\ g # f => s \in c.fixed
  PROVE  \E e : /\ Fresh(e, K) /\ Reach(c, LogEnd(c.ram, f), e) /\ e.ram = Released(c.ram)
                /\ e.vol.fat = c.vol.fat /\ e.vol.live = c.vol.live
<1> DEFINE q == Released(c.ram)
<1>1. c.ram \in Rams
  BY DEF Sane
<1>2. q \in Rams /\ q.ino = c.ram.ino /\ q.segs = c.ram.segs /\ q.writer = None /\ q.pre = <<>>
  BY <1>1, ReleasedType
<1>3. LogEnd(c.ram, f) = MetaCommit(c.ram, f) \o <<Mark(q)>>
  BY DEF LogEnd
<1> HIDE DEF q
<1>4. PICK e : Sane(e) /\ Marked(c, q, e) /\ Reach(c, MetaCommit(c.ram, f) \o <<Mark(q)>>, e)
  BY <1>2, CommitReach
<1>5. Rest(e, K) /\ e.ram = q
  BY <1>2, <1>4, MarkedRest DEF Marked
<1>6. e.vol.fat = c.vol.fat /\ e.vol.live = c.vol.live
  BY <1>4 DEF Marked
<1>7. Fresh(e, K)
  BY <1>2, <1>4, <1>5 DEF Fresh
<1>8. QED BY <1>3, <1>4, <1>5, <1>6, <1>7 DEF q

\* __commit_deferred_tr
LEMMA FreshReach ==
  ASSUME NEW c, NEW K, Sane(c), Rest(c, K)
  PROVE  \E e : /\ Fresh(e, K) /\ Reach(c, CommitDeferred(c.ram), e) /\ e.ram = Released(c.ram)
                /\ e.vol.fat = c.vol.fat /\ e.vol.live = c.vol.live
<1>1. c.ram \in Rams
  BY DEF Sane
<1>2. CASE c.ram.writer = None
  <2>1. CommitDeferred(c.ram) = <<>>
    BY <1>2 DEF CommitDeferred, If
  <2>2. c.ram.pre = <<>>
    BY <1>2 DEF Rest
  <2>3. c.ram = Released(c.ram)
    BY <1>1, <1>2, <2>2, ReleasedType, RamFields
  <2>4. Reach(c, CommitDeferred(c.ram), c)
    BY <2>1, ReachNone
  <2>5. QED BY <1>2, <2>3, <2>4 DEF Fresh
<1>3. CASE c.ram.writer # None
  <2> DEFINE f == c.ram.writer
  <2>1. f \in File \cup {None} /\ Shape(c.vol, c.ram, K) /\ c.log # <<>>
        /\ \A g \in File, s \in Slot : Owns(c.ram.ino, g, s) /\ g # f => s \in c.fixed
    BY <1>1, <1>3, RamFields DEF Rest
  <2>2. CommitDeferred(c.ram) = LogEnd(c.ram, f)
    BY <1>3 DEF CommitDeferred, LogEnd, If
  <2> HIDE DEF f
  <2>3. PICK e : /\ Fresh(e, K) /\ Reach(c, LogEnd(c.ram, f), e) /\ e.ram = Released(c.ram)
                 /\ e.vol.fat = c.vol.fat /\ e.vol.live = c.vol.live
    BY <2>1, LogEndReach
  <2>4. Reach(c, CommitDeferred(c.ram), e)
    BY <2>2, <2>3
  <2>5. QED BY <2>3, <2>4
<1>4. QED BY <1>2, <1>3

\* Then a mount would come to the volume as it is.
LEMMA FreshBase ==
  ASSUME NEW c, NEW K, Fresh(c, K)
  PROVE  /\ c.log = <<>> /\ c.mask = {} /\ c.ram.pre = <<>> /\ c.ram.writer = None
         /\ c.vol \in Volume /\ c.base \in Volume /\ c.ram \in Rams /\ Shape(c.vol, c.ram, K)
         /\ \A x \in FatIndex : c.base.fat[x] = c.vol.fat[x]
         /\ \A s \in Slot : c.base.live[s] = c.vol.live[s]
         /\ \A f \in File, s \in Slot : Owns(c.ram.ino, f, s) =>
              /\ s \in c.fixed /\ c.vol.live[s] /\ c.base.live[s]
              /\ c.vol.start[s] = c.ram.ino[f].start /\ c.base.start[s] = c.ram.ino[f].start
<1>1. /\ c.vol \in Volume /\ c.base \in Volume /\ c.ram \in Rams
      /\ Agree(c.vol, c.base, c.mask)
      /\ \A f \in File, s \in c.fixed : Owns(c.ram.ino, f, s) => c.vol.start[s] = c.ram.ino[f].start
  BY DEF Fresh, Sane
<1>2. /\ c.log = <<>> /\ c.mask = {} /\ c.ram.pre = <<>> /\ c.ram.writer = None
      /\ Shape(c.vol, c.ram, K)
      /\ \A f \in File, s \in Slot : Owns(c.ram.ino, f, s) /\ f # c.ram.writer => s \in c.fixed
  BY DEF Fresh, Rest
<1>3. /\ \A x \in FatIndex : c.vol.fat[x] = c.base.fat[x]
      /\ \A s \in Slot : c.vol.live[s] = c.base.live[s]
      /\ \A s \in Slot : c.base.live[s] => c.vol.start[s] = c.base.start[s]
  <2>1. Agree(c.vol, c.base, {})
    BY <1>1, <1>2
  <2>2. \A x : x \notin {}
    OBVIOUS
  <2>3. QED BY <2>1, <2>2, AgreeIs
<1>4. ASSUME NEW f \in File, NEW s \in Slot, Owns(c.ram.ino, f, s)
      PROVE  /\ s \in c.fixed /\ c.vol.live[s] /\ c.base.live[s]
             /\ c.vol.start[s] = c.ram.ino[f].start /\ c.base.start[s] = c.ram.ino[f].start
  <2>1. s \in c.fixed
    BY <1>2, <1>4, ConstantFacts
  <2>2. c.vol.live[s]
    BY <1>2, <1>4 DEF Shape
  <2>3. c.vol.start[s] = c.ram.ino[f].start
    BY <1>1, <1>4, <2>1
  <2>4. QED BY <1>3, <2>1, <2>2, <2>3
<1>5. QED BY <1>1, <1>2, <1>3, <1>4

\* Two FATs equal on some clusters.
SameOn(fat, new, X) == \A c \in X : new[c] = fat[c]

LEMMA TrailSame ==
  ASSUME NEW S, NEW fat, NEW new, NEW p \in Seq(S), NEW e, Trail(fat, p, e),
         SameOn(fat, new, ToSet(p))
  PROVE  Trail(new, p, e)
BY TrailKeeps DEF SameOn

\* An operation gives one inode another chain.
Changes(v, r, K, f, w, q, L) ==
  /\ L \in [File -> Seq(Cluster)]
  /\ \A g \in File : g # f => q.ino[g] = r.ino[g] /\ L[g] = K[g]
  /\ Distinct(q.ino)
  /\ \A s \in Slot : w.live[s] <=> \E g \in File : Owns(q.ino, g, s)
  /\ Once(L[f]) /\ q.ino[f].start = HeadOr(L[f], TAIL)
  /\ L[f] # <<>> => q.ino[f].last = L[f][Len(L[f])]
  /\ q.ino[f].st = "none" => L[f] = <<>>
  /\ q.ino[f].st = "alloc" => Trail(w.fat, L[f], TAIL)
  /\ w.fat[Log] = SegNext(q, 0)
  /\ \A k \in 1..Len(q.segs) : Trail(w.fat, L[q.segs[k]], SegNext(q, k))
  /\ \A g \in File : g # f => ToSet(L[f]) \cap ToSet(K[g]) = {}
  /\ \A g \in File : g # f /\ r.ino[g].st = "alloc" => SameOn(v.fat, w.fat, ToSet(K[g]))
  /\ \A c \in Cluster : w.fat[c] # FREE /\ c \notin ToSet(L[f]) => v.fat[c] # FREE /\ c \notin ToSet(K[f])

LEMMA ShapeChange ==
  ASSUME NEW v, NEW r \in Rams, NEW K, Shape(v, r, K), NEW f \in File,
         NEW w, NEW q \in Rams, NEW L, Changes(v, r, K, f, w, q, L)
  PROVE  Shape(w, q, L)
<1>0. /\ L \in [File -> Seq(Cluster)]
      /\ \A g \in File : g # f => q.ino[g] = r.ino[g] /\ L[g] = K[g]
      /\ Distinct(q.ino)
      /\ \A s \in Slot : w.live[s] <=> \E g \in File : Owns(q.ino, g, s)
      /\ Once(L[f]) /\ q.ino[f].start = HeadOr(L[f], TAIL)
      /\ L[f] # <<>> => q.ino[f].last = L[f][Len(L[f])]
      /\ q.ino[f].st = "none" => L[f] = <<>>
      /\ q.ino[f].st = "alloc" => Trail(w.fat, L[f], TAIL)
      /\ w.fat[Log] = SegNext(q, 0)
      /\ \A k \in 1..Len(q.segs) : Trail(w.fat, L[q.segs[k]], SegNext(q, k))
      /\ \A g \in File : g # f => ToSet(L[f]) \cap ToSet(K[g]) = {}
      /\ \A g \in File : g # f /\ r.ino[g].st = "alloc" => SameOn(v.fat, w.fat, ToSet(K[g]))
      /\ \A c \in Cluster : w.fat[c] # FREE /\ c \notin ToSet(L[f]) => v.fat[c] # FREE /\ c \notin ToSet(K[f])
  BY DEF Changes
<1> USE <1>0
<1>1. /\ K \in [File -> Seq(Cluster)]
      /\ \A g \in File : /\ Once(K[g]) /\ r.ino[g].start = HeadOr(K[g], TAIL)
                         /\ K[g] # <<>> => r.ino[g].last = K[g][Len(K[g])]
                         /\ r.ino[g].st = "none" => K[g] = <<>>
                         /\ r.ino[g].st = "alloc" => Trail(v.fat, K[g], TAIL)
      /\ \A g, h \in File : g # h => ToSet(K[g]) \cap ToSet(K[h]) = {}
      /\ \A c \in Cluster : v.fat[c] # FREE => \E g \in File : c \in ToSet(K[g])
  BY DEF Shape
<1>2. ASSUME NEW g \in File
      PROVE  /\ Once(L[g]) /\ q.ino[g].start = HeadOr(L[g], TAIL)
             /\ L[g] # <<>> => q.ino[g].last = L[g][Len(L[g])]
             /\ q.ino[g].st = "none" => L[g] = <<>>
             /\ q.ino[g].st = "alloc" => Trail(w.fat, L[g], TAIL)
  <2>1. CASE g = f
    BY <2>1
  <2>2. CASE g # f
    <3>1. q.ino[g] = r.ino[g] /\ L[g] = K[g] /\ K[g] \in Seq(Cluster)
      BY <1>1, <2>2
    <3>2. ASSUME r.ino[g].st = "alloc" PROVE Trail(w.fat, K[g], TAIL)
      <4>1. Trail(v.fat, K[g], TAIL)
        BY <1>1, <2>2, <3>2
      <4>0. SameOn(v.fat, w.fat, ToSet(K[g]))
        BY <2>2, <3>2
      <4>2. K[g] \in Seq(Cluster)
        BY <3>1
      <4>3. QED BY <4>0, <4>1, <4>2, TrailSame
    <3>3. /\ Once(K[g]) /\ r.ino[g].start = HeadOr(K[g], TAIL)
          /\ K[g] # <<>> => r.ino[g].last = K[g][Len(K[g])]
          /\ r.ino[g].st = "none" => K[g] = <<>>
      BY <1>1
    <3>4. QED BY <3>1, <3>2, <3>3
  <2>3. QED BY <2>1, <2>2
<1>3. ASSUME NEW g \in File, NEW h \in File, g # h PROVE ToSet(L[g]) \cap ToSet(L[h]) = {}
  <2>1. CASE g = f
    BY <1>3, <2>1
  <2>2. CASE h = f
    BY <1>3, <2>2
  <2>3. CASE g # f /\ h # f
    <3>1. L[g] = K[g] /\ L[h] = K[h]
      BY <2>3
    <3>2. QED BY <1>1, <1>3, <3>1
  <2>4. QED BY <2>1, <2>2, <2>3
<1>4. ASSUME NEW c \in Cluster, w.fat[c] # FREE PROVE \E g \in File : c \in ToSet(L[g])
  <2>1. CASE c \in ToSet(L[f])
    BY <2>1
  <2>2. CASE c \notin ToSet(L[f])
    <3>1. v.fat[c] # FREE /\ c \notin ToSet(K[f])
      BY <1>4, <2>2
    <3>2. PICK g \in File : c \in ToSet(K[g])
      BY <1>1, <3>1
    <3>3. g # f
      BY <3>1, <3>2
    <3>4. QED BY <3>2, <3>3
  <2>3. QED BY <2>1, <2>2
<1>5. /\ \A g \in File : /\ Once(L[g]) /\ q.ino[g].start = HeadOr(L[g], TAIL)
                         /\ L[g] # <<>> => q.ino[g].last = L[g][Len(L[g])]
                         /\ q.ino[g].st = "none" => L[g] = <<>>
                         /\ q.ino[g].st = "alloc" => Trail(w.fat, L[g], TAIL)
  BY <1>2
<1>6. \A g, h \in File : g # h => ToSet(L[g]) \cap ToSet(L[h]) = {}
  BY <1>3
<1>7. \A c \in Cluster : w.fat[c] # FREE => \E g \in File : c \in ToSet(L[g])
  BY <1>4
<1>8. QED BY <1>5, <1>6, <1>7 DEF Shape

\* The segments of unlinked inodes that an operation does not touch.
LEMMA SegsKeep ==
  ASSUME NEW v, NEW r \in Rams, NEW K, Shape(v, r, K),
         NEW q, q.segs = r.segs, \A k \in 1..Len(r.segs) : q.ino[r.segs[k]] = r.ino[r.segs[k]],
         NEW w, w.fat[Log] = v.fat[Log],
         NEW L, \A k \in 1..Len(r.segs) : /\ L[r.segs[k]] = K[r.segs[k]]
                                          /\ SameOn(v.fat, w.fat, ToSet(K[r.segs[k]]))
  PROVE  /\ w.fat[Log] = SegNext(q, 0)
         /\ \A k \in 1..Len(q.segs) : Trail(w.fat, L[q.segs[k]], SegNext(q, k))
<1>1. Len(r.segs) \in Nat /\ \A k \in 1..Len(r.segs) : r.segs[k] \in File
  BY SegFacts
<1>2. ASSUME NEW k \in 0..Len(r.segs) PROVE SegNext(q, k) = SegNext(r, k)
  <2>1. CASE k < Len(r.segs)
    <3>1. k + 1 \in 1..Len(r.segs)
      BY <1>1, <2>1
    <3>2. q.ino[r.segs[k + 1]] = r.ino[r.segs[k + 1]]
      BY <3>1
    <3>3. QED BY <2>1, <3>2 DEF SegNext, SegStart
  <2>2. CASE ~(k < Len(r.segs))
    BY <2>2 DEF SegNext
  <2>3. QED BY <2>1, <2>2
<1>3. 0 \in 0..Len(r.segs) /\ \A k \in 1..Len(r.segs) : k \in 0..Len(r.segs)
  BY <1>1
<1>4. v.fat[Log] = SegNext(r, 0) /\ K \in [File -> Seq(Cluster)]
      /\ \A k \in 1..Len(r.segs) : Trail(v.fat, K[r.segs[k]], SegNext(r, k))
  BY DEF Shape
<1>5. ASSUME NEW k \in 1..Len(r.segs) PROVE Trail(w.fat, L[r.segs[k]], SegNext(q, k))
  <2>1. K[r.segs[k]] \in Seq(Cluster) /\ Trail(v.fat, K[r.segs[k]], SegNext(r, k))
    BY <1>1, <1>4
  <2>2. SameOn(v.fat, w.fat, ToSet(K[r.segs[k]]))
    OBVIOUS
  <2>3. Trail(w.fat, K[r.segs[k]], SegNext(r, k))
    BY <2>1, <2>2, TrailSame
  <2>4. QED BY <1>2, <1>3, <2>3
<1>6. w.fat[Log] = SegNext(q, 0)
  BY <1>2, <1>3, <1>4
<1>7. QED BY <1>5, <1>6

\* Steps of an operation, which lead from one point to another.
Goes(c, t, e) == t \in Seq(StepSet) /\ Reach(c, t, e)

LEMMA GoesConcat ==
  ASSUME NEW a, NEW b, NEW c, NEW d, NEW e, Goes(c, a, d), Goes(d, b, e)
  PROVE  Goes(c, a \o b, e)
<1>1. a \in Seq(StepSet) /\ b \in Seq(StepSet) /\ Reach(c, a, d) /\ Reach(d, b, e)
  BY DEF Goes
<1>2. Reach(c, a \o b, e)
  BY <1>1, ReachConcat
<1>3. a \o b \in Seq(StepSet)
  BY <1>1
<1>4. QED BY <1>2, <1>3 DEF Goes

LEMMA GoesNone ==
  ASSUME NEW c, Sane(c)
  PROVE  Goes(c, <<>>, c)
BY ReachNone DEF Goes

LEMMA GoesRecord ==
  ASSUME NEW c, Sane(c), NEW r \in RecSet, r.kind \notin {"dealloc", "mrc"}, Puts(c, Undo(r)),
         NEW d, d = Logged(c, r), NEW t \in Seq(Edits), t # <<>>, Puts(d, t), AllSuit(d, t)
  PROVE  Sane(Edited(d, t)) /\ Goes(c, <<Rec(r)>> \o t, Edited(d, t))
<1>1. Sane(Edited(d, t)) /\ Reach(c, <<Rec(r)>> \o t, Edited(d, t))
  BY RecordReach
<1>2. <<Rec(r)>> \o t \in Seq(StepSet)
  <2>1. Rec(r) \in StepSet
    BY StepTypes DEF StepSet, DataSteps
  <2>2. <<Rec(r)>> \in Seq(StepSet) /\ t \in Seq(StepSet)
    BY <2>1, EditsAreSteps
  <2>3. QED BY <2>2
<1>3. QED BY <1>1, <1>2 DEF Goes

LEMMA GoesLone ==
  ASSUME NEW c, Sane(c), NEW r \in RecSet, r.kind \notin {"dealloc", "mrc"}, Puts(c, Undo(r)),
         NEW d, d = Logged(c, r)
  PROVE  Sane(d) /\ Goes(c, <<Rec(r)>>, d)
<1>1. Sane(d) /\ Reach(c, <<Rec(r)>>, d)
  BY LoneReach
<1>2. Rec(r) \in StepSet
  BY StepTypes DEF StepSet, DataSteps
<1>3. QED BY <1>1, <1>2, OneType DEF Goes

LEMMA GoesEdits ==
  ASSUME NEW c, Sane(c), NEW t \in Seq(Edits), t # <<>>, Puts(c, t), AllSuit(c, t)
  PROVE  Sane(Edited(c, t)) /\ Goes(c, t, Edited(c, t))
<1>1. \A i \in 1..Len(t) : Lets(c, t[i]) /\ Suits(c, t[i])
  BY DEF Puts, AllSuit
<1>2. Sane(Edited(c, t)) /\ Reach(c, t, Edited(c, t))
  BY <1>1, EditsReach
<1>3. QED BY <1>2, EditsAreSteps DEF Goes

\* The point behind a change of the in-core state.
Turned(c, q, x) == Point(c.vol, c.log, q, c.base, c.mask, x, FALSE)

LEMMA TurnedPoint ==
  ASSUME NEW c, NEW q, NEW x, NEW e, e = Turned(c, q, x)
  PROVE  /\ e.vol = c.vol /\ e.log = c.log /\ e.ram = q /\ e.base = c.base /\ e.mask = c.mask
         /\ e.fixed = x /\ e.clean = FALSE
BY DEF Turned, Point

LEMMA GoesRam ==
  ASSUME NEW c, Sane(c), NEW q \in Rams, NEW x \in SUBSET c.fixed,
         \A s \in Slot : c.base.live[s] /\ <<"start", s>> \notin c.mask => s \in x,
         \A f \in File, s \in x : Owns(q.ino, f, s) => c.vol.start[s] = q.ino[f].start
  PROVE  Sane(Turned(c, q, x)) /\ Goes(c, <<Ram(q)>>, Turned(c, q, x))
<1>1. Sane(Turned(c, q, x)) /\ Reach(c, <<Ram(q)>>, Turned(c, q, x))
  BY RamReach DEF Turned
<1>2. Ram(q) \in StepSet
  BY StepTypes DEF StepSet
<1>3. QED BY <1>1, <1>2, OneType DEF Goes

LEMMA GoesLogEnd ==
  ASSUME NEW c, Sane(c), c.log # <<>>, NEW f \in File \cup {None}, NEW K, Shape(c.vol, c.ram, K),
         \A g \in File, s \in Slot : Owns(c.ram.ino, g, s) /\ g # f => s \in c.fixed
  PROVE  \E e : /\ Fresh(e, K) /\ Goes(c, LogEnd(c.ram, f), e) /\ e.ram = Released(c.ram)
                /\ e.vol.fat = c.vol.fat /\ e.vol.live = c.vol.live
<1>1. PICK e : /\ Fresh(e, K) /\ Reach(c, LogEnd(c.ram, f), e) /\ e.ram = Released(c.ram)
               /\ e.vol.fat = c.vol.fat /\ e.vol.live = c.vol.live
  BY LogEndReach
<1>2. c.ram \in Rams
  BY DEF Sane
<1>3. LogEnd(c.ram, f) \in Seq(StepSet)
  BY <1>2, LogEndCalm, CalmSteps
<1>4. QED BY <1>1, <1>3 DEF Goes

LEMMA GoesCommit ==
  ASSUME NEW c, NEW K, Sane(c), Rest(c, K)
  PROVE  \E e : /\ Fresh(e, K) /\ Goes(c, CommitDeferred(c.ram), e) /\ e.ram = Released(c.ram)
                /\ e.vol.fat = c.vol.fat /\ e.vol.live = c.vol.live
<1>1. PICK e : /\ Fresh(e, K) /\ Reach(c, CommitDeferred(c.ram), e) /\ e.ram = Released(c.ram)
               /\ e.vol.fat = c.vol.fat /\ e.vol.live = c.vol.live
  BY FreshReach
<1>2. c.ram \in Rams
  BY DEF Sane
<1>3. CommitDeferred(c.ram) \in Seq(StepSet)
  BY <1>2, CommitCalm, CalmSteps
<1>4. QED BY <1>1, <1>3 DEF Goes

\* Where an operation leads.
Done(c, t) == \E e, L : Sane(e) /\ Rest(e, L) /\ Goes(c, t, e)

LEMMA FreshDone ==
  ASSUME NEW c, NEW t, NEW e, NEW L, Fresh(e, L), Goes(c, t, e)
  PROVE  Done(c, t)
BY DEF Done, Fresh

LEMMA RecTypes ==
  /\ \A s \in Slot : BuildRec(s) \in RecSet /\ RemoveRec(s) \in RecSet
  /\ \A s \in Slot : BuildRec(s).kind = "build" /\ RemoveRec(s).kind = "remove"
  /\ \A s \in Slot \cup {None}, p \in Cluster \cup {TAIL}, n \in FatVal, cs \in Seq(Cluster) :
       AllocRec(s, p, n, cs) \in RecSet /\ AllocRec(s, p, n, cs).kind = "alloc"
  /\ \A s \in Slot \cup {None}, p \in FatIndex, x \in Cluster, y \in Cluster :
       MoveRec(s, p, x, y) \in RecSet /\ MoveRec(s, p, x, y).kind = "move"
BY DEF BuildRec, RemoveRec, AllocRec, MoveRec, RecSet, EntryRecs, AllocRecs, MoveRecs

LEMMA SetInode ==
  ASSUME NEW r \in Rams, NEW f \in File, NEW i, NEW s
  PROVE  /\ [r EXCEPT !.ino[f] = i]
            = [ino |-> [r.ino EXCEPT ![f] = i], segs |-> r.segs, writer |-> r.writer, pre |-> r.pre]
         /\ [r EXCEPT !.ino[f] = i].ino = [r.ino EXCEPT ![f] = i]
         /\ [r EXCEPT !.ino[f] = i].segs = r.segs /\ [r EXCEPT !.ino[f] = i].writer = r.writer
         /\ [r EXCEPT !.ino[f] = i].pre = r.pre
<1>1. r = [ino |-> r.ino, segs |-> r.segs, writer |-> r.writer, pre |-> r.pre]
  BY RamFields
<1>2. QED BY <1>1

-----------------------------------------------------------------------------
(***************************************************************************)
(* rfs_create and rfs_mkdir.                                               *)
(***************************************************************************)
NewInode(s, c) == [st |-> "alloc", slot |-> s, start |-> IF c = None THEN TAIL ELSE c,
                   last |-> IF c = None THEN TAIL ELSE c]

\* A function with another value at i; an in-core state with another inode f.
Put(fn, i, x) == [fn EXCEPT ![i] = x]
SetIno(r, f, i) == [r EXCEPT !.ino[f] = i]

WithCluster(fat, c) == IF c = None THEN fat ELSE Put(fat, c, TAIL)
ClusterSteps(c) == If(c # None, <<Rec(AllocRec(None, TAIL, TAIL, <<c>>)), Fat(c, TAIL)>>)
EntrySteps(s, x) == <<Rec(BuildRec(s)), Start(s, x), Live(s, TRUE)>>
\* The point behind them.
Clustered(d, c, e) ==
  /\ Sane(e) /\ Goes(d, ClusterSteps(c), e) /\ e.ram = d.ram /\ e.base = d.base
  /\ e.vol.live = d.vol.live /\ e.vol.start = d.vol.start /\ e.fixed = d.fixed
  /\ e.vol.fat = WithCluster(d.vol.fat, c)
Entered(d, s, x, e) ==
  /\ Sane(e) /\ Goes(d, EntrySteps(s, x), e) /\ e.ram = d.ram /\ e.base = d.base /\ e.log # <<>>
  /\ e.vol.live = Put(d.vol.live, s, TRUE) /\ e.vol.fat = d.vol.fat
  /\ e.vol.start = Put(d.vol.start, s, x) /\ e.fixed = d.fixed \cup {s}

\* The first cluster of a directory.
LEMMA CreateCluster ==
  ASSUME NEW d, NEW K, Fresh(d, K), NEW c \in Cluster \cup {None}, c # None => d.vol.fat[c] = FREE
  PROVE  \E e : Clustered(d, c, e)
<1> DEFINE t == ClusterSteps(c)
<1>1. /\ d.vol \in Volume /\ \A x \in FatIndex : d.base.fat[x] = d.vol.fat[x]
  BY FreshBase
<1>2. Sane(d)
  BY DEF Fresh
<1>3. CASE c = None
  <2>1. t = <<>>
    BY <1>3 DEF If, ClusterSteps
  <2>2. Clustered(d, c, d)
    BY <1>2, <1>3, <2>1, GoesNone DEF Clustered, WithCluster
  <2>3. QED BY <2>2
<1>4. CASE c # None
  <2> DEFINE r == AllocRec(None, TAIL, TAIL, <<c>>)
             s == Fat(c, TAIL)
             o == Logged(d, r)
             e == Edited(o, <<s>>)
  <2>1. c \in Cluster /\ c \in FatIndex /\ TAIL \in FatVal /\ d.base.fat[c] = FREE
    BY <1>1, <1>4 DEF FatVal, FatIndex
  <2>2. <<c>> \in Seq(Cluster) /\ ToSet(<<c>>) = {c}
    BY <2>1, TrailOne
  <2>3. r \in RecSet /\ r.kind = "alloc"
    BY <2>1, <2>2, RecTypes
  <2>4. Undo(r) = Frees(<<c>>) /\ Puts(d, Undo(r)) /\ SpotsOf(Undo(r)) = {<<"fat", c>>}
    <3>1. Undo(r) = <<>> \o Frees(<<c>>)
      BY UndoIs
    <3>2. Frees(<<c>>) \in Seq(FreeEdits) /\ SpotsOf(Frees(<<c>>)) = {<<"fat", z>> : z \in {c}}
      BY <2>2, FreesAre
    <3>3. Puts(d, Frees(<<c>>))
      BY <2>1, <2>2, PutsFrees
    <3>4. Undo(r) = Frees(<<c>>)
      BY <3>1, <3>2
    <3>5. QED BY <3>2, <3>3, <3>4
  <2> HIDE DEF r
  <2>5. s \in Edits /\ s.op = "fat" /\ <<s>> \in Seq(Edits) /\ <<s>> # <<>>
    <3>1. s \in Edits /\ s.op = "fat"
      BY <2>1, EditIntro DEF Fat
    <3>2. QED BY <3>1
  <2>6. <<"fat", c>> \in o.mask /\ o.vol = d.vol /\ o.ram = d.ram /\ o.base = d.base /\ o.fixed = d.fixed
    BY <2>4, LoggedPoint
  <2> HIDE DEF o
  <2>7. Puts(o, <<s>>) /\ AllSuit(o, <<s>>)
    <3>1. Lets(o, s) /\ Suits(o, s)
      BY <2>1, <2>6, LetsBy, SuitsBy
    <3>2. QED BY <3>1, PutsParts
  <2> HIDE DEF s
  <2>8. Sane(o)
    BY <1>2, <2>3, <2>4, GoesLone DEF o
  <2>9. Sane(e) /\ Goes(d, <<Rec(r)>> \o <<s>>, e)
    BY <1>2, <2>3, <2>4, <2>5, <2>7, GoesRecord DEF o
  <2>10. e.vol = Apply(d.vol, s) /\ e.fixed = d.fixed /\ e.ram = d.ram /\ e.base = d.base
    <3>1. e.vol = Apply(o.vol, s) /\ e.fixed = o.fixed \cup {}
      BY <2>5, <2>8, EditedOne
    <3>2. e.ram = o.ram /\ e.base = o.base
      BY EditedPoint
    <3>3. QED BY <2>6, <3>1, <3>2
  <2>11. /\ Apply(d.vol, s).fat = [d.vol.fat EXCEPT ![c] = TAIL]
         /\ Apply(d.vol, s).live = d.vol.live /\ Apply(d.vol, s).start = d.vol.start
    BY <1>1, <2>1, ApplyFat DEF s
  <2>12. t = <<Rec(r)>> \o <<s>>
    <3>1. t = <<Rec(r), s>>
      BY <1>4 DEF If, r, s, ClusterSteps
    <3>2. Rec(r) \in {Rec(r), s} /\ s \in {Rec(r), s}
      OBVIOUS
    <3>3. QED BY <3>1, <3>2, TwoSplit
  <2> HIDE DEF e
  <2>13. Clustered(d, c, e)
    BY <1>4, <2>9, <2>10, <2>11, <2>12 DEF Put, Clustered, WithCluster
  <2>14. QED BY <2>13
<1>5. QED BY <1>3, <1>4

\* The entry.
LEMMA CreateEntry ==
  ASSUME NEW d, Sane(d), NEW s \in Slot, ~d.base.live[s], Free(d.ram.ino, s),
         NEW x \in Cluster \cup {TAIL}
  PROVE  \E e : Entered(d, s, x, e)
<1> DEFINE r == BuildRec(s)
           a == Start(s, x)
           b == Live(s, TRUE)
           o == Logged(d, r)
           e == Edited(o, <<a, b>>)
<1>1. d.vol \in Volume /\ d.log \in Seq(RecSet) /\ d.base \in Volume /\ d.base.live[s] = FALSE
  <2>1. d.base \in Volume
    BY DEF Sane
  <2>2. d.base.live[s] \in BOOLEAN
    BY <2>1, VolumeFields
  <2>3. QED BY <2>1, <2>2 DEF Sane
<1>2. r \in RecSet /\ r.kind = "build"
  BY RecTypes
<1>3. Puts(d, Undo(r)) /\ SpotsOf(Undo(r)) = {<<"live", s>>}
  <2>1. Undo(r) = <<Live(s, FALSE)>>
    BY UndoIs
  <2>2. Lets(d, Live(s, FALSE))
    BY <1>1, LetsBy
  <2>3. QED BY <2>1, <2>2, PutsParts, SpotsOne, SpotIntro
<1> HIDE DEF r
<1>4. /\ o.mask = d.mask \cup {<<"live", s>>} /\ o.vol = d.vol /\ o.ram = d.ram /\ o.base = d.base
      /\ o.fixed = d.fixed /\ o.log = Append(d.log, r)
  <2>1. /\ o.vol = d.vol /\ o.log = Append(d.log, r) /\ o.ram = d.ram /\ o.base = d.base
        /\ o.mask = d.mask \cup SpotsOf(Undo(r)) /\ o.fixed = d.fixed
    BY LoggedPoint
  <2>2. QED BY <1>3, <2>1
<1> HIDE DEF o
<1>5. a \in Edits /\ b \in Edits /\ a.op = "start" /\ a.at = s /\ b.op = "live" /\ <<a, b>> \in Seq(Edits) /\ <<a, b>> # <<>>
  <2>1. a \in Edits /\ b \in Edits
    BY EditIntro
  <2>2. a.op = "start" /\ a.at = s /\ b.op = "live"
    BY DEF Start, Live
  <2> HIDE DEF a, b
  <2>3. <<a, b>> \in Seq(Edits)
    BY <2>1, Three
  <2>4. <<a, b>> # <<>>
    OBVIOUS
  <2>5. QED BY <2>1, <2>2, <2>3, <2>4
<1>6. Puts(o, <<a, b>>) /\ AllSuit(o, <<a, b>>)
  <2>1. Lets(o, a)
    BY <1>4, LetsBy
  <2>2. Lets(o, b)
    BY <1>4, LetsBy
  <2>3. Suits(o, a) /\ Suits(o, b)
    BY <1>4, SuitsBy DEF Free
  <2>4. QED BY <2>1, <2>2, <2>3, PutsParts
<1> HIDE DEF a, b
<1>7. Sane(o)
  BY <1>2, <1>3, GoesLone DEF o
<1>8. Sane(e) /\ Goes(d, <<Rec(r)>> \o <<a, b>>, e)
  BY <1>2, <1>3, <1>5, <1>6, GoesRecord DEF o
<1>9. e.vol = Apply(Apply(d.vol, a), b) /\ Apply(d.vol, a) \in Volume /\ e.fixed = d.fixed \cup {s}
      /\ e.ram = d.ram /\ e.base = d.base /\ e.log = Append(d.log, r)
  <2>1. e.vol = Apply(Apply(o.vol, a), b) /\ Apply(o.vol, a) \in Volume /\ e.fixed = o.fixed \cup {s}
    BY <1>5, <1>7, EditedTwo
  <2>2. e.ram = o.ram /\ e.base = o.base /\ e.log = o.log
    BY EditedPoint
  <2>3. QED BY <1>4, <2>1, <2>2
<1>10. /\ Apply(d.vol, a).start = [d.vol.start EXCEPT ![s] = x]
       /\ Apply(d.vol, a).live = d.vol.live /\ Apply(d.vol, a).fat = d.vol.fat
  BY <1>1, ApplyStart DEF a
<1>11. /\ e.vol.live = [Apply(d.vol, a).live EXCEPT ![s] = TRUE]
       /\ e.vol.start = Apply(d.vol, a).start /\ e.vol.fat = Apply(d.vol, a).fat
  <2> DEFINE w == Apply(d.vol, a)
  <2>1. w \in Volume
    BY <1>9
  <2> HIDE DEF w
  <2>2. /\ Apply(w, Live(s, TRUE)).live = [w.live EXCEPT ![s] = TRUE]
        /\ Apply(w, Live(s, TRUE)).start = w.start /\ Apply(w, Live(s, TRUE)).fat = w.fat
    BY <2>1, ApplyLive
  <2>3. e.vol = Apply(w, Live(s, TRUE))
    BY <1>9 DEF w, b
  <2>4. QED BY <2>2, <2>3 DEF w
<1>12. Append(d.log, r) # <<>>
  BY <1>1
<1> HIDE DEF e
<1>13. EntrySteps(s, x) = <<Rec(r)>> \o <<a, b>>
  <2>1. EntrySteps(s, x) = <<Rec(r), a, b>>
    BY DEF r, a, b, EntrySteps
  <2>2. QED BY <2>1, ThreeSplit
<1>14. Entered(d, s, x, e)
  BY <1>8, <1>9, <1>10, <1>11, <1>12, <1>13 DEF Put, Entered
<1>15. QED BY <1>14

\* The clusters of a chain are not free.
LEMMA TrailUsed ==
  ASSUME NEW fat, NEW p \in Seq(Cluster), NEW e \in Cluster \cup {TAIL}, Trail(fat, p, e)
  PROVE  \A x \in ToSet(p) : fat[x] \in Cluster \cup {TAIL} /\ fat[x] # FREE
<1>1. SUFFICES ASSUME NEW i \in 1..Len(p)
               PROVE  fat[p[i]] \in Cluster \cup {TAIL}
  BY SetIs, ConstantFacts DEF FatIndex
<1>2. CASE i = Len(p)
  BY <1>2 DEF Trail
<1>3. CASE i # Len(p)
  <2>1. i + 1 \in 1..Len(p) /\ p[i + 1] \in Cluster
    BY <1>3
  <2>2. \A j \in 1..Len(p) : j = i + 1 => fat[p[i]] = p[j]
    BY DEF Trail
  <2>3. QED BY <2>1, <2>2
<1>4. QED BY <1>2, <1>3

\* The clusters of the chain of g are in use.
Used(v, r, K, g) ==
  /\ K[g] \in Seq(Cluster)
  /\ \A x \in ToSet(K[g]) : x \in Cluster /\ v.fat[x] \in Cluster \cup {TAIL} /\ v.fat[x] # FREE
  /\ r.ino[g].start = TAIL <=> K[g] = <<>>
  /\ K[g] # <<>> => r.ino[g].last \in ToSet(K[g])

LEMMA ShapeUsed ==
  ASSUME NEW v, NEW r \in Rams, NEW K, Shape(v, r, K), NEW g \in File
  PROVE  Used(v, r, K, g)
<1>1. K[g] \in Seq(Cluster)
  BY DEF Shape
<1>2. r.ino[g].start = TAIL <=> K[g] = <<>>
  <2>1. r.ino[g].start = HeadOr(K[g], TAIL)
    BY DEF Shape
  <2>2. CASE K[g] = <<>>
    BY <2>1, <2>2 DEF HeadOr
  <2>3. CASE K[g] # <<>>
    <3>1. K[g][1] \in Cluster
      BY <1>1, <2>3
    <3>2. r.ino[g].start = K[g][1]
      BY <2>1, <2>3 DEF HeadOr
    <3>3. QED BY <2>3, <3>1, <3>2, ConstantFacts
  <2>4. QED BY <2>2, <2>3
<1>3. ASSUME NEW x \in ToSet(K[g])
      PROVE  x \in Cluster /\ v.fat[x] \in Cluster \cup {TAIL} /\ v.fat[x] # FREE
  <2>1. x \in Cluster /\ K[g] # <<>>
    BY <1>1, <1>3, SetIs
  <2>2. r.ino[g].st \in {"none", "alloc", "free"}
    BY RamFields DEF Inodes
  <2>3. CASE r.ino[g].st = "none"
    BY <2>1, <2>3 DEF Shape
  <2>4. CASE r.ino[g].st = "alloc"
    <3>1. Trail(v.fat, K[g], TAIL)
      BY <2>4 DEF Shape
    <3>2. QED BY <1>1, <1>3, <2>1, <3>1, TrailUsed
  <2>5. CASE r.ino[g].st = "free"
    <3>1. PICK k \in 1..Len(r.segs) : r.segs[k] = g
      BY <1>2, <2>1, <2>5, SegFacts
    <3>2. Trail(v.fat, K[r.segs[k]], SegNext(r, k))
      BY DEF Shape
    <3>3. SegNext(r, k) \in Cluster \cup {TAIL}
      BY RamsListed, SegTypes, SegFacts
    <3>4. Trail(v.fat, K[g], SegNext(r, k))
      BY <3>1, <3>2
    <3>5. QED BY <1>1, <1>3, <2>1, <3>3, <3>4, TrailUsed
  <2>6. QED BY <2>2, <2>3, <2>4, <2>5
<1>4. ASSUME K[g] # <<>>
      PROVE  r.ino[g].last \in ToSet(K[g])
  <2>1. r.ino[g].last = K[g][Len(K[g])] /\ Len(K[g]) \in 1..Len(K[g])
    BY <1>1, <1>4 DEF Shape
  <2>2. QED BY <1>1, <2>1, SetIs
<1>5. QED BY <1>1, <1>2, <1>3, <1>4 DEF Used

LEMMA CreateUp ==
  ASSUME NEW r \in Rams, NEW f \in File, r.ino[f].st = "none", NEW s \in Slot,
         NEW c \in Cluster \cup {None}, NEW up, up = SetIno(r, f, NewInode(s, c))
  PROVE  /\ up \in Rams /\ up.ino = Put(r.ino, f, NewInode(s, c)) /\ up.segs = r.segs
         /\ up.writer = r.writer /\ up.pre = r.pre
<1> DEFINE i == NewInode(s, c)
<1>1. i \in Inodes /\ InodeOK(i) /\ i.st = "alloc"
  BY ConstantFacts DEF NewInode, Inodes, InodeOK, FatIndex
<1> HIDE DEF i
<1>2. up = [ino |-> [r.ino EXCEPT ![f] = i], segs |-> r.segs, writer |-> r.writer, pre |-> r.pre]
  BY SetInode DEF i, SetIno
<1>3. [r.ino EXCEPT ![f] = i] \in [File -> Inodes] /\ \A h \in File : InodeOK([r.ino EXCEPT ![f] = i][h])
  BY <1>1, RamFields
<1>4. Hung([r.ino EXCEPT ![f] = i]) = Hung(r.ino)
  <2>1. r.ino \in [File -> Inodes]
    BY RamFields
  <2>2. QED BY <1>1, <2>1 DEF Hung
<1>5. up \in Rams
  <2>1. /\ r.segs \in Seq(File) /\ r.writer \in File \cup {None} /\ r.pre \in Seq(Cluster)
        /\ IsInjective(r.segs) /\ ToSet(r.segs) = Hung([r.ino EXCEPT ![f] = i]) /\ IsInjective(r.pre)
    BY <1>4, RamFields
  <2> DEFINE n == [r.ino EXCEPT ![f] = i]
  <2>2. n \in [File -> Inodes] /\ (\A h \in File : InodeOK(n[h])) /\ ToSet(r.segs) = Hung(n)
        /\ up = [ino |-> n, segs |-> r.segs, writer |-> r.writer, pre |-> r.pre]
    BY <1>2, <1>3, <2>1
  <2> HIDE DEF n
  <2>3. [ino |-> n, segs |-> r.segs, writer |-> r.writer, pre |-> r.pre] \in Rams
    BY <2>1, <2>2, RamIntro
  <2>4. QED BY <2>2, <2>3
<1>6. QED BY <1>2, <1>5 DEF i, Put

\* The inode in the place of none.
Created(v, r, f, s, c, w, q) ==
  /\ r.ino[f].st = "none" /\ ~v.live[s] /\ (c # None => v.fat[c] = FREE)
  /\ q.ino = Put(r.ino, f, NewInode(s, c)) /\ q.segs = r.segs
  /\ w.live = Put(v.live, s, TRUE) /\ w.fat = WithCluster(v.fat, c)

LEMMA CreateShape ==
  ASSUME NEW v \in Volume, NEW r \in Rams, NEW K, Shape(v, r, K), NEW f \in File, NEW s \in Slot,
         NEW c \in Cluster \cup {None}, NEW q \in Rams, NEW w, Created(v, r, f, s, c, w, q)
  PROVE  \E L : Shape(w, q, L)
<1> DEFINE i == NewInode(s, c)
           l == IF c = None THEN <<>> ELSE <<c>>
           L == [K EXCEPT ![f] = l]
<1>0. /\ r.ino[f].st = "none" /\ ~v.live[s] /\ (c # None => v.fat[c] = FREE)
      /\ q.ino = Put(r.ino, f, NewInode(s, c)) /\ q.segs = r.segs
      /\ w.live = Put(v.live, s, TRUE) /\ w.fat = IF c = None THEN v.fat ELSE Put(v.fat, c, TAIL)
  BY DEF WithCluster, Created
<1> USE <1>0
<1>1. /\ q \in Rams /\ q.ino = [r.ino EXCEPT ![f] = i] /\ q.segs = r.segs
      /\ r.ino \in [File -> Inodes] /\ K \in [File -> Seq(Cluster)]
      /\ v.fat \in FatMap /\ v.live \in [Slot -> BOOLEAN]
  <2>1. q \in Rams /\ q.ino = [r.ino EXCEPT ![f] = i] /\ q.segs = r.segs
    BY DEF Put
  <2>2. r.ino \in [File -> Inodes] /\ K \in [File -> Seq(Cluster)]
    BY RamFields DEF Shape
  <2>3. QED BY <2>1, <2>2, VolumeFields
<1>2. i.st = "alloc" /\ i.slot = s /\ i.start = (IF c = None THEN TAIL ELSE c)
      /\ i.last = (IF c = None THEN TAIL ELSE c)
  BY DEF NewInode
<1> HIDE DEF i
<1>3. /\ q.ino[f] = i /\ \A g \in File : g # f => q.ino[g] = r.ino[g]
      /\ \A g \in File : q.ino[g] = IF g = f THEN i ELSE r.ino[g]
  BY <1>1
<1>4. /\ l \in Seq(Cluster) /\ Once(l) /\ i.start = HeadOr(l, TAIL) /\ (l # <<>> => i.last = l[Len(l)])
      /\ Trail(w.fat, l, TAIL) /\ ToSet(l) = (IF c = None THEN {} ELSE {c})
  <2>1. CASE c = None
    <3>1. l = <<>>
      BY <2>1
    <3>2. QED BY <1>2, <2>1, <3>1, TrailNone
  <2>2. CASE c # None
    <3>1. l = <<c>> /\ c \in Cluster /\ c \in FatIndex /\ w.fat[c] = TAIL
      BY <1>1, <2>2 DEF FatIndex, FatMap, Put
    <3>2. Once(<<c>>) /\ ToSet(<<c>>) = {c} /\ Trail(w.fat, <<c>>, TAIL)
      BY <3>1, TrailOne
    <3>3. <<c>> \in Seq(Cluster) /\ HeadOr(<<c>>, TAIL) = c /\ <<c>>[Len(<<c>>)] = c
      BY <3>1 DEF HeadOr
    <3>4. QED BY <1>2, <2>2, <3>1, <3>2, <3>3
  <2>3. QED BY <2>1, <2>2
<1> HIDE DEF l
<1>5. L \in [File -> Seq(Cluster)] /\ L[f] = l /\ \A g \in File : g # f => L[g] = K[g]
  BY <1>1, <1>4
<1> HIDE DEF L
<1>6. \A g \in File : \A x \in ToSet(K[g]) : (c # None => x # c) /\ w.fat[x] = v.fat[x]
  <2>1. SUFFICES ASSUME NEW g \in File, NEW x \in ToSet(K[g])
                 PROVE  (c # None => x # c) /\ w.fat[x] = v.fat[x]
    OBVIOUS
  <2>2. x \in Cluster /\ v.fat[x] # FREE
    <3>1. Used(v, r, K, g)
      BY ShapeUsed
    <3>2. QED BY <3>1 DEF Used
  <2>3. CASE c = None
    BY <2>3
  <2>4. CASE c # None
    <3>1. x # c /\ x \in FatIndex
      BY <2>2, <2>4 DEF FatIndex
    <3>2. QED BY <1>1, <2>4, <3>1 DEF FatMap, Put
  <2>5. QED BY <2>3, <2>4
<1>7. Distinct(q.ino) /\ \A u \in Slot : w.live[u] <=> \E g \in File : Owns(q.ino, g, u)
  <2>1. /\ Distinct(r.ino)
        /\ \A u \in Slot : v.live[u] <=> \E g \in File : Owns(r.ino, g, u)
    BY DEF Shape
  <2>2. \A g \in File, u \in Slot : Owns(q.ino, g, u) <=> (IF g = f THEN u = s ELSE Owns(r.ino, g, u))
    BY <1>2, <1>3 DEF Owns
  <2>3. \A g \in File : ~Owns(r.ino, g, s)
    BY <2>1
  <2>4. ~\E u \in Slot : Owns(r.ino, f, u)
    BY DEF Owns
  <2>5. Distinct(q.ino)
    BY <2>1, <2>2, <2>3 DEF Distinct
  <2>6. ASSUME NEW u \in Slot
        PROVE  w.live[u] <=> \E g \in File : Owns(q.ino, g, u)
    <3>1. CASE u = s
      <4>1. w.live[u] /\ Owns(q.ino, f, u)
        BY <1>1, <2>2, <3>1 DEF Put
      <4>2. QED BY <4>1
    <3>2. CASE u # s
      <4>1. w.live[u] = v.live[u]
        BY <1>1, <3>2 DEF Put
      <4>2. \A g \in File : Owns(q.ino, g, u) <=> Owns(r.ino, g, u)
        BY <2>2, <2>4, <3>2
      <4>3. QED BY <2>1, <4>1, <4>2
    <3>3. QED BY <3>1, <3>2
  <2>7. QED BY <2>5, <2>6
<1>8. /\ w.fat[Log] = SegNext(q, 0)
      /\ \A k \in 1..Len(q.segs) : Trail(w.fat, L[q.segs[k]], SegNext(q, k))
  <2>1. w.fat[Log] = v.fat[Log]
    BY <1>1, RfsAssumption DEF FatMap, FatIndex, Put
  <2>2. \A k \in 1..Len(r.segs) : r.segs[k] \in File /\ r.segs[k] # f
    BY SegFacts
  <2>3. \A k \in 1..Len(r.segs) : q.ino[r.segs[k]] = r.ino[r.segs[k]]
    BY <1>3, <2>2
  <2>4. \A k \in 1..Len(r.segs) : /\ L[r.segs[k]] = K[r.segs[k]]
                                  /\ SameOn(v.fat, w.fat, ToSet(K[r.segs[k]]))
    BY <1>5, <1>6, <2>2 DEF SameOn
  <2>5. QED BY <1>1, <2>1, <2>3, <2>4, SegsKeep
<1>9. \A g \in File : g # f => ToSet(L[f]) \cap ToSet(K[g]) = {}
  BY <1>4, <1>5, <1>6
<1>10. \A g \in File : g # f /\ r.ino[g].st = "alloc" => SameOn(v.fat, w.fat, ToSet(K[g]))
  BY <1>6 DEF SameOn
<1>11. \A x \in Cluster : w.fat[x] # FREE /\ x \notin ToSet(L[f]) => v.fat[x] # FREE /\ x \notin ToSet(K[f])
  <2>1. K[f] = <<>> /\ ToSet(K[f]) = {}
    BY TrailNone DEF Shape
  <2>2. ASSUME NEW x \in Cluster, x \notin ToSet(L[f])
        PROVE  w.fat[x] = v.fat[x]
    <3>1. x \in FatIndex /\ (c # None => x # c)
      BY <1>4, <1>5, <2>2 DEF FatIndex
    <3>2. QED BY <1>1, <3>1 DEF FatMap, Put
  <2>3. QED BY <2>1, <2>2
<1>12. /\ Once(L[f]) /\ q.ino[f].start = HeadOr(L[f], TAIL)
       /\ L[f] # <<>> => q.ino[f].last = L[f][Len(L[f])]
       /\ q.ino[f].st = "none" => L[f] = <<>>
       /\ q.ino[f].st = "alloc" => Trail(w.fat, L[f], TAIL)
  BY <1>2, <1>3, <1>4, <1>5
<1>13. \A g \in File : g # f => q.ino[g] = r.ino[g] /\ L[g] = K[g]
  BY <1>3, <1>5
<1>14. Changes(v, r, K, f, w, q, L)
  BY <1>5, <1>7, <1>8, <1>9, <1>10, <1>11, <1>12, <1>13 DEF Changes
<1>15. Shape(w, q, L)
  BY <1>14, ShapeChange
<1>16. QED BY <1>15

LEMMA CreateDone ==
  ASSUME NEW d, NEW K, Fresh(d, K), NEW f \in File, d.ram.ino[f].st = "none", NEW s \in Slot, ~d.vol.live[s],
         NEW c \in Cluster \cup {None}, c # None => d.vol.fat[c] = FREE,
         NEW up, up = SetIno(d.ram, f, NewInode(s, c)), NEW x, x = NewInode(s, c).start,
         NEW c0, NEW A, Goes(c0, A, d)
  PROVE  Done(c0, A \o ClusterSteps(c) \o (EntrySteps(s, x) \o <<Ram(up)>>) \o LogEnd(up, None))
<1>1. /\ d.vol \in Volume /\ d.ram \in Rams /\ Shape(d.vol, d.ram, K)
      /\ d.base.live[s] = d.vol.live[s]
      /\ \A g \in File, u \in Slot : Owns(d.ram.ino, g, u) =>
           u \in d.fixed /\ d.vol.live[u] /\ d.vol.start[u] = d.ram.ino[g].start
  BY FreshBase
<1>2. Free(d.ram.ino, s)
  BY <1>1 DEF Free
<1>3. /\ up \in Rams /\ up.ino = Put(d.ram.ino, f, NewInode(s, c)) /\ up.segs = d.ram.segs
      /\ up.writer = d.ram.writer /\ up.pre = d.ram.pre
  BY <1>1, CreateUp
<1>4. \A g \in File, u \in Slot : Owns(up.ino, g, u) =>
        IF g = f THEN u = s /\ up.ino[g].start = x ELSE Owns(d.ram.ino, g, u) /\ up.ino[g].start = d.ram.ino[g].start
  <2>1. d.ram.ino \in [File -> Inodes] /\ NewInode(s, c).slot = s
    BY <1>1, RamFields DEF NewInode
  <2>2. up.ino[f] = NewInode(s, c) /\ \A g \in File : g # f => up.ino[g] = d.ram.ino[g]
    BY <1>3, <2>1 DEF Put
  <2>3. QED BY <2>1, <2>2 DEF Owns
<1>5. x \in Cluster \cup {TAIL}
  BY DEF NewInode
<1> DEFINE t1 == ClusterSteps(c)
           t2 == EntrySteps(s, x)
<1>6. PICK e1 : Clustered(d, c, e1)
  BY CreateCluster
<1>7. PICK e2 : Entered(e1, s, x, e2)
  <2>1. Sane(e1) /\ ~e1.base.live[s] /\ Free(e1.ram.ino, s)
    BY <1>1, <1>2, <1>6 DEF Clustered
  <2>2. QED BY <1>5, <2>1, CreateEntry
<1>15. /\ Sane(e1) /\ Goes(d, t1, e1) /\ Sane(e2) /\ Goes(e1, t2, e2)
       /\ e2.ram = d.ram /\ e2.base = d.base /\ e2.log # <<>>
       /\ e2.vol.live = Put(d.vol.live, s, TRUE) /\ e2.vol.start = Put(d.vol.start, s, x)
       /\ e2.vol.fat = WithCluster(d.vol.fat, c) /\ e2.fixed = d.fixed \cup {s}
  BY <1>6, <1>7 DEF Clustered, Entered
<1> HIDE DEF t1, t2
<1> DEFINE e3 == Turned(e2, up, e2.fixed)
<1>8. Sane(e3) /\ Goes(e2, <<Ram(up)>>, e3)
  <2>1. \A u \in Slot : e2.base.live[u] /\ <<"start", u>> \notin e2.mask => u \in e2.fixed
    BY <1>15 DEF Sane
  <2>2. ASSUME NEW g \in File, NEW u \in e2.fixed, Owns(up.ino, g, u)
        PROVE  e2.vol.start[u] = up.ino[g].start
    <3>1. u \in Slot /\ d.vol.start \in [Slot -> Cluster \cup {TAIL}]
      <4>1. u \in Slot
        BY <1>15 DEF Sane
      <4>2. d.vol \in Volume
        BY <1>1
      <4>3. QED BY <4>1, <4>2, VolumeFields
    <3>2. e2.vol.start = Put(d.vol.start, s, x)
      BY <1>15
    <3>3. CASE g = f
      BY <1>4, <2>2, <3>1, <3>2, <3>3 DEF Put
    <3>4. CASE g # f
      <4>1. Owns(d.ram.ino, g, u) /\ up.ino[g].start = d.ram.ino[g].start /\ u # s
        BY <1>2, <1>4, <2>2, <3>1, <3>4 DEF Free
      <4>2. QED BY <1>1, <3>1, <3>2, <4>1 DEF Put
    <3>5. QED BY <3>3, <3>4
  <2>3. QED BY <1>3, <1>15, <2>1, <2>2, GoesRam
<1> HIDE DEF e3
<1>9. e3.vol = e2.vol /\ e3.log = e2.log /\ e3.ram = up /\ e3.fixed = e2.fixed
  <2>1. e3 = Turned(e2, up, e2.fixed)
    BY DEF e3
  <2>2. QED BY <2>1 DEF Turned, Point
<1>10. PICK L : Shape(e3.vol, e3.ram, L)
  <2>1. e2.vol.live = Put(d.vol.live, s, TRUE) /\ e2.vol.fat = WithCluster(d.vol.fat, c)
    BY <1>15
  <2>2. Created(d.vol, d.ram, f, s, c, e2.vol, up)
    BY <1>3, <2>1 DEF Created
  <2>4. \E L : Shape(e2.vol, up, L)
    BY <1>1, <1>3, <2>2, CreateShape
  <2>3. QED BY <1>9, <2>4
<1>11. \A g \in File, u \in Slot : Owns(e3.ram.ino, g, u) /\ g # None => u \in e3.fixed
  BY <1>1, <1>4, <1>9, <1>15
<1>12. PICK e4 : Fresh(e4, L) /\ Goes(e3, LogEnd(e3.ram, None), e4)
  <2>1. e3.log # <<>>
    BY <1>9, <1>15
  <2>2. QED BY <1>8, <1>10, <1>11, <2>1, GoesLogEnd
<1>13. Goes(c0, ((A \o t1) \o (t2 \o <<Ram(up)>>)) \o LogEnd(up, None), e4)
  <2>1. Goes(c0, A \o t1, e1)
    BY <1>15, GoesConcat
  <2>2. Goes(e1, t2 \o <<Ram(up)>>, e3)
    BY <1>8, <1>15, GoesConcat
  <2>3. Goes(c0, (A \o t1) \o (t2 \o <<Ram(up)>>), e3)
    BY <2>1, <2>2, GoesConcat
  <2>4. QED BY <1>9, <1>12, <2>3, GoesConcat
<1>14. Done(c0, ((A \o t1) \o (t2 \o <<Ram(up)>>)) \o LogEnd(up, None))
  BY <1>12, <1>13, FreshDone
<1>16. QED BY <1>14 DEF t1, t2

\* The state of the model and a point between two operations.
Stands(c, K) == /\ Sane(c) /\ Rest(c, K) /\ c.ram = ram
                /\ cache.fat = c.vol.fat /\ cache.live = c.vol.live
                /\ cache \in Volume /\ \A s \in c.fixed : cache.start[s] = c.vol.start[s]

LEMMA StandsFresh ==
  ASSUME NEW c, NEW K, Stands(c, K)
  PROVE  \E d : /\ Fresh(d, K) /\ Goes(c, CommitDeferred(ram), d) /\ d.ram = Released(ram)
                /\ d.vol.fat = cache.fat /\ d.vol.live = cache.live
                /\ ram \in Rams /\ Released(ram) \in Rams
                /\ Released(ram).ino = ram.ino /\ Released(ram).segs = ram.segs
<1>1. Sane(c) /\ Rest(c, K) /\ c.ram = ram /\ cache.fat = c.vol.fat /\ cache.live = c.vol.live
  BY DEF Stands
<1>2. PICK d : /\ Fresh(d, K) /\ Goes(c, CommitDeferred(c.ram), d) /\ d.ram = Released(c.ram)
               /\ d.vol.fat = c.vol.fat /\ d.vol.live = c.vol.live
  BY <1>1, GoesCommit
<1>3. ram \in Rams
  BY <1>1 DEF Sane
<1>4. Released(ram) \in Rams /\ Released(ram).ino = ram.ino /\ Released(ram).segs = ram.segs
  BY <1>3, ReleasedType
<1>5. QED BY <1>1, <1>2, <1>3, <1>4

LEMMA CreateReaches ==
  ASSUME NEW c0, NEW K, Stands(c0, K), NEW f \in File, ram.ino[f].st = "none",
         NEW s \in Slot, ~cache.live[s], NEW c \in Cluster \cup {None}, c # None => cache.fat[c] = FREE
  PROVE  Done(c0, CreateSteps(f, s, c))
<1>1. PICK d : /\ Fresh(d, K) /\ Goes(c0, CommitDeferred(ram), d) /\ d.ram = Released(ram)
               /\ d.vol.fat = cache.fat /\ d.vol.live = cache.live
               /\ ram \in Rams /\ Released(ram) \in Rams
               /\ Released(ram).ino = ram.ino /\ Released(ram).segs = ram.segs
  BY StandsFresh
<1> DEFINE i == NewInode(s, c)
           up == SetIno(d.ram, f, i)
           x == i.start
           b == EntrySteps(s, x)
           a == ClusterSteps(c)
           t == CommitDeferred(ram) \o a \o (b \o <<Ram(up)>>) \o LogEnd(up, None)
<1>2. Done(c0, t)
  <2>1. d.ram.ino[f].st = "none" /\ ~d.vol.live[s] /\ (c # None => d.vol.fat[c] = FREE)
    BY <1>1
  <2>2. QED BY <1>1, <2>1, CreateDone
<1>3. CreateSteps(f, s, c) = t
  <2>1. <<Rec(BuildRec(s)), Start(s, x), Live(s, TRUE), Ram(up)>> = b \o <<Ram(up)>>
    BY Split4 DEF EntrySteps
  <2>2. up = [Released(ram) EXCEPT !.ino[f] = [st |-> "alloc", slot |-> s,
            start |-> IF c = None THEN TAIL ELSE c, last |-> IF c = None THEN TAIL ELSE c]]
    BY <1>1 DEF SetIno, NewInode
  <2>3. x = IF c = None THEN TAIL ELSE c
    BY DEF NewInode
  <2>4. CreateSteps(f, s, c) = CommitDeferred(ram) \o a
          \o <<Rec(BuildRec(s)), Start(s, x), Live(s, TRUE), Ram(up)>> \o LogEnd(up, None)
    BY <2>2, <2>3 DEF CreateSteps, ClusterSteps
  <2>5. QED BY <2>1, <2>4
<1>4. QED BY <1>2, <1>3

\* A trail to another end.
LEMMA TrailTurns ==
  ASSUME NEW S, NEW p \in Seq(S), NEW fat, NEW new, NEW e, NEW d, Trail(fat, p, e), Once(p),
         p # <<>>, new[p[Len(p)]] = d, SameOn(fat, new, ToSet(p) \ {p[Len(p)]})
  PROVE  Trail(new, p, d)
<1>1. \A c \in ToSet(p) : c # p[Len(p)] => new[c] = fat[c]
  BY DEF SameOn
<1>2. QED BY <1>1, TrailEnds

-----------------------------------------------------------------------------
(***************************************************************************)
(* rfs_unlink: the entry goes, the chain is moved behind the log file.     *)
(***************************************************************************)
DeletedBy(r, f, q) ==
  /\ q \in Rams /\ \A g \in File : g # f => q.ino[g] = r.ino[g]
  /\ q.ino[f].st = "free" /\ q.ino[f].start = r.ino[f].start /\ q.ino[f].last = r.ino[f].last
  /\ q.segs = IF r.ino[f].start = TAIL THEN r.segs ELSE Append(r.segs, f)
  /\ q.writer = r.writer /\ q.pre = r.pre

LEMMA DeletedFacts ==
  ASSUME NEW r \in Rams, NEW f \in File, r.ino[f].st = "alloc"
  PROVE  DeletedBy(r, f, Deleted(r, f))
<1> DEFINE i == [r.ino[f] EXCEPT !.st = "free"]
           q == Deleted(r, f)
<1>1. /\ q \in Rams /\ q.ino = [r.ino EXCEPT ![f] = i]
      /\ q.segs = IF r.ino[f].start = TAIL THEN r.segs ELSE Append(r.segs, f)
      /\ q.writer = r.writer /\ q.pre = r.pre
  BY DeletedType
<1> HIDE DEF q
<1>2. r.ino \in [File -> Inodes] /\ r.ino[f] \in Inodes
  BY RamFields
<1>3. i.st = "free" /\ i.start = r.ino[f].start /\ i.last = r.ino[f].last
  BY <1>2 DEF Inodes
<1> HIDE DEF i
<1>4. q.ino[f] = i /\ \A g \in File : g # f => q.ino[g] = r.ino[g]
  BY <1>1, <1>2
<1>5. DeletedBy(r, f, q)
  BY <1>1, <1>3, <1>4 DEF DeletedBy
<1>6. QED BY <1>5 DEF q

\* The last cluster of the log file's chain.
EndBy(v, r, K) ==
  /\ SegEnd(r) \in FatIndex /\ v.fat[SegEnd(r)] = TAIL
  /\ \A g \in File : r.ino[g].st # "free" => SegEnd(r) \notin ToSet(K[g])
  /\ Len(r.segs) = 0 => SegEnd(r) = Log
  /\ Len(r.segs) # 0 => LET p == K[r.segs[Len(r.segs)]]
                        IN p \in Seq(Cluster) /\ p # <<>> /\ SegEnd(r) = p[Len(p)] /\ SegEnd(r) \in ToSet(p)

LEMMA SegEndFacts ==
  ASSUME NEW v, NEW r \in Rams, NEW K, Shape(v, r, K)
  PROVE  EndBy(v, r, K)
<1>1. SegEnd(r) \in FatIndex /\ Len(r.segs) \in Nat
  BY RamsListed, SegTypes
<1>2. CASE Len(r.segs) = 0
  <2>1. SegEnd(r) = Log /\ SegNext(r, 0) = TAIL
    BY <1>2 DEF SegEnd, SegLast, SegNext
  <2>2. v.fat[Log] = TAIL
    BY <2>1 DEF Shape
  <2>3. ASSUME NEW g \in File PROVE Log \notin ToSet(K[g])
    <3>1. Used(v, r, K, g)
      BY ShapeUsed
    <3>2. QED BY <3>1, RfsAssumption DEF Used
  <2>4. QED BY <1>1, <1>2, <2>1, <2>2, <2>3 DEF EndBy
<1>3. CASE Len(r.segs) # 0
  <2> DEFINE n == Len(r.segs)
             h == r.segs[n]
             p == K[h]
  <2>1. n \in 1..Len(r.segs) /\ h \in File /\ r.ino[h].st = "free" /\ r.ino[h].start # TAIL
    BY <1>1, <1>3, SegFacts
  <2>2. Used(v, r, K, h)
    BY <2>1, ShapeUsed
  <2>3. p \in Seq(Cluster) /\ p # <<>> /\ Len(p) \in 1..Len(p)
    BY <2>1, <2>2 DEF Used
  <2>4. SegEnd(r) = r.ino[h].last /\ SegNext(r, n) = TAIL
    BY <1>3, <2>1 DEF SegEnd, SegLast, SegNext
  <2>5. r.ino[h].last = p[Len(p)] /\ Trail(v.fat, p, TAIL)
    BY <2>1, <2>3, <2>4 DEF Shape
  <2>6. v.fat[p[Len(p)]] = TAIL
    BY <2>3, <2>5 DEF Trail
  <2>7. SegEnd(r) \in ToSet(p)
    BY <2>3, <2>4, <2>5, SetIs
  <2>8. ASSUME NEW g \in File, r.ino[g].st # "free" PROVE SegEnd(r) \notin ToSet(K[g])
    <3>1. ToSet(K[g]) \cap ToSet(p) = {}
      BY <2>1, <2>8 DEF Shape
    <3>2. QED BY <2>7, <3>1
  <2>9. QED BY <1>1, <1>3, <2>3, <2>4, <2>5, <2>6, <2>7, <2>8 DEF EndBy
<1>4. QED BY <1>2, <1>3

Hooked(fat, r, f) == IF r.ino[f].start = TAIL THEN fat ELSE Put(fat, SegEnd(r), r.ino[f].start)
LiveBy(w, ino) == \A s \in Slot : w.live[s] <=> \E g \in File : Owns(ino, g, s)

\* The same chains, one of them behind the others now.
LEMMA HookedTrails ==
  ASSUME NEW v, v.fat \in FatMap, NEW r \in Rams, NEW K, Shape(v, r, K), NEW f \in File,
         r.ino[f].st = "alloc", r.ino[f].start # TAIL, NEW q, DeletedBy(r, f, q),
         NEW fat, fat = Hooked(v.fat, r, f)
  PROVE  /\ fat[Log] = SegNext(q, 0)
         /\ \A k \in 1..Len(q.segs) : Trail(fat, K[q.segs[k]], SegNext(q, k))
<1> DEFINE n == Len(r.segs)
<1>1. n \in Nat /\ r.segs \in Seq(File) /\ q.segs = Append(r.segs, f) /\ q.ino[f].start = r.ino[f].start
      /\ \A k \in 1..n : r.segs[k] \in File /\ r.segs[k] # f /\ q.ino[r.segs[k]] = r.ino[r.segs[k]]
  BY SegFacts DEF DeletedBy
<1>2. Len(q.segs) = n + 1 /\ q.segs[n + 1] = f /\ \A k \in 1..n : q.segs[k] = r.segs[k]
  BY <1>1
<1>3. /\ SegEnd(r) \in FatIndex /\ v.fat[SegEnd(r)] = TAIL
      /\ SegEnd(r) \notin ToSet(K[f])
      /\ n = 0 => SegEnd(r) = Log
      /\ n # 0 => LET p == K[r.segs[n]]
                  IN p \in Seq(Cluster) /\ p # <<>> /\ SegEnd(r) = p[Len(p)] /\ SegEnd(r) \in ToSet(p)
  <2>1. EndBy(v, r, K)
    BY SegEndFacts
  <2>2. QED BY <2>1 DEF EndBy
<1>4. /\ fat[SegEnd(r)] = r.ino[f].start
      /\ \A x \in FatIndex : x # SegEnd(r) => fat[x] = v.fat[x]
  BY <1>3 DEF Hooked, Put, FatMap
<1>5. /\ SegNext(q, n + 1) = TAIL /\ SegNext(q, n) = r.ino[f].start
      /\ \A k \in 0..(n - 1) : SegNext(q, k) = SegNext(r, k)
  <2>1. SegNext(q, n + 1) = TAIL
    BY <1>1, <1>2 DEF SegNext
  <2>2. SegNext(q, n) = r.ino[f].start
    BY <1>1, <1>2 DEF SegNext, SegStart
  <2>3. ASSUME NEW k \in 0..(n - 1)
        PROVE  SegNext(q, k) = SegNext(r, k)
    <3>1. k + 1 \in 1..n /\ k < n /\ k < n + 1
      BY <1>1
    <3>2. q.segs[k + 1] = r.segs[k + 1] /\ q.ino[r.segs[k + 1]] = r.ino[r.segs[k + 1]]
      BY <1>1, <1>2, <3>1
    <3>3. QED BY <1>2, <3>1, <3>2 DEF SegNext, SegStart
  <2>4. QED BY <2>1, <2>2, <2>3
<1>6. fat[Log] = SegNext(q, 0)
  <2>1. CASE n = 0
    BY <1>3, <1>4, <1>5, <2>1
  <2>2. CASE n # 0
    <3>1. SegEnd(r) \in Cluster
      BY <1>3, <2>2, SetIs
    <3>2. fat[Log] = v.fat[Log]
      BY <1>4, <3>1, RfsAssumption, ConstantFacts
    <3>3. v.fat[Log] = SegNext(r, 0)
      BY DEF Shape
    <3>4. QED BY <1>1, <1>5, <2>2, <3>2, <3>3
  <2>3. QED BY <2>1, <2>2
<1>7. ASSUME NEW k \in 1..Len(q.segs)
      PROVE  Trail(fat, K[q.segs[k]], SegNext(q, k))
  <2>1. CASE k = n + 1
    <3>1. K[f] \in Seq(Cluster) /\ Trail(v.fat, K[f], TAIL)
      BY DEF Shape
    <3>2. SameOn(v.fat, fat, ToSet(K[f]))
      <4>1. ToSet(K[f]) \subseteq Cluster
        BY <3>1, SetIs
      <4>2. QED BY <1>3, <1>4, <4>1 DEF SameOn, FatIndex
    <3>3. Trail(fat, K[f], TAIL)
      BY <3>1, <3>2, TrailSame
    <3>4. QED BY <1>2, <1>5, <2>1, <3>3
  <2>2. CASE k # n + 1
    <3> DEFINE g == r.segs[k]
    <3>1. k \in 1..n /\ q.segs[k] = g /\ g \in File
      BY <1>1, <1>2, <2>2
    <3>2. K[g] \in Seq(Cluster) /\ Trail(v.fat, K[g], SegNext(r, k)) /\ Once(K[g])
      BY <3>1 DEF Shape
    <3>3. ToSet(K[g]) \subseteq Cluster
      BY <3>2, SetIs
    <3>4. CASE k = n
      <4> DEFINE p == K[g]
      <4>1. p \in Seq(Cluster) /\ p # <<>> /\ SegEnd(r) = p[Len(p)] /\ Once(p) /\ Trail(v.fat, p, SegNext(r, k))
        BY <1>3, <3>1, <3>2, <3>4
      <4>2. SameOn(v.fat, fat, ToSet(p) \ {p[Len(p)]})
        BY <1>4, <3>3, <4>1 DEF FatIndex, SameOn
      <4>3. fat[p[Len(p)]] = SegNext(q, k)
        BY <1>4, <1>5, <3>4, <4>1
      <4> HIDE DEF p, g
      <4>4. Trail(fat, p, SegNext(q, k))
        BY <4>1, <4>2, <4>3, TrailTurns
      <4>5. QED BY <3>1, <4>4 DEF p
    <3>5. CASE k # n
      <4>1. k \in 0..(n - 1) /\ n # 0 /\ r.segs[n] # g /\ r.segs[n] \in File
        BY <1>1, <3>1, <3>5, SegFacts
      <4>2. SegNext(q, k) = SegNext(r, k)
        BY <1>5, <4>1
      <4>3. ToSet(K[g]) \cap ToSet(K[r.segs[n]]) = {}
        BY <3>1, <4>1 DEF Shape
      <4>4. SameOn(v.fat, fat, ToSet(K[g]))
        BY <1>3, <1>4, <3>3, <4>1, <4>3 DEF SameOn, FatIndex
      <4>5. Trail(fat, K[g], SegNext(r, k))
        BY <3>2, <4>4, TrailSame
      <4>6. QED BY <3>1, <4>2, <4>5
    <3>6. QED BY <3>4, <3>5
  <2>3. QED BY <2>1, <2>2
<1>8. QED BY <1>6, <1>7

LEMMA DeletedShape ==
  ASSUME NEW v, v.fat \in FatMap, NEW r \in Rams, NEW K, Shape(v, r, K), NEW f \in File,
         r.ino[f].st = "alloc", NEW q, DeletedBy(r, f, q),
         NEW w, w.fat = Hooked(v.fat, r, f), LiveBy(w, q.ino)
  PROVE  Shape(w, q, K)
<1>1. /\ q \in Rams /\ \A g \in File : g # f => q.ino[g] = r.ino[g]
      /\ q.ino[f].st = "free" /\ q.ino[f].start = r.ino[f].start /\ q.ino[f].last = r.ino[f].last
      /\ q.segs = IF r.ino[f].start = TAIL THEN r.segs ELSE Append(r.segs, f)
  BY DEF DeletedBy
<1>2. /\ SegEnd(r) \in FatIndex /\ v.fat[SegEnd(r)] = TAIL
      /\ \A g \in File : r.ino[g].st # "free" => SegEnd(r) \notin ToSet(K[g])
  <2>1. EndBy(v, r, K)
    BY SegEndFacts
  <2>2. QED BY <2>1 DEF EndBy
<1>3. \A x \in FatIndex : x # SegEnd(r) => w.fat[x] = v.fat[x]
  BY <1>2 DEF Hooked, Put, FatMap
<1>4. \A g \in File : K[g] \in Seq(Cluster) /\ ToSet(K[g]) \subseteq Cluster
  <2>1. K \in [File -> Seq(Cluster)]
    BY DEF Shape
  <2>2. QED BY <2>1, SetIs
<1>5. \A g \in File : r.ino[g].st = "alloc" => SameOn(v.fat, w.fat, ToSet(K[g]))
  BY <1>2, <1>3, <1>4 DEF SameOn, FatIndex
<1>6. /\ K \in [File -> Seq(Cluster)] /\ Once(K[f]) /\ r.ino[f].start = HeadOr(K[f], TAIL)
      /\ K[f] # <<>> => r.ino[f].last = K[f][Len(K[f])]
      /\ Distinct(r.ino)
      /\ \A g, h \in File : g # h => ToSet(K[g]) \cap ToSet(K[h]) = {}
      /\ \A c \in Cluster : v.fat[c] # FREE => \E g \in File : c \in ToSet(K[g])
  BY DEF Shape
<1>7. Distinct(q.ino)
  BY <1>1, <1>6 DEF Distinct, Owns
<1>8. /\ w.fat[Log] = SegNext(q, 0)
      /\ \A k \in 1..Len(q.segs) : Trail(w.fat, K[q.segs[k]], SegNext(q, k))
  <2>1. CASE r.ino[f].start # TAIL
    BY <2>1, HookedTrails
  <2>2. CASE r.ino[f].start = TAIL
    <3>1. w.fat = v.fat /\ q.segs = r.segs
      BY <1>1, <2>2 DEF Hooked
    <3>2. \A k \in 1..Len(r.segs) : r.segs[k] # f /\ r.segs[k] \in File
      BY <2>2, SegFacts
    <3>3. \A k \in 1..Len(r.segs) : q.ino[r.segs[k]] = r.ino[r.segs[k]]
      BY <1>1, <3>2
    <3>4. \A k \in 1..Len(r.segs) : /\ K[r.segs[k]] = K[r.segs[k]]
                                    /\ SameOn(v.fat, w.fat, ToSet(K[r.segs[k]]))
      BY <3>1 DEF SameOn
    <3>5. w.fat[Log] = v.fat[Log]
      BY <3>1
    <3>6. QED BY <3>1, <3>3, <3>4, <3>5, SegsKeep
  <2>3. QED BY <2>1, <2>2
<1>9. \A c \in Cluster : w.fat[c] # FREE /\ c \notin ToSet(K[f]) => v.fat[c] # FREE /\ c \notin ToSet(K[f])
  <2>1. SUFFICES ASSUME NEW c \in Cluster, w.fat[c] # FREE
                 PROVE  v.fat[c] # FREE
    OBVIOUS
  <2>2. c \in FatIndex
    BY DEF FatIndex
  <2>3. QED BY <1>2, <1>3, <2>1, <2>2, ConstantFacts
<1>10. Changes(v, r, K, f, w, q, K)
  <2>1. \A s \in Slot : w.live[s] <=> \E g \in File : Owns(q.ino, g, s)
    BY DEF LiveBy
  <2>2. q.ino[f].st = "none" => K[f] = <<>>
    BY <1>1
  <2>3. q.ino[f].st = "alloc" => Trail(w.fat, K[f], TAIL)
    BY <1>1
  <2>4. \A g \in File : g # f => ToSet(K[f]) \cap ToSet(K[g]) = {}
    BY <1>6
  <2>5. QED BY <1>1, <1>5, <1>6, <1>7, <1>8, <1>9, <2>1, <2>2, <2>3, <2>4 DEF Changes
<1>11. QED BY <1>1, <1>10, ShapeChange

\* The point behind a record and the changes it covers.
Covered(d, t, e) ==
  /\ Sane(e) /\ Goes(d, t, e) /\ e.ram = d.ram /\ e.base = d.base /\ e.log # <<>> /\ e.fixed = d.fixed
RemoveSteps(s) == <<Rec(RemoveRec(s)), Live(s, FALSE)>>
Removed(d, s, e) ==
  /\ Covered(d, RemoveSteps(s), e)
  /\ e.vol.live = Put(d.vol.live, s, FALSE) /\ e.vol.fat = d.vol.fat /\ e.vol.start = d.vol.start

LEMMA LoggedFacts ==
  ASSUME NEW c, NEW r, NEW o, o = Logged(c, r)
  PROVE  /\ o.vol = c.vol /\ o.log = Append(c.log, r) /\ o.ram = c.ram /\ o.base = c.base
         /\ o.mask = c.mask \cup SpotsOf(Undo(r)) /\ o.fixed = c.fixed
BY DEF Logged, Point

\* A record and one change that is no start cluster.
LEMMA CoverOne ==
  ASSUME NEW d, Sane(d), NEW r \in RecSet, r.kind \notin {"dealloc", "mrc"}, Puts(d, Undo(r)),
         NEW a \in Edits, a.op # "start", Spot(a) \in SpotsOf(Undo(r)), NEW e, e = Edited(Logged(d, r), <<a>>)
  PROVE  Covered(d, <<Rec(r), a>>, e) /\ e.vol = Apply(d.vol, a) /\ e.mask = d.mask \cup SpotsOf(Undo(r))
<1> DEFINE o == Logged(d, r)
           t == <<a>>
<1>1. /\ o.vol = d.vol /\ o.log = Append(d.log, r) /\ o.ram = d.ram /\ o.base = d.base
      /\ o.mask = d.mask \cup SpotsOf(Undo(r)) /\ o.fixed = d.fixed
  BY LoggedPoint
<1>2. Sane(o)
  BY GoesLone
<1>3. o = Logged(d, r)
  OBVIOUS
<1> HIDE DEF o
<1>4. Lets(o, a) /\ Suits(o, a)
  BY <1>1 DEF Lets, Suits
<1>5. Puts(o, t) /\ AllSuit(o, t) /\ t \in Seq(Edits) /\ t # <<>>
  <2>1. Puts(o, <<a>>) /\ AllSuit(o, <<a>>)
    BY <1>4, PutsParts
  <2>2. <<a>> \in Seq(Edits) /\ <<a>> # <<>>
    OBVIOUS
  <2>3. QED BY <2>1, <2>2
<1> DEFINE z == Edited(o, t)
<1>6. z.vol = Apply(o.vol, a) /\ z.fixed = o.fixed
  BY <1>2, EditedOne
<1> HIDE DEF t
<1>7. Sane(z) /\ Goes(d, <<Rec(r)>> \o t, z)
  BY <1>3, <1>5, GoesRecord
<1>8. z.log = o.log /\ z.ram = o.ram /\ z.base = o.base /\ z.mask = o.mask
  BY EditedPoint
<1>9. e = z
  BY <1>3 DEF t
<1> HIDE DEF z
<1>10. <<Rec(r), a>> = <<Rec(r)>> \o <<a>>
  <2> DEFINE p == Rec(r)
  <2>1. p \in {p, a} /\ a \in {p, a}
    OBVIOUS
  <2> HIDE DEF p
  <2>2. <<p, a>> = <<p>> \o <<a>>
    BY <2>1, TwoSplit
  <2>3. QED BY <2>2 DEF p
<1>11. Goes(d, <<Rec(r), a>>, e)
  BY <1>7, <1>9, <1>10 DEF t
<1>12. e.log # <<>>
  <2>1. d.log \in Seq(RecSet)
    BY DEF Sane
  <2>2. Append(d.log, r) # <<>>
    BY <2>1
  <2>3. QED BY <1>1, <1>8, <1>9, <2>2
<1>13. Covered(d, <<Rec(r), a>>, e)
  BY <1>1, <1>6, <1>7, <1>8, <1>9, <1>11, <1>12 DEF Covered
<1>14. QED BY <1>1, <1>6, <1>8, <1>9, <1>13

LEMMA RemoveGoes ==
  ASSUME NEW d, Sane(d), NEW s \in Slot, d.base.live[s]
  PROVE  \E e : Removed(d, s, e)
<1> DEFINE r == RemoveRec(s)
           a == Live(s, FALSE)
           e == Edited(Logged(d, r), <<a>>)
<1>1. d.vol \in Volume /\ d.base \in Volume /\ d.base.live[s] = TRUE
  <2>1. d.base \in Volume /\ d.vol \in Volume
    BY DEF Sane
  <2>2. d.base.live[s] \in BOOLEAN
    BY <2>1, VolumeFields
  <2>3. QED BY <2>1, <2>2
<1>2. r \in RecSet /\ r.kind = "remove"
  BY RecTypes
<1>3. Undo(r) = <<Live(s, TRUE)>>
  BY UndoIs
<1>4. Puts(d, <<Live(s, TRUE)>>) /\ SpotsOf(<<Live(s, TRUE)>>) = {<<"live", s>>}
  <2>1. Lets(d, Live(s, TRUE))
    BY <1>1, LetsBy
  <2>2. QED BY <2>1, PutsParts, SpotsOne, SpotIntro
<1>5. a \in Edits /\ a.op = "live" /\ Spot(a) = <<"live", s>>
  BY EditIntro, SpotIntro DEF Live
<1>6. /\ Apply(d.vol, a).live = [d.vol.live EXCEPT ![s] = FALSE]
      /\ Apply(d.vol, a).start = d.vol.start /\ Apply(d.vol, a).fat = d.vol.fat
  <2> DEFINE w == d.vol
  <2>1. w \in Volume
    BY <1>1
  <2> HIDE DEF w
  <2>2. /\ Apply(w, Live(s, FALSE)).live = [w.live EXCEPT ![s] = FALSE]
        /\ Apply(w, Live(s, FALSE)).start = w.start /\ Apply(w, Live(s, FALSE)).fat = w.fat
    BY <2>1, ApplyLive
  <2>3. QED BY <2>2 DEF w
<1>7. RemoveSteps(s) = <<Rec(r), a>>
  BY DEF RemoveSteps
<1> HIDE DEF r, a
<1>8. Covered(d, <<Rec(r), a>>, e) /\ e.vol = Apply(d.vol, a)
  <2>1. Puts(d, Undo(r)) /\ Spot(a) \in SpotsOf(Undo(r)) /\ a.op # "start"
    BY <1>3, <1>4, <1>5
  <2>2. r.kind \notin {"dealloc", "mrc"}
    BY <1>2
  <2>3. QED BY <1>2, <1>5, <2>1, <2>2, CoverOne
<1> HIDE DEF e
<1>9. Removed(d, s, e)
  BY <1>6, <1>7, <1>8 DEF Removed, Put
<1>10. QED BY <1>9

\* A chain hooked to the cluster p of the log file's chain.
HookSteps(s, p, x, y) == <<Rec(MoveRec(s, p, x, y)), Fat(p, x)>>
HookedTo(d, s, p, x, y, e) ==
  /\ Covered(d, HookSteps(s, p, x, y), e)
  /\ e.vol.fat = Put(d.vol.fat, p, x) /\ e.vol.live = d.vol.live /\ e.vol.start = d.vol.start
  /\ e.mask = d.mask \cup {<<"fat", y>>, <<"fat", p>>} \cup (IF s = None THEN {} ELSE {<<"start", s>>})

LEMMA HookGoes ==
  ASSUME NEW d, Sane(d), NEW s \in Slot \cup {None}, NEW p \in FatIndex, NEW x \in Cluster, NEW y \in Cluster,
         s # None => Lets(d, Start(s, x)), Lets(d, Fat(y, TAIL)), Lets(d, Fat(p, TAIL))
  PROVE  \E e : HookedTo(d, s, p, x, y, e)
<1> DEFINE r == MoveRec(s, p, x, y)
           a == Fat(p, x)
           e == Edited(Logged(d, r), <<a>>)
           m == {<<"fat", y>>, <<"fat", p>>} \cup (IF s = None THEN {} ELSE {<<"start", s>>})
<1>1. d.vol \in Volume /\ x \in FatVal /\ TAIL \in FatVal /\ y \in FatIndex
  BY DEF Sane, FatVal, FatIndex
<1>2. r \in RecSet /\ r.kind = "move"
  BY RecTypes
<1>3. Puts(d, Undo(r)) /\ SpotsOf(Undo(r)) = m
  <2> DEFINE b == <<Fat(y, TAIL), Fat(p, TAIL)>>
  <2>1. Fat(y, TAIL) \in Edits /\ Fat(p, TAIL) \in Edits
    BY <1>1, EditIntro
  <2>2. Spot(Fat(y, TAIL)) = <<"fat", y>> /\ Spot(Fat(p, TAIL)) = <<"fat", p>>
    BY SpotIntro
  <2>3. b \in Seq(Edits) /\ b = <<Fat(y, TAIL)>> \o <<Fat(p, TAIL)>>
    BY <2>1, Three, TwoSplit
  <2>4. SpotsOf(b) = {<<"fat", y>>, <<"fat", p>>}
    <3>1. <<Fat(y, TAIL)>> \in Seq(Edits) /\ <<Fat(p, TAIL)>> \in Seq(Edits)
      BY <2>1, OneType
    <3>2. SpotsOf(b) = SpotsOf(<<Fat(y, TAIL)>>) \cup SpotsOf(<<Fat(p, TAIL)>>)
      BY <2>3, <3>1, SpotsConcat
    <3>3. QED BY <2>2, <3>2, SpotsOne
  <2>5. Puts(d, b)
    BY PutsParts
  <2>6. CASE s = None
    <3>1. Undo(r) = b
      BY <2>6, UndoIs
    <3>2. QED BY <2>4, <2>5, <2>6, <3>1
  <2>7. CASE s # None
    <3>1. s \in Slot /\ Undo(r) = <<Start(s, x)>> \o b
      BY <2>7, UndoIs
    <3>2. Start(s, x) \in Edits /\ Spot(Start(s, x)) = <<"start", s>>
      BY <3>1, EditIntro, SpotIntro
    <3>3. <<Start(s, x)>> \in Seq(Edits) /\ SpotsOf(<<Start(s, x)>>) = {<<"start", s>>}
      BY <3>2, OneType, SpotsOne
    <3>4. Puts(d, <<Start(s, x)>>)
      BY <2>7, PutsParts
    <3> HIDE DEF b
    <3>5. SpotsOf(<<Start(s, x)>> \o b) = SpotsOf(<<Start(s, x)>>) \cup SpotsOf(b)
      BY <2>3, <3>3, SpotsConcat
    <3>6. Puts(d, <<Start(s, x)>> \o b)
      BY <2>3, <2>5, <3>3, <3>4, PutsConcat
    <3>7. QED BY <2>4, <2>7, <3>1, <3>3, <3>5, <3>6
  <2>8. QED BY <2>6, <2>7
<1>4. a \in Edits /\ a.op = "fat" /\ Spot(a) = <<"fat", p>>
  BY <1>1, EditIntro, SpotIntro DEF Fat
<1>5. /\ Apply(d.vol, a).fat = [d.vol.fat EXCEPT ![p] = x]
      /\ Apply(d.vol, a).live = d.vol.live /\ Apply(d.vol, a).start = d.vol.start
  BY <1>1, ApplyFat
<1>6. HookSteps(s, p, x, y) = <<Rec(r), a>>
  BY DEF HookSteps
<1>7. <<"fat", p>> \in m
  OBVIOUS
<1> HIDE DEF r, a, m
<1>8. Covered(d, <<Rec(r), a>>, e) /\ e.vol = Apply(d.vol, a) /\ e.mask = d.mask \cup m
  <2>1. Puts(d, Undo(r)) /\ Spot(a) \in SpotsOf(Undo(r)) /\ a.op # "start"
    BY <1>3, <1>4, <1>7
  <2>2. r.kind \notin {"dealloc", "mrc"}
    BY <1>2
  <2>3. Covered(d, <<Rec(r), a>>, e) /\ e.vol = Apply(d.vol, a) /\ e.mask = d.mask \cup SpotsOf(Undo(r))
    BY <1>2, <1>4, <2>1, <2>2, CoverOne
  <2>4. QED BY <1>3, <2>3
<1> HIDE DEF e
<1>9. HookedTo(d, s, p, x, y, e)
  <2>1. e.vol.fat = Put(d.vol.fat, p, x) /\ e.vol.live = d.vol.live /\ e.vol.start = d.vol.start
    BY <1>5, <1>8 DEF Put
  <2>2. e.mask = d.mask \cup {<<"fat", y>>, <<"fat", p>>} \cup (IF s = None THEN {} ELSE {<<"start", s>>})
    BY <1>8 DEF m
  <2>3. QED BY <1>6, <1>8, <2>1, <2>2 DEF HookedTo
<1>10. QED BY <1>9

\* The entry of f, as a mount would find it.
Named(d, f) == LET i == d.ram.ino[f]
               IN i.slot \in Slot /\ d.base.live[i.slot] /\ d.base.start[i.slot] = i.start /\ i.slot \in d.fixed
DeletedTo(d, f, e) ==
  /\ Sane(e) /\ Goes(d, DeleteEntry(d.ram, f), e) /\ e.ram = Deleted(d.ram, f)
  /\ e.base = d.base /\ e.log # <<>> /\ e.fixed = d.fixed
  /\ e.vol.live = Put(d.vol.live, d.ram.ino[f].slot, FALSE) /\ e.vol.start = d.vol.start
  /\ e.vol.fat = Hooked(d.vol.fat, d.ram, f)
UnhookedTo(d, f, e) ==
  /\ Covered(d, Unhook(d.ram, f), e)
  /\ e.vol.live = Put(d.vol.live, d.ram.ino[f].slot, FALSE) /\ e.vol.start = d.vol.start
  /\ e.vol.fat = Hooked(d.vol.fat, d.ram, f)

LEMMA UnhookGoes ==
  ASSUME NEW d, Sane(d), NEW w, NEW K, Shape(w, d.ram, K), w.fat = d.vol.fat,
         NEW f \in File, d.ram.ino[f].st = "alloc",
         SameOn(d.vol.fat, d.base.fat, FatIndex), Named(d, f)
  PROVE  \E e : UnhookedTo(d, f, e)
<1> DEFINE r == d.ram
           s == r.ino[f].slot
           x == r.ino[f].start
           y == r.ino[f].last
           p == SegEnd(r)
<1>1. /\ r \in Rams /\ s \in Slot /\ d.base.live[s] /\ d.base.start[s] = x
      /\ Used(w, r, K, f) /\ EndBy(w, r, K)
  <2>1. r \in Rams
    BY DEF Sane
  <2>2. QED BY <2>1, ShapeUsed, SegEndFacts DEF Named
<1>2. /\ p \in FatIndex /\ d.base.fat[p] = TAIL
      /\ x = TAIL <=> K[f] = <<>>
  BY <1>1 DEF EndBy, SameOn, Used
<1>3. PICK e1 : Removed(d, s, e1)
  BY <1>1, RemoveGoes
<1>4. /\ Sane(e1) /\ Goes(d, RemoveSteps(s), e1) /\ e1.ram = d.ram /\ e1.base = d.base /\ e1.log # <<>>
      /\ e1.fixed = d.fixed /\ e1.vol.live = Put(d.vol.live, s, FALSE) /\ e1.vol.fat = d.vol.fat
      /\ e1.vol.start = d.vol.start
  BY <1>3 DEF Removed, Covered
<1>5. Unhook(r, f) = RemoveSteps(s) \o If(x # TAIL, MoveChain(r, s, f))
  BY DEF Unhook, RemoveSteps
<1>6. CASE x = TAIL
  <2>1. If(x # TAIL, MoveChain(r, s, f)) = <<>>
    BY <1>6 DEF If
  <2>2. Goes(e1, If(x # TAIL, MoveChain(r, s, f)), e1)
    BY <1>4, <2>1, GoesNone
  <2>3. Goes(d, Unhook(r, f), e1)
    BY <1>4, <1>5, <2>2, GoesConcat
  <2>4. Hooked(d.vol.fat, d.ram, f) = d.vol.fat
    BY <1>6 DEF Hooked
  <2>5. UnhookedTo(d, f, e1)
    BY <1>4, <2>3, <2>4 DEF UnhookedTo, Covered
  <2>6. QED BY <2>5
<1>7. CASE x # TAIL
  <2>1. x \in Cluster /\ y \in Cluster /\ d.base.fat[y] = TAIL
    <3>1. K[f] # <<>> /\ K[f] \in Seq(Cluster) /\ y \in ToSet(K[f])
      BY <1>1, <1>2, <1>7 DEF Used
    <3>2. y \in Cluster /\ x \in Cluster
      <4>1. r.ino[f] \in Inodes
        BY <1>1, RamFields
      <4>2. x \in Cluster \cup {TAIL}
        BY <4>1 DEF Inodes
      <4>3. QED BY <1>7, <3>1, <4>2, SetIs
    <3>3. Trail(w.fat, K[f], TAIL) /\ y = K[f][Len(K[f])]
      BY <3>1 DEF Shape
    <3>4. w.fat[y] = TAIL
      BY <3>1, <3>3 DEF Trail
    <3>5. QED BY <3>2, <3>4 DEF SameOn, FatIndex
  <2>2. Lets(e1, Start(s, x))
    BY <1>1, <1>4, LetsBy
  <2>3. Lets(e1, Fat(y, TAIL)) /\ Lets(e1, Fat(p, TAIL))
    BY <1>2, <1>4, <2>1, LetsBy DEF FatIndex
  <2>4. PICK e2 : HookedTo(e1, s, p, x, y, e2)
    BY <1>1, <1>2, <1>4, <2>1, <2>2, <2>3, HookGoes
  <2>5. /\ Sane(e2) /\ Goes(e1, HookSteps(s, p, x, y), e2) /\ e2.ram = e1.ram /\ e2.base = e1.base
        /\ e2.log # <<>> /\ e2.fixed = e1.fixed
        /\ e2.vol.fat = Put(e1.vol.fat, p, x) /\ e2.vol.live = e1.vol.live /\ e2.vol.start = e1.vol.start
    BY <2>4 DEF HookedTo, Covered
  <2>6. If(x # TAIL, MoveChain(r, s, f)) = HookSteps(s, p, x, y)
    BY <1>7 DEF If, MoveChain, HookSteps
  <2>7. Goes(d, Unhook(r, f), e2)
    BY <1>4, <1>5, <2>5, <2>6, GoesConcat
  <2>8. Hooked(d.vol.fat, d.ram, f) = Put(d.vol.fat, p, x)
    BY <1>7 DEF Hooked
  <2>9. UnhookedTo(d, f, e2)
    BY <1>4, <2>5, <2>7, <2>8 DEF UnhookedTo, Covered
  <2>10. QED BY <2>9
<1>8. QED BY <1>6, <1>7

LEMMA DeleteGoes ==
  ASSUME NEW d, Sane(d), NEW w, NEW K, Shape(w, d.ram, K), w.fat = d.vol.fat,
         NEW f \in File, d.ram.ino[f].st = "alloc",
         SameOn(d.vol.fat, d.base.fat, FatIndex), Named(d, f)
  PROVE  \E e : DeletedTo(d, f, e)
<1> DEFINE r == d.ram
           q == Deleted(r, f)
<1>1. PICK e1 : UnhookedTo(d, f, e1)
  BY UnhookGoes
<1>2. /\ Sane(e1) /\ Goes(d, Unhook(r, f), e1) /\ e1.ram = d.ram /\ e1.base = d.base /\ e1.log # <<>>
      /\ e1.fixed = d.fixed
      /\ e1.vol.live = Put(d.vol.live, r.ino[f].slot, FALSE) /\ e1.vol.start = d.vol.start
      /\ e1.vol.fat = Hooked(d.vol.fat, r, f)
  BY <1>1 DEF UnhookedTo, Covered
<1>3. r \in Rams
  BY DEF Sane
<1>4. DeletedBy(r, f, q)
  BY <1>3, DeletedFacts
<1>5. q \in Rams /\ (\A g \in File : g # f => q.ino[g] = r.ino[g]) /\ q.ino[f].st = "free"
  BY <1>4 DEF DeletedBy
<1>6. DeleteEntry(r, f) = Unhook(r, f) \o <<Ram(q)>>
  BY DEF DeleteEntry, Unhook
<1> HIDE DEF q
<1> DEFINE e == Turned(e1, q, e1.fixed)
<1>7. Sane(e) /\ Goes(e1, <<Ram(q)>>, e)
  <2>1. \A u \in Slot : e1.base.live[u] /\ <<"start", u>> \notin e1.mask => u \in e1.fixed
    BY <1>2 DEF Sane
  <2>2. e1.fixed \in SUBSET e1.fixed /\ e1.fixed \subseteq Slot
    BY <1>2 DEF Sane
  <2>3. ASSUME NEW g \in File, NEW u \in e1.fixed, Owns(q.ino, g, u)
        PROVE  e1.vol.start[u] = q.ino[g].start
    <3>1. Owns(r.ino, g, u) /\ q.ino[g] = r.ino[g]
      BY <1>5, <2>3 DEF Owns
    <3>2. \A h \in File, a \in e1.fixed : Owns(e1.ram.ino, h, a) => e1.vol.start[a] = e1.ram.ino[h].start
      BY <1>2 DEF Sane
    <3>3. QED BY <1>2, <3>1, <3>2
  <2>4. QED BY <1>2, <1>5, <2>1, <2>2, <2>3, GoesRam
<1>8. e.vol = e1.vol /\ e.log = e1.log /\ e.ram = q /\ e.base = e1.base /\ e.fixed = e1.fixed
  BY DEF Turned, Point
<1> HIDE DEF e
<1>9. Goes(d, DeleteEntry(r, f), e)
  BY <1>2, <1>6, <1>7, GoesConcat
<1>10. DeletedTo(d, f, e)
  BY <1>2, <1>7, <1>8, <1>9 DEF DeletedTo, q
<1>11. QED BY <1>10

LEMMA FreshNamed ==
  ASSUME NEW d, NEW K, Fresh(d, K)
  PROVE  /\ SameOn(d.vol.fat, d.base.fat, FatIndex)
         /\ \A f \in File : d.ram.ino[f].st = "alloc" => Named(d, f)
<1>1. /\ d.ram \in Rams
      /\ \A x \in FatIndex : d.base.fat[x] = d.vol.fat[x]
      /\ \A f \in File, s \in Slot : Owns(d.ram.ino, f, s) =>
           s \in d.fixed /\ d.base.live[s] /\ d.base.start[s] = d.ram.ino[f].start
  BY FreshBase
<1>2. ASSUME NEW f \in File, d.ram.ino[f].st = "alloc"
      PROVE  Named(d, f)
  <2>1. InodeOK(d.ram.ino[f])
    BY <1>1, RamFields
  <2>2. d.ram.ino[f].slot \in Slot
    BY <1>2, <2>1 DEF InodeOK
  <2>3. Owns(d.ram.ino, f, d.ram.ino[f].slot)
    BY <1>2 DEF Owns
  <2>4. QED BY <1>1, <2>2, <2>3 DEF Named
<1>3. QED BY <1>1, <1>2 DEF SameOn

\* When an inode leaves its entry.
LEMMA LeavesLive ==
  ASSUME NEW r \in Rams, NEW f \in File, r.ino[f].st = "alloc", Distinct(r.ino),
         NEW q, DeletedBy(r, f, q), NEW v, v.live \in [Slot -> BOOLEAN], LiveBy(v, r.ino),
         NEW w, w.live = Put(v.live, r.ino[f].slot, FALSE)
  PROVE  LiveBy(w, q.ino)
<1>1. q.ino[f].st = "free" /\ \A g \in File : g # f => q.ino[g] = r.ino[g]
  BY DEF DeletedBy
<1>2. r.ino[f].slot \in Slot
  BY RamFields DEF InodeOK
<1>3. \A g \in File, u \in Slot : Owns(q.ino, g, u) <=> Owns(r.ino, g, u) /\ u # r.ino[f].slot
  <2>1. ASSUME NEW g \in File, NEW u \in Slot
        PROVE  Owns(q.ino, g, u) <=> Owns(r.ino, g, u) /\ u # r.ino[f].slot
    <3>1. CASE g = f
      BY <1>1, <3>1 DEF Owns
    <3>2. CASE g # f
      <4>1. q.ino[g] = r.ino[g] /\ (Owns(r.ino, g, u) => ~Owns(r.ino, f, u))
        BY <1>1, <3>2 DEF Distinct
      <4>2. Owns(r.ino, f, u) <=> u = r.ino[f].slot
        BY DEF Owns
      <4>3. QED BY <4>1, <4>2 DEF Owns
    <3>3. QED BY <3>1, <3>2
  <2>2. QED BY <2>1
<1>4. ASSUME NEW u \in Slot
      PROVE  w.live[u] <=> \E g \in File : Owns(q.ino, g, u)
  <2>1. w.live[u] = IF u = r.ino[f].slot THEN FALSE ELSE v.live[u]
    BY <1>2 DEF Put
  <2>2. v.live[u] <=> \E g \in File : Owns(r.ino, g, u)
    BY DEF LiveBy
  <2>3. QED BY <1>3, <2>1, <2>2
<1>5. QED BY <1>4 DEF LiveBy

LEMMA UnlinkReaches ==
  ASSUME NEW c0, NEW K, Stands(c0, K), NEW f \in File, ram.ino[f].st = "alloc"
  PROVE  Done(c0, UnlinkSteps(f))
<1>1. PICK d : /\ Fresh(d, K) /\ Goes(c0, CommitDeferred(ram), d) /\ d.ram = Released(ram)
               /\ d.vol.fat = cache.fat /\ d.vol.live = cache.live
               /\ ram \in Rams /\ Released(ram) \in Rams
               /\ Released(ram).ino = ram.ino /\ Released(ram).segs = ram.segs
  BY StandsFresh
<1> DEFINE r == d.ram
           q == Deleted(r, f)
<1>2. /\ d.vol \in Volume /\ r \in Rams /\ Shape(d.vol, r, K) /\ Sane(d) /\ r.ino[f].st = "alloc"
      /\ \A g \in File, s \in Slot : Owns(r.ino, g, s) => s \in d.fixed
  BY <1>1, FreshBase DEF Fresh
<1>3. PICK e : DeletedTo(d, f, e)
  <2>1. SameOn(d.vol.fat, d.base.fat, FatIndex) /\ Named(d, f)
    BY <1>1, <1>2, FreshNamed
  <2>2. QED BY <1>2, <2>1, DeleteGoes
<1>4. /\ Sane(e) /\ Goes(d, DeleteEntry(r, f), e) /\ e.ram = q
      /\ e.log # <<>> /\ e.fixed = d.fixed
      /\ e.vol.live = Put(d.vol.live, r.ino[f].slot, FALSE) /\ e.vol.fat = Hooked(d.vol.fat, r, f)
  BY <1>3 DEF DeletedTo
<1>5. DeletedBy(r, f, q)
  BY <1>2, DeletedFacts
<1> HIDE DEF q
<1>6. Shape(e.vol, e.ram, K)
  <2>1. d.vol.fat \in FatMap /\ d.vol.live \in [Slot -> BOOLEAN]
    BY <1>2, VolumeFields
  <2>2. Distinct(r.ino) /\ LiveBy(d.vol, r.ino)
    BY <1>2 DEF Shape, LiveBy
  <2>3. LiveBy(e.vol, q.ino)
    BY <1>2, <1>4, <1>5, <2>1, <2>2, LeavesLive
  <2>4. QED BY <1>2, <1>4, <1>5, <2>1, <2>3, DeletedShape
<1>7. \A g \in File, s \in Slot : Owns(e.ram.ino, g, s) /\ g # None => s \in e.fixed
  <2>1. q.ino[f].st = "free" /\ \A g \in File : g # f => q.ino[g] = r.ino[g]
    BY <1>5 DEF DeletedBy
  <2>2. \A g \in File, s \in Slot : Owns(q.ino, g, s) => Owns(r.ino, g, s)
    BY <2>1 DEF Owns
  <2>3. QED BY <1>2, <1>4, <2>2
<1>8. PICK e4 : Fresh(e4, K) /\ Goes(e, LogEnd(e.ram, None), e4)
  BY <1>4, <1>6, <1>7, GoesLogEnd
<1>9. UnlinkSteps(f) = (CommitDeferred(ram) \o DeleteEntry(r, f)) \o LogEnd(q, None)
  BY <1>1 DEF UnlinkSteps, q
<1>10. Goes(c0, CommitDeferred(ram) \o DeleteEntry(r, f), e)
  BY <1>1, <1>4, GoesConcat
<1>11. Goes(c0, UnlinkSteps(f), e4)
  BY <1>4, <1>8, <1>9, <1>10, GoesConcat
<1>12. QED BY <1>8, <1>11, FreshDone
-----------------------------------------------------------------------------
(***************************************************************************)
(* rfs_rename: a new entry, the old one goes, and the file it replaces.    *)
(***************************************************************************)
\* Once the open transaction is committed, the entry of an inode holds its first
\* cluster.
LEMMA CommitStart ==
  ASSUME cache \in Volume, ram \in Rams, Distinct(ram.ino), NEW f \in File, NEW u \in Slot,
         Owns(ram.ino, f, u), ram.writer # f => cache.start[u] = ram.ino[f].start,
         NEW v, v = ApplyAll(cache, CommitDeferred(ram))
  PROVE  v.start[u] = ram.ino[f].start
<1> DEFINE g == ram.writer
           z == ram.ino[g].slot
           x == ram.ino[g].start
           o == If(g # None /\ ram.ino[g].st = "alloc", <<Start(z, x)>>)
           q == Released(ram)
<1>1. CASE g = None
  <2>1. CommitDeferred(ram) = <<>>
    BY <1>1 DEF CommitDeferred, If
  <2>2. v = cache
    BY <2>1, ApplyNone
  <2>3. QED BY <1>1, <2>2, ConstantFacts
<1>2. CASE g # None
  <2>1. CommitDeferred(ram) = (o \o <<Flush>>) \o <<Mark(q)>>
    BY <1>2 DEF CommitDeferred, MetaCommit, If
  <2>2. g \in File /\ ram.ino[g] \in Inodes /\ InodeOK(ram.ino[g])
    BY <1>2, RamFields
  <2>3. q \in Rams
    BY ReleasedType
  <2>4. Flush \in StepSet /\ Mark(q) \in StepSet
    BY <2>3, StepTypes DEF StepSet, DataSteps
  <2>5. o \in Seq(StepSet) /\ ApplyAll(cache, o).start[u] = ram.ino[f].start
    <3>1. CASE ram.ino[g].st = "alloc"
      <4>1. o = <<Start(z, x)>>
        BY <1>2, <3>1 DEF If
      <4>2. z \in Slot /\ x \in Cluster \cup {TAIL} /\ Owns(ram.ino, g, z)
        BY <2>2, <3>1 DEF Inodes, InodeOK, Owns
      <4>3. Start(z, x) \in StepSet
        BY <4>2, StepTypes DEF StepSet
      <4>4. ApplyAll(cache, o) = Apply(cache, Start(z, x))
        BY <4>1, <4>3, ApplyOne
      <4>5. Apply(cache, Start(z, x)).start = [cache.start EXCEPT ![z] = x]
        BY <4>2, ApplyStart
      <4>6. cache.start \in [Slot -> Cluster \cup {TAIL}]
        BY VolumeFields
      <4>7. z = u => g = f
        BY <2>2, <4>2 DEF Distinct
      <4>8. g = f => z = u
        BY DEF Owns
      <4> HIDE DEF x, z
      <4>9. ApplyAll(cache, o).start[u] = ram.ino[f].start
        <5>1. CASE z = u
          BY <4>4, <4>5, <4>6, <4>7, <5>1 DEF x
        <5>2. CASE z # u
          BY <4>4, <4>5, <4>6, <4>8, <5>2
        <5>3. QED BY <5>1, <5>2
      <4>10. QED BY <4>1, <4>3, <4>9
    <3>2. CASE ram.ino[g].st # "alloc"
      <4>1. o = <<>>
        BY <3>2 DEF If
      <4>2. g # f
        BY <3>2 DEF Owns
      <4>3. <<>> \in Seq(StepSet) /\ ApplyAll(cache, <<>>) = cache
        BY ApplyNone
      <4> HIDE DEF o
      <4>4. QED BY <4>1, <4>2, <4>3
    <3>3. QED BY <3>1, <3>2
  <2> HIDE DEF o, q, g, z, x
  <2>6. ApplyAll(cache, o) \in Volume
    BY <2>5, ApplyAllType
  <2>7. \A w \in Volume : ApplyAll(w, <<Flush>>) = w /\ ApplyAll(w, <<Mark(q)>>) = w
    <3>1. \A w : Apply(w, Flush) = w /\ Apply(w, Mark(q)) = w
      BY DEF Apply, Flush, Mark
    <3>2. QED BY <2>4, <3>1, ApplyOne
  <2>8. v = ApplyAll(cache, o)
    <3>1. <<Flush>> \in Seq(StepSet) /\ <<Mark(q)>> \in Seq(StepSet)
      BY <2>4
    <3> DEFINE p == <<Flush>>
               y == <<Mark(q)>>
               a == o \o p
    <3> HIDE DEF p, y
    <3>2. ApplyAll(cache, a) = ApplyAll(ApplyAll(cache, o), p)
      BY <2>5, <3>1, ApplyConcat DEF p
    <3>3. a \in Seq(StepSet)
      BY <2>5, <3>1, ConcatProperties DEF p
    <3> HIDE DEF a
    <3>4. v = ApplyAll(cache, a \o y)
      BY <2>1 DEF a, p, y
    <3>5. ApplyAll(cache, a \o y) = ApplyAll(ApplyAll(cache, a), y)
      BY <3>1, <3>3, ApplyConcat DEF y
    <3>6. QED BY <2>6, <2>7, <3>2, <3>4, <3>5 DEF p, y
  <2>9. QED BY <2>5, <2>8
<1>3. QED BY <1>1, <1>2

\* The inode of f in the entry s.
MovedBy(r, f, s, q) ==
  /\ q \in Rams /\ \A g \in File : g # f => q.ino[g] = r.ino[g]
  /\ q.ino[f].st = "alloc" /\ q.ino[f].slot = s
  /\ q.ino[f].start = r.ino[f].start /\ q.ino[f].last = r.ino[f].last
  /\ q.segs = r.segs /\ q.writer = r.writer /\ q.pre = r.pre

LEMMA MovedFacts ==
  ASSUME NEW r \in Rams, NEW f \in File, r.ino[f].st = "alloc", NEW s \in Slot,
         NEW q, q = [r EXCEPT !.ino[f].slot = s]
  PROVE  MovedBy(r, f, s, q)
<1> DEFINE i == MovedInode(r, f, s)
<1>1. /\ q \in Rams /\ q.ino = [r.ino EXCEPT ![f] = i]
      /\ i \in Inodes /\ i.st = "alloc" /\ i.slot = s /\ i.start = r.ino[f].start
  <2>1. q = MovedRam(r, f, s)
    BY DEF MovedRam
  <2>2. /\ MovedRam(r, f, s) \in Rams /\ MovedRam(r, f, s).ino = [r.ino EXCEPT ![f] = i]
        /\ i \in Inodes /\ i.st = "alloc" /\ i.slot = s /\ i.start = r.ino[f].start
    BY MovedType
  <2> HIDE DEF i
  <2>3. QED BY <2>1, <2>2
<1>2. r.ino \in [File -> Inodes] /\ r.ino[f] \in Inodes
  BY RamFields
<1>3. i.last = r.ino[f].last
  BY <1>2 DEF MovedInode, Inodes
<1>4. q.segs = r.segs /\ q.writer = r.writer /\ q.pre = r.pre
  <2>1. r \in RamShape
    BY DEF Rams
  <2>2. QED BY <2>1 DEF RamShape
<1> HIDE DEF i
<1>5. q.ino[f] = i /\ \A g \in File : g # f => q.ino[g] = r.ino[g]
  BY <1>1, <1>2
<1>6. QED BY <1>1, <1>3, <1>4, <1>5 DEF MovedBy

LEMMA MovedShape ==
  ASSUME NEW v, NEW r \in Rams, NEW K, Shape(v, r, K), NEW f \in File, r.ino[f].st = "alloc",
         NEW s \in Slot, Free(r.ino, s), NEW q, MovedBy(r, f, s, q),
         NEW w, w.fat = v.fat, LiveBy(w, q.ino)
  PROVE  Shape(w, q, K)
<1>1. /\ q \in Rams /\ \A g \in File : g # f => q.ino[g] = r.ino[g]
      /\ q.ino[f].st = "alloc" /\ q.ino[f].slot = s
      /\ q.ino[f].start = r.ino[f].start /\ q.ino[f].last = r.ino[f].last
      /\ q.segs = r.segs
  BY DEF MovedBy
<1>2. /\ K \in [File -> Seq(Cluster)] /\ Once(K[f]) /\ r.ino[f].start = HeadOr(K[f], TAIL)
      /\ K[f] # <<>> => r.ino[f].last = K[f][Len(K[f])]
      /\ Distinct(r.ino) /\ Trail(v.fat, K[f], TAIL)
      /\ \A g, h \in File : g # h => ToSet(K[g]) \cap ToSet(K[h]) = {}
  BY DEF Shape
<1>3. Distinct(q.ino)
  <2>1. \A g \in File, u \in Slot : Owns(q.ino, g, u) => IF g = f THEN u = s ELSE Owns(r.ino, g, u)
    BY <1>1 DEF Owns
  <2>2. QED BY <1>2, <2>1 DEF Distinct, Free
<1>4. /\ w.fat[Log] = SegNext(q, 0)
      /\ \A k \in 1..Len(q.segs) : Trail(w.fat, K[q.segs[k]], SegNext(q, k))
  <2>1. \A k \in 1..Len(r.segs) : r.segs[k] # f /\ r.segs[k] \in File
    BY SegFacts
  <2>2. \A k \in 1..Len(r.segs) : q.ino[r.segs[k]] = r.ino[r.segs[k]]
    BY <1>1, <2>1
  <2>3. \A k \in 1..Len(r.segs) : /\ K[r.segs[k]] = K[r.segs[k]]
                                  /\ SameOn(v.fat, w.fat, ToSet(K[r.segs[k]]))
    BY DEF SameOn
  <2>4. w.fat[Log] = v.fat[Log]
    OBVIOUS
  <2>5. QED BY <1>1, <2>2, <2>3, <2>4, SegsKeep
<1>5. Changes(v, r, K, f, w, q, K)
  <2>1. \A u \in Slot : w.live[u] <=> \E g \in File : Owns(q.ino, g, u)
    BY DEF LiveBy
  <2>2. \A g \in File : g # f => ToSet(K[f]) \cap ToSet(K[g]) = {}
    BY <1>2
  <2>3. \A g \in File : g # f /\ r.ino[g].st = "alloc" => SameOn(v.fat, w.fat, ToSet(K[g]))
    BY DEF SameOn
  <2>4. QED BY <1>1, <1>2, <1>3, <1>4, <2>1, <2>2, <2>3 DEF Changes
<1>6. QED BY <1>1, <1>5, ShapeChange
\* The inodes behind a rename of f to s over g, and the entries in use.
RenamedBy(r, f, s, g, q) ==
  /\ q \in Rams /\ q.ino[f].st = "alloc" /\ q.ino[f].slot = s /\ q.ino[f].start = r.ino[f].start
  /\ g # None => q.ino[g].st = "free"
  /\ \A h \in File : h # f /\ h # g => q.ino[h] = r.ino[h]
RenamedLive(live, r, f, s, g) ==
  LET a == Put(Put(live, s, TRUE), r.ino[f].slot, FALSE)
  IN IF g = None THEN a ELSE Put(a, r.ino[g].slot, FALSE)
MayRename(r, f, s, g) ==
  /\ r.ino[f].st = "alloc" /\ Free(r.ino, s) /\ g \in File \cup {None}
  /\ g # None => g # f /\ g \in File /\ r.ino[g].st = "alloc"

LEMMA RenameLive ==
  ASSUME NEW r \in Rams, Distinct(r.ino), NEW v, v.live \in [Slot -> BOOLEAN], LiveBy(v, r.ino),
         NEW f \in File, NEW s \in Slot, NEW g, MayRename(r, f, s, g),
         NEW q, RenamedBy(r, f, s, g, q), NEW w, w.live = RenamedLive(v.live, r, f, s, g)
  PROVE  LiveBy(w, q.ino)
<1>1. /\ q \in Rams /\ q.ino[f].st = "alloc" /\ q.ino[f].slot = s
      /\ g # None => q.ino[g].st = "free"
      /\ \A h \in File : h # f /\ h # g => q.ino[h] = r.ino[h]
  BY DEF RenamedBy
<1>2. /\ r.ino[f].st = "alloc" /\ Free(r.ino, s) /\ g \in File \cup {None}
      /\ g # None => g # f /\ g \in File /\ r.ino[g].st = "alloc"
  BY DEF MayRename
<1> DEFINE a == r.ino[f].slot
           b == r.ino[g].slot
<1>3. a \in Slot /\ (g # None => b \in Slot)
  BY <1>2, RamFields DEF InodeOK
<1>4. Owns(r.ino, f, a) /\ (g # None => Owns(r.ino, g, b))
  BY <1>2 DEF Owns
<1> HIDE DEF a, b
<1>5. a # s /\ (g # None => b # s)
  BY <1>2, <1>4 DEF Free
<1>6. ASSUME NEW u \in Slot, NEW h \in File
      PROVE  Owns(q.ino, h, u) <=> \/ h = f /\ u = s
                                   \/ h # f /\ h # g /\ Owns(r.ino, h, u)
  <2>1. CASE h = f
    BY <1>1, <2>1 DEF Owns
  <2>2. CASE h # f /\ h = g
    <3>1. g # None
      BY <2>2, ConstantFacts
    <3>2. QED BY <1>1, <2>2, <3>1 DEF Owns
  <2>3. CASE h # f /\ h # g
    BY <1>1, <2>3 DEF Owns
  <2>4. QED BY <2>1, <2>2, <2>3
<1>7. ASSUME NEW u \in Slot
      PROVE  w.live[u] = IF u = s THEN TRUE
                         ELSE IF u = a \/ (g # None /\ u = b) THEN FALSE ELSE v.live[u]
  <2>1. DEFINE p == Put(v.live, s, TRUE)
               o == Put(p, a, FALSE)
  <2>2. p \in [Slot -> BOOLEAN] /\ \A x \in Slot : p[x] = IF x = s THEN TRUE ELSE v.live[x]
    BY DEF Put
  <2> HIDE DEF p
  <2>3. o \in [Slot -> BOOLEAN] /\ \A x \in Slot : o[x] = IF x = a THEN FALSE ELSE p[x]
    BY <1>3, <2>2 DEF Put
  <2>4. w.live = IF g = None THEN o ELSE Put(o, b, FALSE)
    BY DEF RenamedLive, o, p, a, b
  <2> HIDE DEF o
  <2>5. g # None => \A x \in Slot : Put(o, b, FALSE)[x] = IF x = b THEN FALSE ELSE o[x]
    BY <1>3, <2>3 DEF Put
  <2>6. QED BY <1>5, <2>2, <2>3, <2>4, <2>5
<1>8. ASSUME NEW u \in Slot
      PROVE  w.live[u] <=> \E h \in File : Owns(q.ino, h, u)
  <2>1. v.live[u] <=> \E h \in File : Owns(r.ino, h, u)
    BY DEF LiveBy
  <2>2. CASE u = s
    BY <1>6, <1>7, <2>2
  <2>3. CASE u # s /\ u = a
    <3>1. \A h \in File : Owns(r.ino, h, u) => h = f
      BY <1>4, <2>3 DEF Distinct
    <3>2. QED BY <1>6, <1>7, <2>3, <3>1
  <2>4. CASE u # s /\ g # None /\ u = b
    <3>1. \A h \in File : Owns(r.ino, h, u) => h = g
      BY <1>2, <1>4, <2>4 DEF Distinct
    <3>2. QED BY <1>6, <1>7, <2>4, <3>1
  <2>5. CASE u # s /\ u # a /\ ~(g # None /\ u = b)
    <3>1. ~Owns(r.ino, f, u) /\ (g # None => ~Owns(r.ino, g, u))
      BY <2>5 DEF Owns, a, b
    <3>2. \A h \in File : h = g => g # None
      BY ConstantFacts
    <3>3. QED BY <1>6, <1>7, <2>1, <2>5, <3>1, <3>2
  <2>6. QED BY <2>2, <2>3, <2>4, <2>5
<1>9. QED BY <1>8 DEF LiveBy

\* The in-core state behind a rename.
Over(r, g) == IF g = None THEN r ELSE Deleted(r, g)
MovedOver(r, f, s, g) == [Over(r, g) EXCEPT !.ino[f].slot = s]

LEMMA RenamedFacts ==
  ASSUME NEW r \in Rams, NEW f \in File, NEW s \in Slot, NEW g, MayRename(r, f, s, g),
         NEW o, o = Over(r, g), NEW q, q = MovedOver(r, f, s, g)
  PROVE  /\ o \in Rams /\ MovedBy(o, f, s, q) /\ RenamedBy(r, f, s, g, q)
         /\ o.ino[f] = r.ino[f] /\ (g # None => DeletedBy(r, g, o)) /\ (g = None => o = r)
<1>1. /\ r.ino[f].st = "alloc" /\ Free(r.ino, s) /\ g \in File \cup {None}
      /\ g # None => g # f /\ g \in File /\ r.ino[g].st = "alloc"
  BY DEF MayRename
<1>2. (g = None => o = r) /\ (g # None => DeletedBy(r, g, o))
  BY <1>1, DeletedFacts DEF Over
<1>3. /\ o \in Rams /\ o.ino[f] = r.ino[f] /\ \A h \in File : h # g => o.ino[h] = r.ino[h]
      /\ g # None => o.ino[g].st = "free"
  <2>1. CASE g = None
    BY <1>2, <2>1
  <2>2. CASE g # None
    <3>1. DeletedBy(r, g, o)
      BY <1>2, <2>2
    <3>2. o \in Rams /\ (\A h \in File : h # g => o.ino[h] = r.ino[h]) /\ o.ino[g].st = "free"
      BY <3>1 DEF DeletedBy
    <3>3. QED BY <1>1, <2>2, <3>2
  <2>3. QED BY <2>1, <2>2
<1>4. MovedBy(o, f, s, q)
  <2>1. q = [o EXCEPT !.ino[f].slot = s]
    BY DEF MovedOver
  <2>2. o.ino[f].st = "alloc"
    BY <1>1, <1>3
  <2>3. QED BY <1>3, <2>1, <2>2, MovedFacts
<1>5. /\ q \in Rams /\ \A h \in File : h # f => q.ino[h] = o.ino[h]
      /\ q.ino[f].st = "alloc" /\ q.ino[f].slot = s /\ q.ino[f].start = o.ino[f].start
  BY <1>4 DEF MovedBy
<1>6. RenamedBy(r, f, s, g, q)
  <2>1. g # None => q.ino[g].st = "free"
    BY <1>1, <1>3, <1>5
  <2>2. \A h \in File : h # f /\ h # g => q.ino[h] = r.ino[h]
    BY <1>3, <1>5
  <2>3. QED BY <1>3, <1>5, <2>1, <2>2 DEF RenamedBy
<1>7. QED BY <1>2, <1>3, <1>4, <1>6

LEMMA RenameShape ==
  ASSUME NEW v \in Volume, NEW r \in Rams, NEW K, Shape(v, r, K), NEW f \in File, NEW s \in Slot,
         NEW g, MayRename(r, f, s, g), NEW q, q = MovedOver(r, f, s, g),
         NEW w, w.live = RenamedLive(v.live, r, f, s, g),
         w.fat = IF g = None THEN v.fat ELSE Hooked(v.fat, r, g)
  PROVE  Shape(w, q, K)
<1> DEFINE o == Over(r, g)
<1>1. /\ o \in Rams /\ MovedBy(o, f, s, q) /\ RenamedBy(r, f, s, g, q)
      /\ o.ino[f] = r.ino[f] /\ (g # None => DeletedBy(r, g, o)) /\ (g = None => o = r)
  BY RenamedFacts
<1> HIDE DEF o
<1>2. /\ r.ino[f].st = "alloc" /\ Free(r.ino, s) /\ g \in File \cup {None}
      /\ g # None => g # f /\ g \in File /\ r.ino[g].st = "alloc"
  BY DEF MayRename
<1>3. v.fat \in FatMap /\ v.live \in [Slot -> BOOLEAN]
  BY VolumeFields
<1>4. Distinct(r.ino) /\ LiveBy(v, r.ino)
  BY DEF Shape, LiveBy
<1>5. LiveBy(w, q.ino)
  BY <1>1, <1>3, <1>4, RenameLive
<1>6. CASE g = None
  <2>1. o = r /\ w.fat = v.fat
    BY <1>1, <1>6
  <2>2. QED BY <1>1, <1>2, <1>5, <2>1, MovedShape
<1>7. CASE g # None
  <2> DEFINE z == [fat |-> Hooked(v.fat, r, g), live |-> Put(v.live, r.ino[g].slot, FALSE)]
  <2>1. z.fat = Hooked(v.fat, r, g) /\ z.live = Put(v.live, r.ino[g].slot, FALSE)
    OBVIOUS
  <2> HIDE DEF z
  <2>2. DeletedBy(r, g, o) /\ g \in File /\ r.ino[g].st = "alloc"
    BY <1>1, <1>2, <1>7
  <2>3. LiveBy(z, o.ino)
    BY <1>3, <1>4, <2>1, <2>2, LeavesLive
  <2>4. Shape(z, o, K)
    BY <1>3, <2>1, <2>2, <2>3, DeletedShape
  <2>5. Free(o.ino, s)
    <3>1. o.ino[g].st = "free" /\ \A h \in File : h # g => o.ino[h] = r.ino[h]
      BY <2>2 DEF DeletedBy
    <3>2. QED BY <1>2, <3>1 DEF Free, Owns
  <2>6. o.ino[f].st = "alloc" /\ w.fat = z.fat
    BY <1>1, <1>2, <1>7, <2>1
  <2>7. QED BY <1>1, <1>5, <2>4, <2>5, <2>6, MovedShape
<1>8. QED BY <1>6, <1>7
\* The new entry and the old one.
SwapSteps(s, x, u) == EntrySteps(s, x) \o RemoveSteps(u)
Swapped(d, s, x, u, e) ==
  /\ Sane(e) /\ Goes(d, SwapSteps(s, x, u), e) /\ e.ram = d.ram /\ e.base = d.base /\ e.log # <<>>
  /\ e.fixed = d.fixed \cup {s} /\ e.vol.fat = d.vol.fat /\ e.vol.start = Put(d.vol.start, s, x)
  /\ e.vol.live = Put(Put(d.vol.live, s, TRUE), u, FALSE)

LEMMA SwapGoes ==
  ASSUME NEW d, Sane(d), NEW s \in Slot, ~d.base.live[s], Free(d.ram.ino, s),
         NEW x \in Cluster \cup {TAIL}, NEW u \in Slot, d.base.live[u]
  PROVE  \E e : Swapped(d, s, x, u, e)
<1>1. PICK e1 : Entered(d, s, x, e1)
  BY CreateEntry
<1>2. /\ Sane(e1) /\ Goes(d, EntrySteps(s, x), e1) /\ e1.ram = d.ram /\ e1.base = d.base /\ e1.log # <<>>
      /\ e1.vol.live = Put(d.vol.live, s, TRUE) /\ e1.vol.fat = d.vol.fat
      /\ e1.vol.start = Put(d.vol.start, s, x) /\ e1.fixed = d.fixed \cup {s}
  BY <1>1 DEF Entered
<1>3. PICK e2 : Removed(e1, u, e2)
  BY <1>2, RemoveGoes
<1>4. /\ Sane(e2) /\ Goes(e1, RemoveSteps(u), e2) /\ e2.ram = e1.ram /\ e2.base = e1.base /\ e2.log # <<>>
      /\ e2.fixed = e1.fixed
      /\ e2.vol.live = Put(e1.vol.live, u, FALSE) /\ e2.vol.fat = e1.vol.fat /\ e2.vol.start = e1.vol.start
  BY <1>3 DEF Removed, Covered
<1>5. Goes(d, SwapSteps(s, x, u), e2)
  <2>1. Goes(d, EntrySteps(s, x) \o RemoveSteps(u), e2)
    BY <1>2, <1>4, GoesConcat
  <2>2. QED BY <2>1 DEF SwapSteps
<1>6. Swapped(d, s, x, u, e2)
  BY <1>2, <1>4, <1>5 DEF Swapped
<1>7. QED BY <1>6

\* The file in the way goes too.
OverSteps(r, g) == If(g # None, DeleteEntry(r, g))
Overtaken(d, g, e) ==
  /\ Sane(e) /\ Goes(d, OverSteps(d.ram, g), e) /\ e.ram = Over(d.ram, g) /\ e.base = d.base
  /\ e.log # <<>> /\ e.fixed = d.fixed /\ e.vol.start = d.vol.start
  /\ e.vol.live = (IF g = None THEN d.vol.live ELSE Put(d.vol.live, d.ram.ino[g].slot, FALSE))
  /\ e.vol.fat = (IF g = None THEN d.vol.fat ELSE Hooked(d.vol.fat, d.ram, g))

LEMMA OverGoes ==
  ASSUME NEW d, Sane(d), d.log # <<>>, NEW w, NEW K, Shape(w, d.ram, K), w.fat = d.vol.fat,
         SameOn(d.vol.fat, d.base.fat, FatIndex), NEW g,
         g # None => g \in File /\ d.ram.ino[g].st = "alloc" /\ Named(d, g)
  PROVE  \E e : Overtaken(d, g, e)
<1>1. CASE g = None
  <2>1. OverSteps(d.ram, g) = <<>> /\ Over(d.ram, g) = d.ram
    BY <1>1 DEF OverSteps, If, Over
  <2>2. Goes(d, OverSteps(d.ram, g), d)
    BY <2>1, GoesNone
  <2>3. Overtaken(d, g, d)
    BY <1>1, <2>1, <2>2 DEF Overtaken
  <2>4. QED BY <2>3
<1>2. CASE g # None
  <2>1. PICK e : DeletedTo(d, g, e)
    BY <1>2, DeleteGoes
  <2>2. /\ Sane(e) /\ Goes(d, DeleteEntry(d.ram, g), e) /\ e.ram = Deleted(d.ram, g)
        /\ e.base = d.base /\ e.log # <<>> /\ e.fixed = d.fixed
        /\ e.vol.live = Put(d.vol.live, d.ram.ino[g].slot, FALSE) /\ e.vol.start = d.vol.start
        /\ e.vol.fat = Hooked(d.vol.fat, d.ram, g)
    BY <2>1 DEF DeletedTo
  <2>3. OverSteps(d.ram, g) = DeleteEntry(d.ram, g) /\ Over(d.ram, g) = Deleted(d.ram, g)
    BY <1>2 DEF OverSteps, If, Over
  <2>4. Overtaken(d, g, e)
    BY <1>2, <2>2, <2>3 DEF Overtaken
  <2>5. QED BY <2>4
<1>3. QED BY <1>1, <1>2

LEMMA FiveSplit ==
  ASSUME NEW p, NEW q, NEW r, NEW x, NEW y
  PROVE  <<p, q, r, x, y>> = <<p, q, r>> \o <<x, y>>
OBVIOUS

LEMMA SwapIs ==
  ASSUME NEW s, NEW x, NEW u
  PROVE  <<Rec(BuildRec(s)), Start(s, x), Live(s, TRUE), Rec(RemoveRec(u)), Live(u, FALSE)>> = SwapSteps(s, x, u)
<1> DEFINE a1 == Rec(BuildRec(s))
           a2 == Start(s, x)
           a3 == Live(s, TRUE)
           b1 == Rec(RemoveRec(u))
           b2 == Live(u, FALSE)
<1>1. SwapSteps(s, x, u) = <<a1, a2, a3>> \o <<b1, b2>>
  BY DEF SwapSteps, EntrySteps, RemoveSteps
<1> HIDE DEF a1, a2, a3, b1, b2
<1>2. <<a1, a2, a3, b1, b2>> = SwapSteps(s, x, u)
  <2> DEFINE p == <<a1, a2, a3>> \o <<b1, b2>>
  <2>1. <<a1, a2, a3, b1, b2>> = p
    OBVIOUS
  <2>2. SwapSteps(s, x, u) = p
    BY <1>1
  <2> HIDE DEF p
  <2>3. QED BY <2>1, <2>2
<1>3. QED BY <1>2 DEF a1, a2, a3, b1, b2

\* The steps after the open transaction is committed.
LEMMA RenameDone ==
  ASSUME NEW d, NEW K, Fresh(d, K), NEW f \in File, NEW s \in Slot, NEW g, MayRename(d.ram, f, s, g),
         NEW x, x = d.ram.ino[f].start, NEW u, u = d.ram.ino[f].slot,
         NEW q, q = MovedOver(d.ram, f, s, g), NEW c0, NEW A, Goes(c0, A, d)
  PROVE  Done(c0, (((A \o SwapSteps(s, x, u)) \o OverSteps(d.ram, g)) \o <<Ram(q)>>) \o LogEnd(q, None))
<1> DEFINE r == d.ram
           o == Over(r, g)
<1>1. /\ d.vol \in Volume /\ r \in Rams /\ Shape(d.vol, r, K) /\ Sane(d)
      /\ \A v \in Slot : d.base.live[v] = d.vol.live[v]
      /\ \A h \in File, v \in Slot : Owns(r.ino, h, v) =>
           v \in d.fixed /\ d.vol.live[v] /\ d.vol.start[v] = r.ino[h].start
  BY FreshBase DEF Fresh
<1>2. /\ r.ino[f].st = "alloc" /\ Free(r.ino, s) /\ g \in File \cup {None}
      /\ g # None => g # f /\ g \in File /\ r.ino[g].st = "alloc"
  BY DEF MayRename
<1>3. /\ o \in Rams /\ MovedBy(o, f, s, q) /\ RenamedBy(r, f, s, g, q) /\ q \in Rams
  <2>1. o \in Rams /\ MovedBy(o, f, s, q) /\ RenamedBy(r, f, s, g, q)
    BY <1>1, RenamedFacts
  <2>2. QED BY <2>1 DEF MovedBy
<1>4. SameOn(d.vol.fat, d.base.fat, FatIndex) /\ \A h \in File : r.ino[h].st = "alloc" => Named(d, h)
  BY FreshNamed
<1>5. LiveBy(d.vol, r.ino)
  BY <1>1 DEF Shape, LiveBy
<1>6. ~d.base.live[s] /\ u \in Slot /\ d.base.live[u] /\ x \in Cluster \cup {TAIL}
  <2>1. ~d.base.live[s]
    BY <1>1, <1>2, <1>5 DEF LiveBy, Free
  <2>2. Named(d, f) /\ r.ino[f] \in Inodes
    BY <1>1, <1>2, <1>4, RamFields
  <2>3. QED BY <2>1, <2>2 DEF Named, Inodes
<1>7. PICK e2 : Swapped(d, s, x, u, e2)
  BY <1>1, <1>2, <1>6, SwapGoes
<1>8. /\ Sane(e2) /\ Goes(d, SwapSteps(s, x, u), e2) /\ e2.ram = r /\ e2.base = d.base /\ e2.log # <<>>
      /\ e2.fixed = d.fixed \cup {s} /\ e2.vol.fat = d.vol.fat /\ e2.vol.start = Put(d.vol.start, s, x)
      /\ e2.vol.live = Put(Put(d.vol.live, s, TRUE), u, FALSE)
  BY <1>7 DEF Swapped
<1>9. PICK e3 : Overtaken(e2, g, e3)
  <2>1. g # None => g \in File /\ e2.ram.ino[g].st = "alloc" /\ Named(e2, g)
    <3>1. ASSUME g # None PROVE Named(e2, g)
      <4>1. Named(d, g)
        BY <1>2, <1>4, <3>1
      <4>2. QED BY <1>8, <4>1 DEF Named
    <3>2. QED BY <1>2, <1>8, <3>1
  <2>2. Shape(d.vol, e2.ram, K) /\ d.vol.fat = e2.vol.fat /\ SameOn(e2.vol.fat, e2.base.fat, FatIndex)
    BY <1>1, <1>4, <1>8
  <2>3. QED BY <1>8, <2>1, <2>2, OverGoes
<1>10. /\ Sane(e3) /\ Goes(e2, OverSteps(r, g), e3) /\ e3.ram = o /\ e3.base = d.base
       /\ e3.log # <<>> /\ e3.fixed = d.fixed \cup {s} /\ e3.vol.start = Put(d.vol.start, s, x)
       /\ e3.vol.live = RenamedLive(d.vol.live, r, f, s, g)
       /\ e3.vol.fat = IF g = None THEN d.vol.fat ELSE Hooked(d.vol.fat, r, g)
  BY <1>8, <1>9 DEF Overtaken, RenamedLive
<1> HIDE DEF o
<1> DEFINE e4 == Turned(e3, q, e3.fixed)
<1>11. Sane(e4) /\ Goes(e3, <<Ram(q)>>, e4)
  <2>1. \A v \in Slot : e3.base.live[v] /\ <<"start", v>> \notin e3.mask => v \in e3.fixed
    BY <1>10 DEF Sane
  <2>2. ASSUME NEW h \in File, NEW v \in e3.fixed, Owns(q.ino, h, v)
        PROVE  e3.vol.start[v] = q.ino[h].start
    <3>1. v \in Slot
      BY <1>10 DEF Sane
    <3>2. e3.vol.start[v] = IF v = s THEN x ELSE d.vol.start[v]
      <4>1. d.vol.start \in [Slot -> Cluster \cup {TAIL}]
        BY <1>1, VolumeFields
      <4>2. e3.vol.start = Put(d.vol.start, s, x)
        BY <1>10
      <4>3. QED BY <3>1, <4>1, <4>2 DEF Put
    <3>3. CASE h = f
      <4>1. v = s /\ q.ino[h].start = x
        BY <1>3, <2>2, <3>3 DEF RenamedBy, Owns
      <4>2. QED BY <3>2, <4>1
    <3>4. CASE h # f
      <4>1. h # g
        BY <1>2, <1>3, <2>2, ConstantFacts DEF RenamedBy, Owns
      <4>2. Owns(r.ino, h, v) /\ q.ino[h] = r.ino[h]
        BY <1>3, <2>2, <3>4, <4>1 DEF RenamedBy, Owns
      <4>3. v # s
        BY <1>2, <4>2 DEF Free
      <4>4. QED BY <1>1, <3>1, <3>2, <4>2, <4>3
    <3>5. QED BY <3>3, <3>4
  <2>3. e3.fixed \in SUBSET e3.fixed
    OBVIOUS
  <2>4. QED BY <1>3, <1>10, <2>1, <2>2, <2>3, GoesRam
<1>12. e4.vol = e3.vol /\ e4.log = e3.log /\ e4.ram = q /\ e4.fixed = e3.fixed
  BY DEF Turned, Point
<1> HIDE DEF e4
<1>13. Shape(e4.vol, q, K)
  <2> DEFINE w == e4.vol
  <2>1. w.live = RenamedLive(d.vol.live, r, f, s, g) /\ w.fat = IF g = None THEN d.vol.fat ELSE Hooked(d.vol.fat, r, g)
    BY <1>10, <1>12
  <2> HIDE DEF w
  <2>2. Shape(w, q, K)
    BY <1>1, <2>1, RenameShape
  <2>3. QED BY <2>2 DEF w
<1>14. \A h \in File, v \in Slot : Owns(e4.ram.ino, h, v) /\ h # None => v \in e4.fixed
  <2>1. ASSUME NEW h \in File, NEW v \in Slot, Owns(q.ino, h, v)
        PROVE  v \in d.fixed \cup {s}
    <3>1. CASE h = f
      BY <1>3, <2>1, <3>1 DEF RenamedBy, Owns
    <3>2. CASE h # f
      <4>1. h # g
        BY <1>2, <1>3, <2>1, ConstantFacts DEF RenamedBy, Owns
      <4>2. Owns(r.ino, h, v)
        BY <1>3, <2>1, <3>2, <4>1 DEF RenamedBy, Owns
      <4>3. QED BY <1>1, <4>2
    <3>3. QED BY <3>1, <3>2
  <2>2. QED BY <1>10, <1>12, <2>1
<1>15. PICK e5 : Fresh(e5, K) /\ Goes(e4, LogEnd(q, None), e5)
  <2>1. Shape(e4.vol, e4.ram, K) /\ e4.log # <<>> /\ None \in File \cup {None}
    BY <1>10, <1>12, <1>13
  <2>2. \E e : Fresh(e, K) /\ Goes(e4, LogEnd(e4.ram, None), e)
    BY <1>11, <1>14, <2>1, GoesLogEnd
  <2>3. QED BY <1>12, <2>2
<1>16. Goes(c0, (((A \o SwapSteps(s, x, u)) \o OverSteps(r, g)) \o <<Ram(q)>>) \o LogEnd(q, None), e5)
  <2>1. Goes(c0, A \o SwapSteps(s, x, u), e2)
    BY <1>8, GoesConcat
  <2>2. Goes(c0, (A \o SwapSteps(s, x, u)) \o OverSteps(r, g), e3)
    BY <1>10, <2>1, GoesConcat
  <2>3. Goes(c0, ((A \o SwapSteps(s, x, u)) \o OverSteps(r, g)) \o <<Ram(q)>>, e4)
    BY <1>11, <2>2, GoesConcat
  <2>4. QED BY <1>15, <2>3, GoesConcat
<1>17. QED BY <1>15, <1>16, FreshDone

LEMMA RenameReaches ==
  ASSUME NEW c0, NEW K, Stands(c0, K), NEW f \in File, NEW s \in Slot, NEW g \in File \cup {None},
         ram.ino[f].st = "alloc", ~cache.live[s], g # None => g # f /\ ram.ino[g].st = "alloc"
  PROVE  Done(c0, RenameSteps(f, s, g))
<1>1. PICK d : /\ Fresh(d, K) /\ Goes(c0, CommitDeferred(ram), d) /\ d.ram = Released(ram)
               /\ d.vol.fat = cache.fat /\ d.vol.live = cache.live
               /\ ram \in Rams /\ Released(ram) \in Rams
               /\ Released(ram).ino = ram.ino /\ Released(ram).segs = ram.segs
  BY StandsFresh
<1> DEFINE r == d.ram
           u == r.ino[f].slot
           x == ApplyAll(cache, CommitDeferred(ram)).start[u]
           q == MovedOver(r, f, s, g)
           A == CommitDeferred(ram)
<1>2. r \in Rams /\ r.ino = ram.ino /\ Shape(d.vol, r, K)
  BY <1>1, FreshBase
<1>3. MayRename(r, f, s, g)
  <2>1. Free(r.ino, s)
    BY <1>1, <1>2 DEF Shape, Free
  <2>2. QED BY <1>2, <2>1 DEF MayRename
<1>4. x = r.ino[f].start
  <2>1. /\ Sane(c0) /\ Rest(c0, K) /\ c0.ram = ram /\ cache \in Volume
        /\ \A v \in c0.fixed : cache.start[v] = c0.vol.start[v]
    BY DEF Stands
  <2>2. Distinct(ram.ino)
    BY <1>2 DEF Shape
  <2>3. u \in Slot /\ Owns(ram.ino, f, u)
    <3>1. InodeOK(r.ino[f])
      BY <1>2, RamFields
    <3>2. QED BY <1>2, <3>1 DEF InodeOK, Owns
  <2>4. ram.writer # f => cache.start[u] = ram.ino[f].start
    <3>1. SUFFICES ASSUME ram.writer # f PROVE cache.start[u] = ram.ino[f].start
      OBVIOUS
    <3>2. u \in c0.fixed
      BY <2>1, <2>3, <3>1 DEF Rest
    <3>3. c0.vol.start[u] = ram.ino[f].start
      BY <2>1, <2>3, <3>2 DEF Sane
    <3>4. QED BY <2>1, <3>2, <3>3
  <2> HIDE DEF u
  <2>5. x = ram.ino[f].start
    BY <1>1, <2>1, <2>2, <2>3, <2>4, CommitStart
  <2>6. QED BY <1>2, <2>5
<1>5. RenameSteps(f, s, g) = (((A \o SwapSteps(s, x, u)) \o OverSteps(r, g)) \o <<Ram(q)>>) \o LogEnd(q, None)
  <2>1. <<Rec(BuildRec(s)), Start(s, x), Live(s, TRUE), Rec(RemoveRec(u)), Live(u, FALSE)>> = SwapSteps(s, x, u)
    BY SwapIs
  <2>2. RenameSteps(f, s, g) = (((A
          \o <<Rec(BuildRec(s)), Start(s, x), Live(s, TRUE), Rec(RemoveRec(u)), Live(u, FALSE)>>)
          \o OverSteps(r, g)) \o <<Ram(q)>>) \o LogEnd(q, None)
    BY <1>1 DEF RenameSteps, OverSteps, MovedOver, Over
  <2>3. QED BY <2>1, <2>2
<1> HIDE DEF x, u, q, A
<1>6. Done(c0, (((A \o SwapSteps(s, x, u)) \o OverSteps(r, g)) \o <<Ram(q)>>) \o LogEnd(q, None))
  <2>1. u = r.ino[f].slot /\ q = MovedOver(r, f, s, g) /\ Goes(c0, A, d)
    BY <1>1 DEF u, q, A
  <2>2. QED BY <1>1, <1>3, <1>4, <2>1, RenameDone
<1>7. QED BY <1>5, <1>6
-----------------------------------------------------------------------------
(***************************************************************************)
(* rfs_append_new_cluster: a chain gets one cluster more.                  *)
(***************************************************************************)
GrownBy(r, f, n, q) ==
  /\ q \in Rams /\ \A g \in File : g # f => q.ino[g] = r.ino[g]
  /\ q.ino[f].st = r.ino[f].st /\ q.ino[f].slot = r.ino[f].slot
  /\ q.ino[f].start = (IF r.ino[f].start = TAIL THEN n ELSE r.ino[f].start) /\ q.ino[f].last = n
  /\ q.segs = IF r.ino[f].st = "free" /\ r.ino[f].start = TAIL THEN Append(r.segs, f) ELSE r.segs

LEMMA GrownFacts ==
  ASSUME NEW r \in Rams, NEW f \in File, NEW p \in Seq(Cluster), p # <<>>, IsInjective(p),
         NEW q, q = Grown(r, f, p)
  PROVE  GrownBy(r, f, p[1], q) /\ q.writer = r.writer /\ q.pre = Tail(p)
<1> DEFINE n == Head(p)
           i == GrownInode(r, f, n)
<1>1. n \in Cluster /\ n = p[1] /\ q \in Rams
  BY ListTail, GrownType
<1>2. r.ino \in [File -> Inodes] /\ r.ino[f] \in Inodes
  BY RamFields
<1>3. i.st = r.ino[f].st /\ i.slot = r.ino[f].slot /\ i.start = (IF r.ino[f].start = TAIL THEN n ELSE r.ino[f].start)
  <2> HIDE DEF n
  <2>1. QED BY <1>1, GrownShape
<1>4. i.last = n
  BY <1>2 DEF GrownInode, Inodes
<1> HIDE DEF i
<1>5. q.ino = [r.ino EXCEPT ![f] = i] /\ q.segs = GrownSegs(r, f) /\ q.writer = r.writer /\ q.pre = Tail(p)
  BY DEF Grown, i
<1>6. q.ino[f] = i /\ \A g \in File : g # f => q.ino[g] = r.ino[g]
  BY <1>2, <1>5
<1>7. QED BY <1>1, <1>3, <1>4, <1>5, <1>6 DEF GrownBy, GrownSegs

\* The FAT with the cluster n behind the chain of f.
AppendedFat(fat, r, f, n) ==
  LET i == r.ino[f]
      a == IF i.start = TAIL THEN Put(fat, n, TAIL) ELSE Put(Put(fat, n, TAIL), i.last, n)
      k == SegIndex(r, f)
  IN IF i.st # "free" THEN a
     ELSE IF i.start = TAIL THEN Put(a, SegEnd(r), n)
     ELSE IF k < Len(r.segs) THEN Put(a, n, SegNext(r, k)) ELSE a
IsFirst(r, f) == r.ino[f].start = TAIL
IsFree(r, f) == r.ino[f].st = "free"
AppendsTo(fat, r, f, n, new) ==
  /\ new[n] = IF IsFree(r, f) /\ ~IsFirst(r, f) THEN SegNext(r, SegIndex(r, f)) ELSE TAIL
  /\ ~IsFirst(r, f) => new[r.ino[f].last] = n
  /\ IsFree(r, f) /\ IsFirst(r, f) => new[SegEnd(r)] = n
  /\ \A x \in FatIndex : /\ x # n
                         /\ ~IsFirst(r, f) => x # r.ino[f].last
                         /\ IsFree(r, f) /\ IsFirst(r, f) => x # SegEnd(r)
                         => new[x] = fat[x]

LEMMA AppendedIs ==
  ASSUME NEW fat \in FatMap, NEW r, NEW f, NEW n \in FatIndex,
         ~IsFirst(r, f) => r.ino[f].last \in FatIndex /\ r.ino[f].last # n,
         SegEnd(r) \in FatIndex, SegEnd(r) # n,
         NEW new, new = AppendedFat(fat, r, f, n)
  PROVE  AppendsTo(fat, r, f, n, new)
<1> DEFINE a == IF IsFirst(r, f) THEN Put(fat, n, TAIL) ELSE Put(Put(fat, n, TAIL), r.ino[f].last, n)
           k == SegIndex(r, f)
<1>1. /\ DOMAIN a = FatIndex /\ a[n] = TAIL /\ (~IsFirst(r, f) => a[r.ino[f].last] = n)
      /\ \A x \in FatIndex : x # n /\ (~IsFirst(r, f) => x # r.ino[f].last) => a[x] = fat[x]
  <2> DEFINE z == Put(fat, n, TAIL)
  <2>1. DOMAIN z = FatIndex /\ z[n] = TAIL /\ \A x \in FatIndex : x # n => z[x] = fat[x]
    BY DEF Put, FatMap
  <2>2. a = IF IsFirst(r, f) THEN z ELSE Put(z, r.ino[f].last, n)
    OBVIOUS
  <2> HIDE DEF z, a
  <2>3. CASE IsFirst(r, f)
    BY <2>1, <2>2, <2>3
  <2>4. CASE ~IsFirst(r, f)
    BY <2>1, <2>2, <2>4 DEF Put
  <2>5. QED BY <2>3, <2>4
<1>2. new = IF ~IsFree(r, f) THEN a
            ELSE IF IsFirst(r, f) THEN Put(a, SegEnd(r), n)
            ELSE IF k < Len(r.segs) THEN Put(a, n, SegNext(r, k)) ELSE a
  BY DEF AppendedFat, IsFree, IsFirst
<1> HIDE DEF a
<1>3. CASE ~IsFree(r, f)
  BY <1>1, <1>2, <1>3 DEF AppendsTo
<1>4. CASE IsFree(r, f) /\ IsFirst(r, f)
  BY <1>1, <1>2, <1>4 DEF AppendsTo, Put
<1>5. CASE IsFree(r, f) /\ ~IsFirst(r, f) /\ k < Len(r.segs)
  BY <1>1, <1>2, <1>5 DEF AppendsTo, Put
<1>6. CASE IsFree(r, f) /\ ~IsFirst(r, f) /\ ~(k < Len(r.segs))
  <2>1. SegNext(r, k) = TAIL
    BY <1>6 DEF SegNext
  <2>2. QED BY <1>1, <1>2, <1>6, <2>1 DEF AppendsTo
<1>7. QED BY <1>3, <1>4, <1>5, <1>6

\* A chain hung behind the others.
LEMMA HungTrails ==
  ASSUME NEW v, NEW r \in Rams, NEW K, Shape(v, r, K), NEW f \in File,
         NEW q, q.segs = Append(r.segs, f), \A k \in 1..Len(r.segs) : q.ino[r.segs[k]] = r.ino[r.segs[k]],
         NEW fat, fat[SegEnd(r)] = q.ino[f].start, SegEnd(r) # Log => fat[Log] = v.fat[Log],
         NEW L, \A k \in 1..Len(r.segs) : /\ L[r.segs[k]] = K[r.segs[k]]
                                          /\ SameOn(v.fat, fat, ToSet(K[r.segs[k]]) \ {SegEnd(r)}),
         Trail(fat, L[f], TAIL)
  PROVE  /\ fat[Log] = SegNext(q, 0)
         /\ \A k \in 1..Len(q.segs) : Trail(fat, L[q.segs[k]], SegNext(q, k))
<1> DEFINE n == Len(r.segs)
<1>1. n \in Nat /\ r.segs \in Seq(File) /\ \A k \in 1..n : r.segs[k] \in File
  BY SegFacts
<1>2. Len(q.segs) = n + 1 /\ q.segs[n + 1] = f /\ \A k \in 1..n : q.segs[k] = r.segs[k]
  BY <1>1
<1>3. /\ n = 0 => SegEnd(r) = Log
      /\ n # 0 => LET p == K[r.segs[n]]
                  IN p \in Seq(Cluster) /\ p # <<>> /\ SegEnd(r) = p[Len(p)] /\ SegEnd(r) \in ToSet(p)
  <2>1. EndBy(v, r, K)
    BY SegEndFacts
  <2>2. QED BY <2>1 DEF EndBy
<1>5. /\ SegNext(q, n + 1) = TAIL /\ SegNext(q, n) = q.ino[f].start
      /\ \A k \in 0..(n - 1) : SegNext(q, k) = SegNext(r, k)
  <2>1. SegNext(q, n + 1) = TAIL
    BY <1>1, <1>2 DEF SegNext
  <2>2. SegNext(q, n) = q.ino[f].start
    BY <1>1, <1>2 DEF SegNext, SegStart
  <2>3. ASSUME NEW k \in 0..(n - 1)
        PROVE  SegNext(q, k) = SegNext(r, k)
    <3>1. k + 1 \in 1..n /\ k < n /\ k < n + 1
      BY <1>1
    <3>2. q.segs[k + 1] = r.segs[k + 1] /\ q.ino[r.segs[k + 1]] = r.ino[r.segs[k + 1]]
      BY <1>1, <1>2, <3>1
    <3>3. QED BY <1>2, <3>1, <3>2 DEF SegNext, SegStart
  <2>4. QED BY <2>1, <2>2, <2>3
<1>6. fat[Log] = SegNext(q, 0)
  <2>1. CASE n = 0
    BY <1>3, <1>5, <2>1
  <2>2. CASE n # 0
    <3>1. SegEnd(r) \in Cluster
      BY <1>3, <2>2, SetIs
    <3>2. fat[Log] = v.fat[Log]
      BY <3>1, RfsAssumption
    <3>3. v.fat[Log] = SegNext(r, 0)
      BY DEF Shape
    <3>4. QED BY <1>1, <1>5, <2>2, <3>2, <3>3
  <2>3. QED BY <2>1, <2>2
<1>7. ASSUME NEW k \in 1..Len(q.segs)
      PROVE  Trail(fat, L[q.segs[k]], SegNext(q, k))
  <2>1. CASE k = n + 1
    BY <1>2, <1>5, <2>1
  <2>2. CASE k # n + 1
    <3> DEFINE g == r.segs[k]
    <3>1. k \in 1..n /\ q.segs[k] = g /\ g \in File /\ L[g] = K[g]
      <4>1. k \in 1..n
        BY <1>1, <1>2, <2>2
      <4>2. L[g] = K[g]
        BY <4>1
      <4>3. QED BY <1>1, <1>2, <4>1, <4>2
    <3>2. K[g] \in Seq(Cluster) /\ Trail(v.fat, K[g], SegNext(r, k)) /\ Once(K[g])
      BY <3>1 DEF Shape
    <3>3. SameOn(v.fat, fat, ToSet(K[g]) \ {SegEnd(r)})
      BY <3>1
    <3>4. CASE k = n
      <4> DEFINE p == K[g]
      <4>1. p \in Seq(Cluster) /\ p # <<>> /\ SegEnd(r) = p[Len(p)] /\ Once(p) /\ Trail(v.fat, p, SegNext(r, k))
        BY <1>3, <3>1, <3>2, <3>4
      <4>2. SameOn(v.fat, fat, ToSet(p) \ {p[Len(p)]})
        BY <3>3, <4>1
      <4>3. fat[p[Len(p)]] = SegNext(q, k)
        BY <1>5, <3>4, <4>1
      <4> HIDE DEF p, g
      <4>4. Trail(fat, p, SegNext(q, k))
        BY <4>1, <4>2, <4>3, TrailTurns
      <4>5. QED BY <3>1, <4>4 DEF p
    <3>5. CASE k # n
      <4>1. k \in 0..(n - 1) /\ n # 0 /\ r.segs[n] # g /\ r.segs[n] \in File
        BY <1>1, <3>1, <3>5, SegFacts
      <4>2. SegNext(q, k) = SegNext(r, k)
        BY <1>5, <4>1
      <4>3. ToSet(K[g]) \cap ToSet(K[r.segs[n]]) = {}
        BY <3>1, <4>1 DEF Shape
      <4>4. SameOn(v.fat, fat, ToSet(K[g]))
        BY <1>3, <3>3, <4>1, <4>3 DEF SameOn
      <4>5. Trail(fat, K[g], SegNext(r, k))
        BY <3>2, <4>4, TrailSame
      <4>6. QED BY <3>1, <4>2, <4>5
    <3>6. QED BY <3>4, <3>5
  <2>3. QED BY <2>1, <2>2
<1>8. QED BY <1>6, <1>7
\* The chains of the inodes, with the cluster n behind the one of f.
AppendedChains(K, f, n) == Put(K, f, K[f] \o <<n>>)
AppendedP(K, f, n, p) ==
  /\ p \in Seq(Cluster) /\ Once(p) /\ ToSet(p) = ToSet(K[f]) \cup {n} /\ p # <<>> /\ p[Len(p)] = n
  /\ HeadOr(p, TAIL) = HeadOr(K[f], n)

LEMMA FirstConcat ==
  ASSUME NEW S, NEW p \in Seq(S), NEW q \in Seq(S), NEW e
  PROVE  HeadOr(p \o q, e) = HeadOr(p, HeadOr(q, e))
<1>1. /\ Len(p \o q) = Len(p) + Len(q) /\ p \o q \in Seq(S) /\ Len(p) \in Nat /\ Len(q) \in Nat
      /\ 1 \in 1..Len(p) => (p \o q)[1] = p[1]
  BY ConcatProperties
<1>2. CASE p = <<>>
  <2>1. p \o q = q
    BY <1>2
  <2>2. QED BY <1>2, <2>1 DEF HeadOr
<1>3. CASE p # <<>>
  <2>1. 1 \in 1..Len(p)
    BY <1>3
  <2>2. p \o q # <<>>
    BY <1>1, <2>1
  <2>3. QED BY <1>1, <1>3, <2>1, <2>2 DEF HeadOr
<1>4. QED BY <1>2, <1>3

LEMMA AppendedChain ==
  ASSUME NEW K \in [File -> Seq(Cluster)], NEW f \in File, NEW n \in Cluster, Once(K[f]), n \notin ToSet(K[f]),
         NEW p, p = K[f] \o <<n>>
  PROVE  AppendedP(K, f, n, p)
<1> DEFINE a == K[f]
           b == <<n>>
<1>1. a \in Seq(Cluster) /\ b \in Seq(Cluster) /\ Len(b) = 1 /\ b[1] = n
  OBVIOUS
<1>2. Once(b) /\ ToSet(b) = {n} /\ HeadOr(b, TAIL) = n
  <2>1. Once(b) /\ ToSet(b) = {n}
    BY TrailOne
  <2>2. QED BY <1>1, <2>1 DEF HeadOr
<1> HIDE DEF a, b
<1>3. p = a \o b /\ Once(a) /\ ToSet(a) \cap ToSet(b) = {}
  BY <1>2 DEF a, b
<1>4. p \in Seq(Cluster) /\ ToSet(p) = ToSet(a) \cup {n} /\ Once(p)
  <2>0. /\ a \o b \in Seq(Cluster) /\ ToSet(a \o b) = ToSet(a) \cup ToSet(b)
        /\ Once(a) /\ Once(b) /\ ToSet(a) \cap ToSet(b) = {} => Once(a \o b)
    BY <1>1, SetConcat
  <2>1. p \in Seq(Cluster) /\ ToSet(p) = ToSet(a) \cup ToSet(b)
    BY <1>3, <2>0
  <2>2. Once(p)
    BY <1>2, <1>3, <2>0
  <2>3. QED BY <1>2, <2>1, <2>2
<1>5. p # <<>> /\ p[Len(p)] = n
  BY <1>1, <1>3, ConcatProperties
<1>6. HeadOr(p, TAIL) = HeadOr(a, n)
  <2>1. HeadOr(a \o b, TAIL) = HeadOr(a, HeadOr(b, TAIL))
    BY <1>1, FirstConcat
  <2>2. QED BY <1>2, <1>3, <2>1
<1>7. QED BY <1>4, <1>5, <1>6 DEF AppendedP, a

\* What the append touches.
Apart(v, r, K, f, n) ==
  /\ \A g \in File : K[g] \in Seq(Cluster) /\ ToSet(K[g]) \subseteq Cluster /\ n \notin ToSet(K[g])
  /\ n # SegEnd(r) /\ SegEnd(r) \in FatIndex /\ v.fat[SegEnd(r)] = TAIL
  /\ \A g \in File : r.ino[g].st # "free" => SegEnd(r) \notin ToSet(K[g])
  /\ IsFirst(r, f) <=> K[f] = <<>>
  /\ ~IsFirst(r, f) => /\ r.ino[f].last \in ToSet(K[f]) /\ r.ino[f].last # n
                       /\ \A g \in File : g # f => r.ino[f].last \notin ToSet(K[g])

LEMMA ApartIs ==
  ASSUME NEW v, NEW r \in Rams, NEW K, Shape(v, r, K), NEW f \in File,
         NEW n \in Cluster, v.fat[n] = FREE
  PROVE  Apart(v, r, K, f, n)
<1>1. EndBy(v, r, K) /\ \A g \in File : Used(v, r, K, g)
  BY SegEndFacts, ShapeUsed
<1>2. /\ SegEnd(r) \in FatIndex /\ v.fat[SegEnd(r)] = TAIL
      /\ \A g \in File : r.ino[g].st # "free" => SegEnd(r) \notin ToSet(K[g])
  BY <1>1 DEF EndBy
<1>3. \A g \in File : /\ K[g] \in Seq(Cluster)
                      /\ \A x \in ToSet(K[g]) : x \in Cluster /\ v.fat[x] # FREE
                      /\ r.ino[g].start = TAIL <=> K[g] = <<>>
                      /\ K[g] # <<>> => r.ino[g].last \in ToSet(K[g])
  BY <1>1 DEF Used
<1>4. \A g, h \in File : g # h => ToSet(K[g]) \cap ToSet(K[h]) = {}
  BY DEF Shape
<1>5. n # SegEnd(r)
  BY <1>2, ConstantFacts
<1>6. \A g \in File : K[g] \in Seq(Cluster) /\ ToSet(K[g]) \subseteq Cluster /\ n \notin ToSet(K[g])
  BY <1>3
<1>7. IsFirst(r, f) <=> K[f] = <<>>
  BY <1>3 DEF IsFirst
<1>8. ~IsFirst(r, f) => /\ r.ino[f].last \in ToSet(K[f]) /\ r.ino[f].last # n
                        /\ \A g \in File : g # f => r.ino[f].last \notin ToSet(K[g])
  <2>1. SUFFICES ASSUME ~IsFirst(r, f)
                 PROVE  /\ r.ino[f].last \in ToSet(K[f]) /\ r.ino[f].last # n
                        /\ \A g \in File : g # f => r.ino[f].last \notin ToSet(K[g])
    OBVIOUS
  <2>2. r.ino[f].last \in ToSet(K[f])
    BY <1>3, <1>7, <2>1
  <2>3. n \notin ToSet(K[f])
    BY <1>6
  <2>4. \A g \in File : g # f => ToSet(K[g]) \cap ToSet(K[f]) = {}
    BY <1>4
  <2>5. QED BY <2>2, <2>3, <2>4
<1>9. QED BY <1>2, <1>5, <1>6, <1>7, <1>8 DEF Apart

\* The chain, with its new end, leads on to where the new cluster does.
LEMMA AppendedTrail ==
  ASSUME NEW v, NEW r \in Rams, NEW K, Shape(v, r, K), NEW f \in File,
         NEW n \in Cluster, Apart(v, r, K, f, n), r.ino[f].st # "none",
         NEW new, AppendsTo(v.fat, r, f, n, new)
  PROVE  Trail(new, K[f] \o <<n>>, new[n])
<1> DEFINE a == K[f]
           b == <<n>>
<1>1. a \in Seq(Cluster) /\ b \in Seq(Cluster) /\ Trail(new, b, new[n]) /\ HeadOr(b, new[n]) = n
  <2>1. a \in Seq(Cluster)
    BY DEF Apart
  <2>2. Trail(new, b, new[n])
    BY TrailOne
  <2>3. HeadOr(b, new[n]) = n
    BY DEF HeadOr
  <2>4. b \in Seq(Cluster)
    OBVIOUS
  <2>5. QED BY <2>1, <2>2, <2>3, <2>4
<1> HIDE DEF b
<1>2. Trail(new, a, n)
  <2>1. CASE a = <<>>
    BY <2>1, TrailNone
  <2>2. CASE a # <<>>
    <3>1. ~IsFirst(r, f) /\ r.ino[f].last = a[Len(a)] /\ Once(a)
      BY <2>2 DEF Apart, Shape
    <3>2. new[a[Len(a)]] = n
      BY <3>1 DEF AppendsTo
    <3>3. SameOn(v.fat, new, ToSet(a) \ {a[Len(a)]})
      <4>1. \A x \in FatIndex : x # n /\ x # r.ino[f].last => new[x] = v.fat[x]
        BY <3>1 DEF AppendsTo
      <4>2. ToSet(a) \subseteq Cluster /\ n \notin ToSet(a)
        BY DEF Apart
      <4>3. QED BY <3>1, <4>1, <4>2 DEF SameOn, FatIndex
    <3>4. \E e : Trail(v.fat, a, e)
      <4>1. CASE r.ino[f].st = "alloc"
        BY <4>1 DEF Shape
      <4>2. CASE r.ino[f].st = "free"
        <5>1. r.ino[f].start # TAIL
          BY <3>1 DEF IsFirst
        <5>2. PICK k \in 1..Len(r.segs) : r.segs[k] = f
          BY <4>2, <5>1, SegFacts
        <5>3. Trail(v.fat, K[r.segs[k]], SegNext(r, k))
          BY DEF Shape
        <5>4. QED BY <5>2, <5>3
      <4>3. r.ino[f] \in Inodes
        BY RamFields
      <4>4. QED BY <4>1, <4>2, <4>3 DEF Inodes
    <3>5. PICK e : Trail(v.fat, a, e)
      BY <3>4
    <3> HIDE DEF a
    <3>6. QED BY <1>1, <2>2, <3>1, <3>2, <3>3, <3>5, TrailTurns
  <2>3. QED BY <2>1, <2>2
<1> HIDE DEF a
<1>3. Trail(new, a \o b, new[n])
  BY <1>1, <1>2, TrailConcat
<1>4. QED BY <1>3 DEF a, b

\* The segments behind an append.
LEMMA AppendedSegs ==
  ASSUME NEW v, NEW r \in Rams, NEW K, Shape(v, r, K), NEW f \in File, r.ino[f].st # "none",
         NEW n \in Cluster, Apart(v, r, K, f, n), NEW q, GrownBy(r, f, n, q),
         NEW w, AppendsTo(v.fat, r, f, n, w.fat), NEW L, L[f] = K[f] \o <<n>>,
         \A g \in File : g # f => L[g] = K[g]
  PROVE  /\ w.fat[Log] = SegNext(q, 0)
         /\ \A k \in 1..Len(q.segs) : Trail(w.fat, L[q.segs[k]], SegNext(q, k))
<1> DEFINE new == w.fat
<1>1. /\ \A g \in File : K[g] \in Seq(Cluster) /\ ToSet(K[g]) \subseteq Cluster /\ n \notin ToSet(K[g])
      /\ ~IsFirst(r, f) => /\ r.ino[f].last \in ToSet(K[f])
                           /\ \A g \in File : g # f => r.ino[f].last \notin ToSet(K[g])
      /\ IsFirst(r, f) <=> K[f] = <<>>
      /\ SegEnd(r) \in FatIndex
  BY DEF Apart
<1>2. /\ \A g \in File : g # f => q.ino[g] = r.ino[g]
      /\ q.ino[f].start = (IF IsFirst(r, f) THEN n ELSE r.ino[f].start)
      /\ q.segs = IF IsFree(r, f) /\ IsFirst(r, f) THEN Append(r.segs, f) ELSE r.segs
  BY DEF GrownBy, IsFree, IsFirst
<1>3. /\ new[n] = IF IsFree(r, f) /\ ~IsFirst(r, f) THEN SegNext(r, SegIndex(r, f)) ELSE TAIL
      /\ IsFree(r, f) /\ IsFirst(r, f) => new[SegEnd(r)] = n
      /\ \A x \in FatIndex : /\ x # n
                             /\ ~IsFirst(r, f) => x # r.ino[f].last
                             /\ IsFree(r, f) /\ IsFirst(r, f) => x # SegEnd(r)
                             => new[x] = v.fat[x]
  BY DEF AppendsTo
<1>4. Trail(new, L[f], new[n])
  BY AppendedTrail
<1>5. /\ Len(r.segs) \in Nat
      /\ \A k \in 1..Len(r.segs) : r.segs[k] \in File /\ r.ino[r.segs[k]].st = "free" /\ r.ino[r.segs[k]].start # TAIL
      /\ \A j, k \in 1..Len(r.segs) : r.segs[j] = r.segs[k] => j = k
  BY SegFacts
<1>6. Log \in FatIndex /\ Log # n /\ (~IsFirst(r, f) => Log # r.ino[f].last)
  BY <1>1, RfsAssumption, ConstantFacts
<1>7. CASE IsFree(r, f) /\ IsFirst(r, f)
  <2>1. \A k \in 1..Len(r.segs) : r.segs[k] # f
    BY <1>5, <1>7 DEF IsFirst
  <2>2. q.segs = Append(r.segs, f) /\ \A k \in 1..Len(r.segs) : q.ino[r.segs[k]] = r.ino[r.segs[k]]
    BY <1>2, <1>5, <1>7, <2>1
  <2>3. new[SegEnd(r)] = q.ino[f].start /\ (SegEnd(r) # Log => new[Log] = v.fat[Log])
    BY <1>2, <1>3, <1>6, <1>7
  <2>4. \A k \in 1..Len(r.segs) : /\ L[r.segs[k]] = K[r.segs[k]]
                                  /\ SameOn(v.fat, new, ToSet(K[r.segs[k]]) \ {SegEnd(r)})
    <3>1. \A g \in File : g # f => SameOn(v.fat, new, ToSet(K[g]) \ {SegEnd(r)})
      BY <1>1, <1>3, <1>7 DEF SameOn, FatIndex
    <3>2. QED BY <1>5, <2>1, <3>1
  <2>5. Trail(new, L[f], TAIL)
    BY <1>3, <1>4, <1>7
  <2> HIDE DEF new
  <2>6. /\ new[Log] = SegNext(q, 0)
        /\ \A k \in 1..Len(q.segs) : Trail(new, L[q.segs[k]], SegNext(q, k))
    BY <2>2, <2>3, <2>4, <2>5, HungTrails
  <2>7. QED BY <2>6 DEF new
<1>8. CASE ~(IsFree(r, f) /\ IsFirst(r, f))
  <2>1. q.segs = r.segs /\ \A x \in FatIndex : x # n /\ (~IsFirst(r, f) => x # r.ino[f].last) => new[x] = v.fat[x]
    BY <1>2, <1>3, <1>8
  <2>2. \A g \in File : g # f => SameOn(v.fat, new, ToSet(K[g]))
    BY <1>1, <2>1 DEF SameOn, FatIndex
  <2>3. new[Log] = v.fat[Log]
    BY <1>6, <2>1
  <2>4. CASE ~IsFree(r, f)
    <3>1. \A k \in 1..Len(r.segs) : r.segs[k] # f
      BY <1>5, <2>4 DEF IsFree
    <3>2. \A k \in 1..Len(r.segs) : q.ino[r.segs[k]] = r.ino[r.segs[k]]
      BY <1>2, <1>5, <3>1
    <3>3. \A k \in 1..Len(r.segs) : /\ L[r.segs[k]] = K[r.segs[k]]
                                    /\ SameOn(v.fat, w.fat, ToSet(K[r.segs[k]]))
      BY <1>5, <2>2, <3>1
    <3>4. QED BY <2>1, <2>3, <3>2, <3>3, SegsKeep
  <2>5. CASE IsFree(r, f) /\ ~IsFirst(r, f)
    <3> DEFINE k0 == SegIndex(r, f)
    <3>1. k0 \in 1..Len(r.segs) /\ r.segs[k0] = f
      BY <2>5, SegPlace DEF IsFree, IsFirst
    <3> HIDE DEF k0
    <3>2. \A g \in File : q.ino[g].start = r.ino[g].start
      BY <1>2, <2>5
    <3>3. ASSUME NEW k \in 0..Len(r.segs) PROVE SegNext(q, k) = SegNext(r, k)
      <4>1. CASE k < Len(r.segs)
        <5>1. k + 1 \in 1..Len(r.segs)
          BY <1>5, <4>1
        <5>2. q.ino[r.segs[k + 1]].start = r.ino[r.segs[k + 1]].start
          BY <1>5, <3>2, <5>1
        <5>3. QED BY <2>1, <4>1, <5>2 DEF SegNext, SegStart
      <4>2. CASE ~(k < Len(r.segs))
        BY <2>1, <4>2 DEF SegNext
      <4>3. QED BY <4>1, <4>2
    <3>4. 0 \in 0..Len(r.segs) /\ \A k \in 1..Len(r.segs) : k \in 0..Len(r.segs)
      BY <1>5
    <3>5. v.fat[Log] = SegNext(r, 0) /\ \A k \in 1..Len(r.segs) : Trail(v.fat, K[r.segs[k]], SegNext(r, k))
      BY DEF Shape
    <3>6. ASSUME NEW k \in 1..Len(r.segs) PROVE Trail(new, L[r.segs[k]], SegNext(q, k))
      <4>1. SegNext(q, k) = SegNext(r, k)
        BY <3>3, <3>4
      <4>2. CASE k = k0
        <5>1. new[n] = SegNext(r, k)
          BY <1>3, <2>5, <4>2 DEF k0
        <5>2. r.segs[k] = f
          BY <3>1, <4>2
        <5>3. QED BY <1>4, <4>1, <5>1, <5>2
      <4>3. CASE k # k0
        <5>1. r.segs[k] # f /\ r.segs[k] \in File
          BY <1>5, <3>1, <4>3
        <5>2. L[r.segs[k]] = K[r.segs[k]] /\ K[r.segs[k]] \in Seq(Cluster) /\ SameOn(v.fat, new, ToSet(K[r.segs[k]]))
          BY <1>1, <2>2, <5>1
        <5>3. Trail(v.fat, K[r.segs[k]], SegNext(r, k))
          BY <3>5
        <5> HIDE DEF new
        <5>4. Trail(new, K[r.segs[k]], SegNext(r, k))
          BY <5>2, <5>3, TrailSame
        <5>5. QED BY <4>1, <5>2, <5>4
      <4>4. QED BY <4>2, <4>3
    <3>7. new[Log] = SegNext(q, 0)
      BY <2>3, <3>3, <3>4, <3>5
    <3>8. QED BY <2>1, <3>6, <3>7
  <2>6. QED BY <1>8, <2>4, <2>5
<1>9. QED BY <1>7, <1>8

LEMMA AppendShape ==
  ASSUME NEW v, NEW r \in Rams, NEW K, Shape(v, r, K), NEW f \in File, r.ino[f].st # "none",
         NEW n \in Cluster, v.fat[n] = FREE, NEW q, GrownBy(r, f, n, q),
         NEW w, AppendsTo(v.fat, r, f, n, w.fat), w.live = v.live
  PROVE  Shape(w, q, AppendedChains(K, f, n))
<1> DEFINE p == K[f] \o <<n>>
           L == AppendedChains(K, f, n)
<1>1. Apart(v, r, K, f, n)
  BY ApartIs
<1>2. /\ \A g \in File : K[g] \in Seq(Cluster) /\ ToSet(K[g]) \subseteq Cluster /\ n \notin ToSet(K[g])
      /\ SegEnd(r) \in FatIndex /\ v.fat[SegEnd(r)] = TAIL
      /\ \A g \in File : r.ino[g].st # "free" => SegEnd(r) \notin ToSet(K[g])
      /\ IsFirst(r, f) <=> K[f] = <<>>
      /\ ~IsFirst(r, f) => /\ r.ino[f].last \in ToSet(K[f])
                           /\ \A g \in File : g # f => r.ino[f].last \notin ToSet(K[g])
  BY <1>1 DEF Apart
<1>3. /\ K \in [File -> Seq(Cluster)] /\ Distinct(r.ino) /\ Once(K[f])
      /\ r.ino[f].start = HeadOr(K[f], TAIL)
      /\ \A s \in Slot : v.live[s] <=> \E g \in File : Owns(r.ino, g, s)
      /\ \A g, h \in File : g # h => ToSet(K[g]) \cap ToSet(K[h]) = {}
  BY DEF Shape
<1>4. AppendedP(K, f, n, p)
  BY <1>2, <1>3, AppendedChain
<1> HIDE DEF p
<1>5. /\ p \in Seq(Cluster) /\ Once(p) /\ ToSet(p) = ToSet(K[f]) \cup {n} /\ p # <<>> /\ p[Len(p)] = n
      /\ HeadOr(p, TAIL) = HeadOr(K[f], n)
  BY <1>4 DEF AppendedP
<1>6. L \in [File -> Seq(Cluster)] /\ L[f] = p /\ \A g \in File : g # f => L[g] = K[g]
  BY <1>3, <1>5 DEF AppendedChains, Put, p
<1> HIDE DEF L
<1>7. /\ q \in Rams /\ \A g \in File : g # f => q.ino[g] = r.ino[g]
      /\ q.ino[f].st = r.ino[f].st /\ q.ino[f].slot = r.ino[f].slot /\ q.ino[f].last = n
      /\ q.ino[f].start = IF IsFirst(r, f) THEN n ELSE r.ino[f].start
  BY DEF GrownBy, IsFirst
<1>8. \A g \in File, s \in Slot : Owns(q.ino, g, s) <=> Owns(r.ino, g, s)
  BY <1>7 DEF Owns
<1>9. q.ino[f].start = HeadOr(p, TAIL)
  BY <1>2, <1>3, <1>5, <1>7 DEF HeadOr
<1>10. Trail(w.fat, p, w.fat[n])
  BY <1>1, AppendedTrail DEF p
<1>11. q.ino[f].st = "alloc" => Trail(w.fat, p, TAIL)
  <2>1. q.ino[f].st = "alloc" => w.fat[n] = TAIL
    BY <1>7 DEF AppendsTo, IsFree
  <2>2. QED BY <1>10, <2>1
<1>12. /\ w.fat[Log] = SegNext(q, 0)
       /\ \A k \in 1..Len(q.segs) : Trail(w.fat, L[q.segs[k]], SegNext(q, k))
  <2>1. L[f] = K[f] \o <<n>> /\ \A g \in File : g # f => L[g] = K[g]
    BY <1>6 DEF p
  <2>2. QED BY <1>1, <2>1, AppendedSegs
<1>13. \A x \in FatIndex : /\ x # n
                           /\ ~IsFirst(r, f) => x # r.ino[f].last
                           /\ IsFree(r, f) /\ IsFirst(r, f) => x # SegEnd(r)
                           => w.fat[x] = v.fat[x]
  BY DEF AppendsTo
<1>14. \A g \in File : g # f /\ r.ino[g].st = "alloc" => SameOn(v.fat, w.fat, ToSet(K[g]))
  BY <1>2, <1>13 DEF SameOn, FatIndex
<1>15. \A c \in Cluster : w.fat[c] # FREE /\ c \notin ToSet(p) => v.fat[c] # FREE /\ c \notin ToSet(K[f])
  <2>1. ASSUME NEW c \in Cluster, w.fat[c] # FREE, c \notin ToSet(p)
        PROVE  v.fat[c] # FREE
    <3>1. c \in FatIndex /\ c # n /\ (~IsFirst(r, f) => c # r.ino[f].last)
      BY <1>2, <1>5, <2>1 DEF FatIndex
    <3>2. CASE c = SegEnd(r)
      BY <1>2, <3>2, ConstantFacts
    <3>3. CASE c # SegEnd(r)
      BY <1>13, <2>1, <3>1, <3>3
    <3>4. QED BY <3>2, <3>3
  <2>2. QED BY <1>5, <2>1
<1>16. Changes(v, r, K, f, w, q, L)
  <2>1. Distinct(q.ino)
    BY <1>3, <1>8 DEF Distinct
  <2>2. \A s \in Slot : w.live[s] <=> \E g \in File : Owns(q.ino, g, s)
    BY <1>3, <1>8
  <2>3. \A g \in File : g # f => ToSet(L[f]) \cap ToSet(K[g]) = {}
    BY <1>2, <1>3, <1>5, <1>6
  <2>4. q.ino[f].st # "none"
    BY <1>7
  <2>5. QED BY <1>5, <1>6, <1>7, <1>9, <1>11, <1>12, <1>14, <1>15, <2>1, <2>2, <2>3, <2>4 DEF Changes
<1>17. Shape(w, q, L)
  BY <1>7, <1>16, ShapeChange
<1>18. QED BY <1>17 DEF L
\* The steps of an append: the new cluster, the link to it, and its place in the
\* log file's chain.
JoinSteps(r, f, n) == <<Fat(n, TAIL)>> \o If(~IsFirst(r, f), <<Fat(r.ino[f].last, n)>>)
LinkSteps(r, f, n) ==
  IF ~IsFree(r, f) THEN <<>>
  ELSE IF IsFirst(r, f) THEN HookSteps(None, SegEnd(r), n, n)
  ELSE If(SegIndex(r, f) < Len(r.segs), <<Fat(n, SegNext(r, SegIndex(r, f)))>>)

Unhung(r, f, p) == [Grown(r, f, p) EXCEPT !.segs = r.segs]

LEMMA UnhungEnd ==
  ASSUME NEW r \in Rams, NEW f \in File, IsFree(r, f), IsFirst(r, f),
         NEW p \in Seq(Cluster), p # <<>>, IsInjective(p),
         NEW u, u = Unhung(r, f, p)
  PROVE  SegEnd(u) = SegEnd(r) /\ u.ino[f].start = p[1] /\ u.ino[f].last = p[1]
<1> DEFINE q == Grown(r, f, p)
<1>1. GrownBy(r, f, p[1], q)
  BY GrownFacts
<1>2. u.ino = q.ino /\ u.segs = r.segs
  BY DEF Grown, Unhung
<1> HIDE DEF q
<1>3. /\ \A g \in File : g # f => q.ino[g] = r.ino[g]
      /\ q.ino[f].start = p[1] /\ q.ino[f].last = p[1]
  BY <1>1 DEF GrownBy, IsFirst
<1>4. /\ Len(r.segs) \in Nat
      /\ \A k \in 1..Len(r.segs) : r.segs[k] \in File /\ r.ino[r.segs[k]].start # TAIL
  BY SegFacts
<1>5. SegEnd(u) = SegEnd(r)
  <2>1. CASE Len(r.segs) = 0
    BY <1>2, <2>1 DEF SegEnd, SegLast
  <2>2. CASE Len(r.segs) # 0
    <3>1. Len(r.segs) \in 1..Len(r.segs)
      BY <1>4, <2>2
    <3>2. r.segs[Len(r.segs)] \in File /\ r.segs[Len(r.segs)] # f
      BY <1>4, <3>1 DEF IsFirst
    <3>3. u.ino[r.segs[Len(r.segs)]] = r.ino[r.segs[Len(r.segs)]]
      BY <1>2, <1>3, <3>2
    <3>4. QED BY <1>2, <2>2, <3>3 DEF SegEnd, SegLast
  <2>3. QED BY <2>1, <2>2
<1>6. QED BY <1>2, <1>3, <1>5

LEMMA AppendIs ==
  ASSUME NEW r \in Rams, NEW f \in File, NEW p \in Seq(Cluster), p # <<>>, IsInjective(p),
         NEW n, n = p[1]
  PROVE  AppendCluster(r, f, p).steps
           = (JoinSteps(r, f, n) \o LinkSteps(r, f, n)) \o <<Ram(Grown(r, f, p))>>
<1> DEFINE i == r.ino[f]
           new == Head(p)
           free == i.st = "free"
           first == i.start = TAIL
           k == SegIndex(r, f)
           after == [r EXCEPT !.pre = Tail(p), !.ino[f].last = new,
                              !.ino[f].start = IF first THEN new ELSE @,
                              !.segs = IF free /\ first THEN Append(@, f) ELSE @]
           unhung == [after EXCEPT !.segs = r.segs]
           d1 == <<Fat(new, TAIL)>>
           d2 == If(~first, <<Fat(i.last, new)>>)
           move == MoveChain(unhung, None, f)
           link == If(k < Len(r.segs), <<Fat(new, SegNext(r, k))>>)
           d3 == IF ~free THEN <<>> ELSE IF first THEN move ELSE link
<1>1. new = n
  BY ListTail
<1>2. after = Grown(r, f, p)
  <2>1. after = AppendCluster(r, f, p).ram
    BY DEF AppendCluster
  <2> HIDE DEF after
  <2>2. QED BY <2>1, GrownRam
<1>3. AppendCluster(r, f, p).steps = (d1 \o d2 \o d3) \o <<Ram(after)>>
  BY DEF AppendCluster
<1> HIDE DEF after
<1>4. d1 \o d2 = JoinSteps(r, f, n)
  BY <1>1 DEF JoinSteps, IsFirst
<1>5. d3 = LinkSteps(r, f, n)
  <2>1. CASE ~IsFree(r, f)
    BY <2>1 DEF LinkSteps, IsFree
  <2>2. CASE IsFree(r, f) /\ IsFirst(r, f)
    <3>1. unhung = Unhung(r, f, p)
      BY <1>2 DEF Unhung
    <3> HIDE DEF unhung
    <3>2. SegEnd(unhung) = SegEnd(r) /\ unhung.ino[f].start = p[1] /\ unhung.ino[f].last = p[1]
      BY <2>2, <3>1, UnhungEnd
    <3>3. move = HookSteps(None, SegEnd(r), n, n)
      BY <1>1, <3>2 DEF MoveChain, HookSteps
    <3>4. d3 = move
      BY <2>2 DEF IsFree, IsFirst
    <3>5. LinkSteps(r, f, n) = HookSteps(None, SegEnd(r), n, n)
      BY <2>2 DEF LinkSteps
    <3>6. QED BY <3>3, <3>4, <3>5
  <2>3. CASE IsFree(r, f) /\ ~IsFirst(r, f)
    <3>1. d3 = link
      BY <2>3 DEF IsFree, IsFirst
    <3>2. QED BY <1>1, <2>3, <3>1 DEF LinkSteps
  <2>4. QED BY <2>1, <2>2, <2>3
<1> HIDE DEF d1, d2, d3
<1>6. QED BY <1>2, <1>3, <1>4, <1>5

JoinedTo(d, r, f, n, e) ==
  /\ Sane(e) /\ Goes(d, JoinSteps(r, f, n), e) /\ e.log = d.log /\ e.ram = d.ram /\ e.base = d.base
  /\ e.mask = d.mask /\ e.fixed = d.fixed /\ e.vol.live = d.vol.live /\ e.vol.start = d.vol.start
  /\ e.vol.fat = IF IsFirst(r, f) THEN Put(d.vol.fat, n, TAIL)
                 ELSE Put(Put(d.vol.fat, n, TAIL), r.ino[f].last, n)

LEMMA JoinGoes ==
  ASSUME NEW d, Sane(d), NEW r, NEW f, NEW n \in Cluster, <<"fat", n>> \in d.mask,
         ~IsFirst(r, f) => r.ino[f].last \in FatIndex /\ <<"fat", r.ino[f].last>> \in d.mask
  PROVE  \E e : JoinedTo(d, r, f, n, e)
<1> DEFINE a == Fat(n, TAIL)
           z == r.ino[f].last
           b == Fat(z, n)
<1>1. d.vol \in Volume /\ n \in FatIndex /\ n \in FatVal /\ TAIL \in FatVal
  BY DEF Sane, FatVal, FatIndex
<1>2. a \in Edits /\ a.op # "start" /\ Lets(d, a) /\ Suits(d, a)
  <2>1. a \in Edits /\ Lets(d, a) /\ Suits(d, a)
    BY <1>1, EditIntro, LetsBy, SuitsBy
  <2>2. QED BY <2>1 DEF Fat
<1>3. Apply(d.vol, a) \in Volume
  BY <1>1, <1>2, EditOne
<1> DEFINE w == Apply(d.vol, a)
<1>4. w.fat = Put(d.vol.fat, n, TAIL) /\ w.live = d.vol.live /\ w.start = d.vol.start
  BY <1>1, ApplyFat DEF Put
<1>5. CASE IsFirst(r, f)
  <2> DEFINE t == <<a>>
             e == Edited(d, t)
  <2>1. JoinSteps(r, f, n) = t
    BY <1>5 DEF JoinSteps, If
  <2>2. t \in Seq(Edits) /\ t # <<>> /\ Puts(d, t) /\ AllSuit(d, t)
    <3> HIDE DEF a
    <3>1. t \in Seq(Edits) /\ t # <<>>
      BY <1>2, OneType
    <3>2. (Puts(d, <<a>>) <=> Lets(d, a)) /\ (AllSuit(d, <<a>>) <=> Suits(d, a))
      BY PutsParts
    <3>3. QED BY <1>2, <3>1, <3>2
  <2>3. e.vol = w /\ e.fixed = d.fixed
    <3> HIDE DEF a
    <3>1. e.vol = w /\ e.fixed = d.fixed \cup (IF a.op = "start" THEN {a.at} ELSE {})
      BY <1>2, EditedOne
    <3>2. QED BY <1>2, <3>1
  <2>4. e.log = d.log /\ e.ram = d.ram /\ e.base = d.base /\ e.mask = d.mask
    BY EditedPoint
  <2> HIDE DEF t, w
  <2>5. Sane(e) /\ Goes(d, t, e)
    BY <2>2, GoesEdits
  <2> HIDE DEF e
  <2>6. JoinedTo(d, r, f, n, e)
    BY <1>4, <1>5, <2>1, <2>3, <2>4, <2>5 DEF JoinedTo
  <2>7. QED BY <2>6
<1>6. CASE ~IsFirst(r, f)
  <2> DEFINE t == <<a, b>>
             e == Edited(d, t)
  <2>1. JoinSteps(r, f, n) = t
    <3>1. JoinSteps(r, f, n) = <<a>> \o <<b>>
      BY <1>6 DEF JoinSteps, If
    <3>2. b \in Edits
      BY <1>1, <1>6, EditIntro
    <3> HIDE DEF a, b
    <3>3. <<a, b>> = <<a>> \o <<b>>
      BY <1>2, <3>2, TwoSplit
    <3>4. QED BY <3>1, <3>3
  <2>2. b \in Edits /\ b.op # "start" /\ Lets(d, b) /\ Suits(d, b)
    <3>1. b \in Edits /\ Lets(d, b) /\ Suits(d, b)
      BY <1>1, <1>6, EditIntro, LetsBy, SuitsBy
    <3>2. QED BY <3>1 DEF Fat
  <2>3. t \in Seq(Edits) /\ t # <<>> /\ Puts(d, t) /\ AllSuit(d, t)
    <3> HIDE DEF a, b
    <3>1. t \in Seq(Edits) /\ t # <<>>
      BY <1>2, <2>2, Three
    <3>2. /\ Puts(d, <<a, b>>) <=> Lets(d, a) /\ Lets(d, b)
          /\ AllSuit(d, <<a, b>>) <=> Suits(d, a) /\ Suits(d, b)
      BY PutsParts
    <3>3. QED BY <1>2, <2>2, <3>1, <3>2
  <2>4. e.vol = Apply(w, b) /\ e.fixed = d.fixed
    <3> HIDE DEF a, b
    <3>1. /\ e.vol = Apply(Apply(d.vol, a), b) /\ e.fixed = d.fixed \cup (IF a.op = "start" THEN {a.at} ELSE {})
      BY <1>2, <2>2, EditedTwo
    <3>2. QED BY <1>2, <3>1
  <2>5. e.log = d.log /\ e.ram = d.ram /\ e.base = d.base /\ e.mask = d.mask
    BY EditedPoint
  <2>6. Sane(e) /\ Goes(d, t, e)
    <3> HIDE DEF t
    <3>1. QED BY <2>3, GoesEdits
  <2> HIDE DEF e, t, w
  <2>7. /\ Apply(w, b).fat = Put(w.fat, z, n) /\ Apply(w, b).live = w.live /\ Apply(w, b).start = w.start
    BY <1>3, <1>6, ApplyFat DEF Put, w
  <2>8. JoinedTo(d, r, f, n, e)
    BY <1>4, <1>6, <2>1, <2>4, <2>5, <2>6, <2>7 DEF JoinedTo
  <2>9. QED BY <2>8
<1>7. QED BY <1>5, <1>6
LinkedTo(d, r, f, n, e) ==
  /\ Sane(e) /\ Goes(d, LinkSteps(r, f, n), e) /\ e.log # <<>> /\ e.ram = d.ram /\ e.base = d.base
  /\ d.mask \subseteq e.mask /\ e.fixed = d.fixed /\ e.vol.live = d.vol.live /\ e.vol.start = d.vol.start
  /\ e.vol.fat = IF ~IsFree(r, f) THEN d.vol.fat
                 ELSE IF IsFirst(r, f) THEN Put(d.vol.fat, SegEnd(r), n)
                 ELSE IF SegIndex(r, f) < Len(r.segs) THEN Put(d.vol.fat, n, SegNext(r, SegIndex(r, f)))
                 ELSE d.vol.fat

LEMMA LinkGoes ==
  ASSUME NEW d, Sane(d), d.log # <<>>, NEW r \in Rams, NEW f \in File, NEW n \in Cluster, <<"fat", n>> \in d.mask,
         IsFree(r, f) /\ IsFirst(r, f) => SegEnd(r) \in FatIndex /\ Lets(d, Fat(SegEnd(r), TAIL))
  PROVE  \E e : LinkedTo(d, r, f, n, e)
<1> DEFINE k == SegIndex(r, f)
           x == SegNext(r, k)
           a == Fat(n, x)
<1>1. d.vol \in Volume /\ n \in FatIndex
  BY DEF Sane, FatIndex
<1>2. ASSUME LinkSteps(r, f, n) = <<>>, ~(IsFree(r, f) /\ IsFirst(r, f)),
             ~(IsFree(r, f) /\ k < Len(r.segs))
      PROVE  LinkedTo(d, r, f, n, d)
  <2>1. Goes(d, LinkSteps(r, f, n), d)
    BY <1>2, GoesNone
  <2>2. QED BY <1>2, <2>1 DEF LinkedTo
<1>3. CASE ~IsFree(r, f)
  <2>1. LinkSteps(r, f, n) = <<>>
    BY <1>3 DEF LinkSteps
  <2>2. QED BY <1>2, <1>3, <2>1
<1>4. CASE IsFree(r, f) /\ IsFirst(r, f)
  <2>1. None # None => Lets(d, Start(None, n))
    OBVIOUS
  <2>2. None \in Slot \cup {None} /\ Lets(d, Fat(n, TAIL))
    BY <1>1, LetsBy
  <2>3. PICK e : HookedTo(d, None, SegEnd(r), n, n, e)
    BY <1>4, <2>1, <2>2, HookGoes
  <2>4. /\ Sane(e) /\ Goes(d, HookSteps(None, SegEnd(r), n, n), e) /\ e.ram = d.ram /\ e.base = d.base
        /\ e.log # <<>> /\ e.fixed = d.fixed
        /\ e.vol.fat = Put(d.vol.fat, SegEnd(r), n) /\ e.vol.live = d.vol.live /\ e.vol.start = d.vol.start
    BY <2>3 DEF HookedTo, Covered
  <2>5. d.mask \subseteq e.mask
    BY <2>3 DEF HookedTo
  <2>6. LinkSteps(r, f, n) = HookSteps(None, SegEnd(r), n, n)
    BY <1>4 DEF LinkSteps
  <2>7. LinkedTo(d, r, f, n, e)
    BY <1>4, <2>4, <2>5, <2>6 DEF LinkedTo
  <2>8. QED BY <2>7
<1>5. CASE IsFree(r, f) /\ ~IsFirst(r, f) /\ ~(k < Len(r.segs))
  <2>1. LinkSteps(r, f, n) = <<>>
    BY <1>5 DEF LinkSteps, If
  <2>2. QED BY <1>2, <1>5, <2>1
<1>6. CASE IsFree(r, f) /\ ~IsFirst(r, f) /\ k < Len(r.segs)
  <2> DEFINE t == <<a>>
             e == Edited(d, t)
  <2>1. LinkSteps(r, f, n) = t
    BY <1>6 DEF LinkSteps, If
  <2>2. x \in FatVal
    <3>1. k \in 0..Len(r.segs)
      <4>1. k \in 1..Len(r.segs) /\ Len(r.segs) \in Nat
        BY <1>6, SegPlace, SegFacts DEF IsFree, IsFirst
      <4>2. QED BY <4>1
    <3>2. Listed(r)
      BY RamsListed
    <3> HIDE DEF k
    <3>3. QED BY <3>1, <3>2, SegTypes DEF FatVal
  <2> HIDE DEF x
  <2>3. a \in Edits /\ Lets(d, a) /\ Suits(d, a)
    BY <1>1, <2>2, EditIntro, LetsBy, SuitsBy
  <2>4. a.op # "start"
    BY DEF Fat
  <2>5. t \in Seq(Edits) /\ t # <<>> /\ Puts(d, t) /\ AllSuit(d, t)
    <3> HIDE DEF a
    <3>1. t \in Seq(Edits) /\ t # <<>>
      BY <2>3, OneType
    <3>2. (Puts(d, <<a>>) <=> Lets(d, a)) /\ (AllSuit(d, <<a>>) <=> Suits(d, a))
      BY PutsParts
    <3>3. QED BY <2>3, <3>1, <3>2
  <2>6. e.vol = Apply(d.vol, a) /\ e.fixed = d.fixed
    <3> HIDE DEF a
    <3>1. e.vol = Apply(d.vol, a) /\ e.fixed = d.fixed \cup (IF a.op = "start" THEN {a.at} ELSE {})
      BY <2>3, EditedOne
    <3>2. QED BY <2>4, <3>1
  <2>7. e.log = d.log /\ e.ram = d.ram /\ e.base = d.base /\ e.mask = d.mask
    BY EditedPoint
  <2>8. Sane(e) /\ Goes(d, t, e)
    <3> HIDE DEF t
    <3>1. QED BY <2>5, GoesEdits
  <2>9. /\ Apply(d.vol, a).fat = Put(d.vol.fat, n, x) /\ Apply(d.vol, a).live = d.vol.live
        /\ Apply(d.vol, a).start = d.vol.start
    BY <1>1, ApplyFat DEF Put
  <2> HIDE DEF e, t, a
  <2>10. LinkedTo(d, r, f, n, e)
    BY <1>6, <2>1, <2>6, <2>7, <2>8, <2>9 DEF LinkedTo, x
  <2>11. QED BY <2>10
<1>7. QED BY <1>3, <1>4, <1>5, <1>6

\* A transaction is open and its records cover what the append changes.
Ready(d, K, f, p, r) ==
  /\ Sane(d) /\ d.log # <<>> /\ Shape(d.vol, d.ram, K) /\ r.ino = d.ram.ino /\ r.segs = d.ram.segs
  /\ r.ino[f].st # "none"
  /\ \A x \in ToSet(p) : d.vol.fat[x] = FREE /\ <<"fat", x>> \in d.mask
  /\ ~IsFirst(r, f) => <<"fat", r.ino[f].last>> \in d.mask
  /\ IsFirst(r, f) /\ ~IsFree(r, f) => <<"start", r.ino[f].slot>> \in d.mask
  /\ IsFirst(r, f) /\ IsFree(r, f) => Lets(d, Fat(SegEnd(r), TAIL))
AppendedTo(d, K, f, p, r, e) ==
  /\ Sane(e) /\ Goes(d, AppendCluster(r, f, p).steps, e) /\ e.ram = Grown(r, f, p) /\ e.log # <<>>
  /\ d.mask \subseteq e.mask /\ Shape(e.vol, e.ram, AppendedChains(K, f, p[1]))
  /\ \A g \in File, s \in Slot : g # f /\ Owns(r.ino, g, s) /\ s \in d.fixed => s \in e.fixed
  /\ \A j \in 1..Len(p) : j # 1 => e.vol.fat[p[j]] = FREE

LEMMA AppendGoes ==
  ASSUME NEW d, NEW K, NEW f \in File, NEW p \in Seq(Cluster), p # <<>>, IsInjective(p),
         NEW r \in Rams, Ready(d, K, f, p, r)
  PROVE  \E e : AppendedTo(d, K, f, p, r, e)
<1> DEFINE n == p[1]
           q == Grown(r, f, p)
           z == r.ino[f].last
<1>1. /\ Sane(d) /\ d.log # <<>> /\ Shape(d.vol, d.ram, K) /\ r.ino = d.ram.ino /\ r.segs = d.ram.segs
      /\ r.ino[f].st # "none"
      /\ \A x \in ToSet(p) : d.vol.fat[x] = FREE /\ <<"fat", x>> \in d.mask
      /\ ~IsFirst(r, f) => <<"fat", z>> \in d.mask
      /\ IsFirst(r, f) /\ ~IsFree(r, f) => <<"start", r.ino[f].slot>> \in d.mask
      /\ IsFirst(r, f) /\ IsFree(r, f) => Lets(d, Fat(SegEnd(r), TAIL))
  BY DEF Ready
<1>2. d.vol \in Volume /\ d.ram \in Rams /\ d.fixed \subseteq Slot /\ d.vol.fat \in FatMap
  BY <1>1, VolumeFields DEF Sane
<1>3. Shape(d.vol, r, K)
  BY <1>1, ShapeSame
<1>4. 1 \in 1..Len(p) /\ n \in Cluster /\ n \in FatIndex /\ \A i \in 1..Len(p) : p[i] \in Cluster /\ p[i] \in ToSet(p)
  <2>1. 1 \in 1..Len(p) /\ \A i \in 1..Len(p) : p[i] \in Cluster
    OBVIOUS
  <2>2. QED BY <2>1, SetIs DEF FatIndex
<1>5. d.vol.fat[n] = FREE /\ <<"fat", n>> \in d.mask
  BY <1>1, <1>4
<1>6. Apart(d.vol, r, K, f, n)
  <2> HIDE DEF n
  <2>1. QED BY <1>3, <1>4, <1>5, ApartIs
<1>7. /\ \A g \in File : K[g] \in Seq(Cluster) /\ ToSet(K[g]) \subseteq Cluster /\ n \notin ToSet(K[g])
      /\ n # SegEnd(r) /\ SegEnd(r) \in FatIndex /\ d.vol.fat[SegEnd(r)] = TAIL
      /\ ~IsFirst(r, f) => z \in ToSet(K[f]) /\ z # n
  BY <1>6 DEF Apart
<1>8. ~IsFirst(r, f) => z \in FatIndex /\ d.vol.fat[z] # FREE
  <2>1. SUFFICES ASSUME ~IsFirst(r, f) PROVE z \in FatIndex /\ d.vol.fat[z] # FREE
    OBVIOUS
  <2>2. z \in ToSet(K[f]) /\ z \in Cluster
    BY <1>7, <2>1
  <2>3. Used(d.vol, r, K, f)
    BY <1>3, ShapeUsed
  <2>4. QED BY <2>2, <2>3 DEF Used, FatIndex
<1> HIDE DEF n, z
<1>9. PICK e1 : JoinedTo(d, r, f, n, e1)
  BY <1>1, <1>4, <1>5, <1>8, JoinGoes DEF z
<1>10. /\ Sane(e1) /\ Goes(d, JoinSteps(r, f, n), e1) /\ e1.log = d.log /\ e1.ram = d.ram /\ e1.base = d.base
       /\ e1.mask = d.mask /\ e1.fixed = d.fixed /\ e1.vol.live = d.vol.live /\ e1.vol.start = d.vol.start
       /\ e1.vol.fat = IF IsFirst(r, f) THEN Put(d.vol.fat, n, TAIL) ELSE Put(Put(d.vol.fat, n, TAIL), z, n)
  BY <1>9 DEF JoinedTo, z
<1>11. IsFree(r, f) /\ IsFirst(r, f) => SegEnd(r) \in FatIndex /\ Lets(e1, Fat(SegEnd(r), TAIL))
  <2>1. SegEnd(r) \in FatIndex
    BY <1>7
  <2>2. Lets(d, Fat(SegEnd(r), TAIL)) <=> <<"fat", SegEnd(r)>> \in d.mask \/ TAIL = d.base.fat[SegEnd(r)]
    BY <2>1, LetsBy
  <2>3. Lets(e1, Fat(SegEnd(r), TAIL)) <=> <<"fat", SegEnd(r)>> \in e1.mask \/ TAIL = e1.base.fat[SegEnd(r)]
    BY <2>1, LetsBy
  <2>4. QED BY <1>1, <1>10, <2>1, <2>2, <2>3
<1>12. PICK e2 : LinkedTo(e1, r, f, n, e2)
  BY <1>1, <1>4, <1>5, <1>10, <1>11, LinkGoes
<1>13. /\ Sane(e2) /\ Goes(e1, LinkSteps(r, f, n), e2) /\ e2.log # <<>> /\ e2.ram = d.ram /\ e2.base = d.base
       /\ d.mask \subseteq e2.mask /\ e2.fixed = d.fixed /\ e2.vol.live = d.vol.live /\ e2.vol.start = d.vol.start
       /\ e2.vol.fat = IF ~IsFree(r, f) THEN e1.vol.fat
                       ELSE IF IsFirst(r, f) THEN Put(e1.vol.fat, SegEnd(r), n)
                       ELSE IF SegIndex(r, f) < Len(r.segs) THEN Put(e1.vol.fat, n, SegNext(r, SegIndex(r, f)))
                       ELSE e1.vol.fat
  BY <1>10, <1>12 DEF LinkedTo
<1>14. e2.vol.fat = AppendedFat(d.vol.fat, r, f, n)
  BY <1>10, <1>13 DEF AppendedFat, IsFree, IsFirst, z
<1>15. AppendsTo(d.vol.fat, r, f, n, e2.vol.fat)
  BY <1>2, <1>4, <1>7, <1>8, <1>14, AppendedIs DEF z
<1>16. GrownBy(r, f, n, q)
  BY GrownFacts DEF n
<1> HIDE DEF q
<1>17. Shape(e2.vol, q, AppendedChains(K, f, n))
  BY <1>1, <1>3, <1>4, <1>5, <1>13, <1>15, <1>16, AppendShape
<1> DEFINE x == IF IsFirst(r, f) /\ ~IsFree(r, f) THEN d.fixed \ {r.ino[f].slot} ELSE d.fixed
           e == Turned(e2, q, x)
<1>18. /\ q \in Rams /\ \A g \in File : g # f => q.ino[g] = r.ino[g]
       /\ q.ino[f].st = r.ino[f].st /\ q.ino[f].slot = r.ino[f].slot
       /\ q.ino[f].start = (IF IsFirst(r, f) THEN n ELSE r.ino[f].start)
  BY <1>16 DEF GrownBy, IsFirst
<1>19. x \subseteq e2.fixed /\ x \subseteq Slot
  BY <1>2, <1>13
<1>20. \A s \in Slot : e2.base.live[s] /\ <<"start", s>> \notin e2.mask => s \in x
  <2>1. \A s \in Slot : e2.base.live[s] /\ <<"start", s>> \notin e2.mask => s \in e2.fixed
    BY <1>13 DEF Sane
  <2>2. QED BY <1>1, <1>13, <2>1
<1>21. \A g \in File, s \in x : Owns(q.ino, g, s) => e2.vol.start[s] = q.ino[g].start
  <2>1. SUFFICES ASSUME NEW g \in File, NEW s \in x, Owns(q.ino, g, s)
                 PROVE  e2.vol.start[s] = q.ino[g].start
    OBVIOUS
  <2>2. Owns(d.ram.ino, g, s) /\ s \in d.fixed
    BY <1>1, <1>18, <2>1 DEF Owns
  <2>3. e2.vol.start[s] = r.ino[g].start
    BY <1>1, <1>13, <2>2 DEF Sane
  <2>4. CASE g # f
    BY <1>18, <2>3, <2>4
  <2>5. CASE g = f
    <3>1. ~IsFree(r, f) /\ s = r.ino[f].slot
      BY <1>18, <2>1, <2>5 DEF Owns, IsFree
    <3>2. ~IsFirst(r, f)
      BY <2>1, <3>1
    <3>3. QED BY <1>18, <2>3, <2>5, <3>2
  <2>6. QED BY <2>4, <2>5
<1> HIDE DEF x
<1>22. Sane(e) /\ Goes(e2, <<Ram(q)>>, e)
  BY <1>13, <1>18, <1>19, <1>20, <1>21, GoesRam
<1>23. e.vol = e2.vol /\ e.log = e2.log /\ e.ram = q /\ e.mask = e2.mask /\ e.fixed = x
  BY DEF Turned, Point
<1> HIDE DEF e
<1>24. Goes(d, AppendCluster(r, f, p).steps, e)
  <2>1. AppendCluster(r, f, p).steps = (JoinSteps(r, f, n) \o LinkSteps(r, f, n)) \o <<Ram(q)>>
    BY AppendIs DEF n, q
  <2>2. Goes(d, JoinSteps(r, f, n) \o LinkSteps(r, f, n), e2)
    BY <1>10, <1>13, GoesConcat
  <2>3. QED BY <1>22, <2>1, <2>2, GoesConcat
<1>25. \A g \in File, s \in Slot : g # f /\ Owns(r.ino, g, s) /\ s \in d.fixed => s \in e.fixed
  <2>1. SUFFICES ASSUME NEW g \in File, NEW s \in Slot, g # f, Owns(r.ino, g, s), s \in d.fixed,
                        IsFirst(r, f), ~IsFree(r, f)
                 PROVE  s # r.ino[f].slot
    BY <1>23 DEF x
  <2>2. r.ino[f].st = "alloc"
    <3>1. r.ino[f] \in Inodes
      BY RamFields
    <3>2. QED BY <1>1, <2>1, <3>1 DEF Inodes, IsFree
  <2>3. Distinct(r.ino)
    BY <1>3 DEF Shape
  <2>4. QED BY <2>1, <2>2, <2>3 DEF Owns, Distinct
<1>26. \A j \in 1..Len(p) : j # 1 => e.vol.fat[p[j]] = FREE
  <2>1. SUFFICES ASSUME NEW j \in 1..Len(p), j # 1 PROVE e2.vol.fat[p[j]] = FREE
    BY <1>23
  <2>2. p[j] # n
    BY <1>4, <2>1 DEF IsInjective, n
  <2>3. p[j] \in FatIndex /\ d.vol.fat[p[j]] = FREE
    BY <1>1, <1>4 DEF FatIndex
  <2>4. ~IsFirst(r, f) => p[j] # z
    BY <1>8, <2>3
  <2>5. p[j] # SegEnd(r)
    BY <1>7, <2>3, ConstantFacts
  <2>6. QED BY <1>15, <2>2, <2>3, <2>4, <2>5 DEF AppendsTo, z
<1>27. AppendedTo(d, K, f, p, r, e)
  BY <1>13, <1>17, <1>22, <1>23, <1>24, <1>25, <1>26 DEF AppendedTo, n, q
<1>28. QED BY <1>27
\* No record is in the log, and every inode's entry is up to date.
Settled(d, K) ==
  /\ Sane(d) /\ Shape(d.vol, d.ram, K) /\ d.log = <<>> /\ d.mask = {}
  /\ \A f \in File, s \in Slot : Owns(d.ram.ino, f, s) => s \in d.fixed
SettledAs(d, K) ==
  /\ d.vol \in Volume /\ d.base \in Volume /\ d.ram \in Rams
  /\ \A x \in FatIndex : d.base.fat[x] = d.vol.fat[x]
  /\ \A f \in File, s \in Slot : Owns(d.ram.ino, f, s) => d.base.start[s] = d.ram.ino[f].start

LEMMA SettledBase ==
  ASSUME NEW d, NEW K, Settled(d, K)
  PROVE  SettledAs(d, K)
<1>1. /\ Sane(d) /\ Shape(d.vol, d.ram, K) /\ d.mask = {}
      /\ \A f \in File, s \in Slot : Owns(d.ram.ino, f, s) => s \in d.fixed
  BY DEF Settled
<1>2. d.vol \in Volume /\ d.base \in Volume /\ d.ram \in Rams /\ Agree(d.vol, d.base, {})
  BY <1>1 DEF Sane
<1>3. /\ \A c \in FatIndex : d.vol.fat[c] = d.base.fat[c]
      /\ \A s \in Slot : d.vol.live[s] = d.base.live[s]
      /\ \A s \in Slot : d.base.live[s] => d.vol.start[s] = d.base.start[s]
  BY <1>2, AgreeIs
<1>4. ASSUME NEW f \in File, NEW s \in Slot, Owns(d.ram.ino, f, s)
      PROVE  d.base.start[s] = d.ram.ino[f].start
  <2>1. d.vol.live[s] /\ d.base.live[s]
    BY <1>1, <1>3, <1>4 DEF Shape
  <2>2. d.vol.start[s] = d.ram.ino[f].start
    BY <1>1, <1>4 DEF Sane
  <2>3. QED BY <1>3, <2>1, <2>2
<1>5. QED BY <1>2, <1>3, <1>4 DEF SettledAs

\* The record of a pre-allocation p behind the last cluster z.
AllocSpots(free, slot, z, p) ==
  (IF z # TAIL THEN {<<"fat", z>>} ELSE IF free THEN {} ELSE {<<"start", slot>>}) \cup Freed(ToSet(p))
Allocated(d, r, f, p, e) ==
  /\ Sane(e) /\ Goes(d, <<PreAllocRec(r, f, p)>>, e) /\ e.vol = d.vol /\ e.ram = d.ram /\ e.base = d.base
  /\ e.log # <<>> /\ e.fixed = d.fixed
  /\ AllocSpots(IsFree(r, f), r.ino[f].slot, r.ino[f].last, p) \subseteq e.mask

LEMMA AllocGoes ==
  ASSUME NEW d, NEW K, Settled(d, K), cache.fat = d.vol.fat, NEW f \in File, NEW r \in Rams, r.ino = d.ram.ino,
         r.ino[f].st # "none", NEW p \in Seq(Cluster), \A x \in ToSet(p) : d.vol.fat[x] = FREE
  PROVE  \E e : Allocated(d, r, f, p, e)
<1> DEFINE i == r.ino[f]
           free == i.st = "free"
           s == IF free THEN None ELSE i.slot
           z == i.last
           x == IF free /\ z # TAIL THEN cache.fat[z] ELSE TAIL
           rec == AllocRec(s, z, x, p)
           u == Undo(rec)
           e == Logged(d, rec)
<1>1. /\ Sane(d) /\ Shape(d.vol, d.ram, K) /\ d.mask = {} /\ d.log = <<>>
      /\ d.vol \in Volume /\ d.base \in Volume /\ d.ram \in Rams
      /\ \A c \in FatIndex : d.base.fat[c] = d.vol.fat[c]
      /\ \A g \in File, v \in Slot : Owns(d.ram.ino, g, v) => d.base.start[v] = d.ram.ino[g].start
  <2>1. SettledAs(d, K)
    BY SettledBase
  <2>2. QED BY <2>1 DEF Settled, SettledAs
<1>2. /\ i \in Inodes /\ InodeOK(i) /\ d.vol.fat \in FatMap
      /\ i.st \in {"alloc", "free"} /\ z \in Cluster \cup {TAIL} /\ (z = TAIL <=> i.start = TAIL)
      /\ ~free => i.slot \in Slot /\ Owns(d.ram.ino, f, i.slot)
  <2>1. i \in Inodes /\ InodeOK(i) /\ d.vol.fat \in FatMap
    BY <1>1, RamFields, VolumeFields
  <2>2. i.st \in {"alloc", "free"} /\ z \in Cluster \cup {TAIL}
    BY <2>1 DEF Inodes
  <2>3. (z = TAIL <=> i.start = TAIL) /\ (i.st = "alloc" => i.slot \in Slot)
    BY <2>1 DEF InodeOK
  <2>4. QED BY <2>1, <2>2, <2>3 DEF Owns
<1>3. s \in Slot \cup {None} /\ x \in FatVal /\ (z # TAIL => x = d.base.fat[z])
  <2>1. s \in Slot \cup {None}
    BY <1>2
  <2>2. CASE z = TAIL
    BY <2>1, <2>2 DEF FatVal
  <2>3. CASE z # TAIL
    <3>1. z \in FatIndex /\ z \in Cluster
      BY <1>2, <2>3 DEF FatIndex
    <3>2. d.vol.fat[z] \in FatVal
      BY <1>2, <3>1 DEF FatMap
    <3>3. CASE free
      BY <1>1, <2>1, <2>3, <3>1, <3>2, <3>3
    <3>4. CASE ~free
      <4>1. Trail(d.vol.fat, K[f], TAIL) /\ K[f] \in Seq(Cluster) /\ i.start = HeadOr(K[f], TAIL)
            /\ (K[f] # <<>> => z = K[f][Len(K[f])])
        BY <1>1, <1>2, <3>4 DEF Shape
      <4>2. K[f] # <<>>
        BY <1>2, <2>3, <4>1 DEF HeadOr
      <4>3. d.vol.fat[z] = TAIL
        BY <4>1, <4>2 DEF Trail
      <4>4. QED BY <1>1, <2>1, <2>3, <3>1, <3>4, <4>3 DEF FatVal
    <3>5. QED BY <3>3, <3>4
  <2>4. QED BY <2>2, <2>3
<1>4. ~free => d.base.start[i.slot] = i.start
  BY <1>1, <1>2
<1>5. PreAllocRec(r, f, p) = Rec(rec)
  BY DEF PreAllocRec
<1>6. ~free => s = i.slot
  OBVIOUS
<1>7. free => s = None
  OBVIOUS
<1> HIDE DEF s, x, i, z
<1>8. rec \in RecSet /\ rec.kind = "alloc"
  BY <1>2, <1>3, RecTypes
<1>9. Puts(d, Frees(p)) /\ SpotsOf(Frees(p)) = Freed(ToSet(p)) /\ Frees(p) \in Seq(Edits)
  <2>1. \A c \in ToSet(p) : <<"fat", c>> \in d.mask \/ d.base.fat[c] = FREE
    <3>1. ToSet(p) \subseteq FatIndex
      BY SetIs DEF FatIndex
    <3>2. QED BY <1>1, <3>1
  <2>2. Puts(d, Frees(p))
    BY <2>1, PutsFrees
  <2>3. Frees(p) \in Seq(FreeEdits) /\ SpotsOf(Frees(p)) = {<<"fat", c>> : c \in ToSet(p)}
    BY FreesAre
  <2>4. Frees(p) \in Seq(Edits)
    BY <1>1, <2>3, FreeAll
  <2>5. QED BY <2>2, <2>3, <2>4 DEF Freed
<1>10. Puts(d, u) /\ SpotsOf(u) = AllocSpots(free, i.slot, z, p)
  <2> DEFINE g == Frees(p)
  <2>1. CASE z # TAIL
    <3> DEFINE a == Fat(z, x)
    <3>1. u = <<a>> \o g
      BY <2>1, UndoIs
    <3>2. z \in FatIndex /\ a \in Edits /\ Spot(a) = <<"fat", z>> /\ Lets(d, a)
      <4>1. z \in FatIndex
        BY <1>2, <2>1 DEF FatIndex
      <4>2. QED BY <1>3, <2>1, <4>1, EditIntro, SpotIntro, LetsBy
    <3> HIDE DEF a, g
    <3>3. <<a>> \in Seq(Edits) /\ SpotsOf(<<a>>) = {<<"fat", z>>}
      BY <3>2, OneType, SpotsOne
    <3>4. Puts(d, <<a>>)
      BY <3>2, PutsParts
    <3>5. SpotsOf(<<a>> \o g) = SpotsOf(<<a>>) \cup SpotsOf(g)
      BY <1>9, <3>3, SpotsConcat DEF g
    <3>6. Puts(d, <<a>> \o g)
      BY <1>9, <3>3, <3>4, PutsConcat DEF g
    <3>7. QED BY <1>9, <2>1, <3>1, <3>3, <3>5, <3>6 DEF AllocSpots, g
  <2>2. CASE z = TAIL /\ free
    <3>1. u = <<>> \o g
      BY <1>7, <2>2, UndoIs
    <3> HIDE DEF g
    <3>2. u = g
      BY <1>9, <3>1 DEF g
    <3>3. QED BY <1>9, <2>2, <3>2 DEF AllocSpots, g
  <2>3. CASE z = TAIL /\ ~free
    <3> DEFINE a == Start(s, TAIL)
    <3>1. s \in Slot /\ s = i.slot
      BY <1>2, <1>6, <2>3 DEF i
    <3>2. u = <<a>> \o g
      BY <2>3, <3>1, UndoIs
    <3>3. a \in Edits /\ Spot(a) = <<"start", s>> /\ Lets(d, a)
      BY <1>2, <1>4, <2>3, <3>1, EditIntro, SpotIntro, LetsBy
    <3> HIDE DEF a, g
    <3>4. <<a>> \in Seq(Edits) /\ SpotsOf(<<a>>) = {<<"start", s>>}
      BY <3>3, OneType, SpotsOne
    <3>5. Puts(d, <<a>>)
      BY <3>3, PutsParts
    <3>6. SpotsOf(<<a>> \o g) = SpotsOf(<<a>>) \cup SpotsOf(g)
      BY <1>9, <3>4, SpotsConcat DEF g
    <3>7. Puts(d, <<a>> \o g)
      BY <1>9, <3>4, <3>5, PutsConcat DEF g
    <3>8. QED BY <1>9, <2>3, <3>1, <3>2, <3>4, <3>6, <3>7 DEF AllocSpots, g
  <2>4. QED BY <2>1, <2>2, <2>3
<1> HIDE DEF rec, u, e
<1>11. Sane(e) /\ Goes(d, <<Rec(rec)>>, e)
  <2>1. e = Logged(d, rec) /\ Puts(d, Undo(rec)) /\ rec.kind \notin {"dealloc", "mrc"}
    BY <1>8, <1>10 DEF e, u
  <2>2. QED BY <1>1, <1>8, <2>1, GoesLone
<1>12. /\ e.vol = d.vol /\ e.log = Append(d.log, rec) /\ e.ram = d.ram /\ e.base = d.base
       /\ e.mask = d.mask \cup SpotsOf(u) /\ e.fixed = d.fixed
  BY LoggedFacts DEF e, u
<1>13. e.log # <<>>
  <2>1. d.log \in Seq(RecSet)
    BY <1>1 DEF Sane
  <2>2. QED BY <1>12, <2>1
<1>14. Allocated(d, r, f, p, e)
  BY <1>5, <1>10, <1>11, <1>12, <1>13 DEF Allocated, IsFree, i, z
<1>15. QED BY <1>14

\* Then the inode may get the first cluster of p.
LEMMA AllocReady ==
  ASSUME NEW d, NEW K, Settled(d, K), NEW f \in File, NEW r \in Rams, r.ino = d.ram.ino, r.segs = d.ram.segs,
         r.ino[f].st # "none", NEW p \in Seq(Cluster), \A x \in ToSet(p) : d.vol.fat[x] = FREE,
         NEW e, Allocated(d, r, f, p, e), NEW o, o.ino = r.ino, o.segs = r.segs
  PROVE  Ready(e, K, f, p, o)
<1>1. /\ Sane(d) /\ Shape(d.vol, d.ram, K) /\ d.ram \in Rams
      /\ \A c \in FatIndex : d.base.fat[c] = d.vol.fat[c]
  <2>1. SettledAs(d, K)
    BY SettledBase
  <2>2. QED BY <2>1 DEF Settled, SettledAs
<1>2. /\ Sane(e) /\ e.vol = d.vol /\ e.ram = d.ram /\ e.base = d.base /\ e.log # <<>>
      /\ AllocSpots(IsFree(r, f), r.ino[f].slot, r.ino[f].last, p) \subseteq e.mask
  BY DEF Allocated
<1>3. r.ino[f].last = TAIL <=> IsFirst(r, f)
  <2>1. InodeOK(r.ino[f])
    BY RamFields
  <2>2. QED BY <2>1 DEF InodeOK, IsFirst
<1>4. /\ \A x \in ToSet(p) : <<"fat", x>> \in e.mask
      /\ ~IsFirst(r, f) => <<"fat", r.ino[f].last>> \in e.mask
      /\ IsFirst(r, f) /\ ~IsFree(r, f) => <<"start", r.ino[f].slot>> \in e.mask
  BY <1>2, <1>3 DEF AllocSpots, Freed
<1>5. Lets(e, Fat(SegEnd(r), TAIL))
  <2>1. Shape(d.vol, r, K)
    BY <1>1, ShapeSame
  <2>2. EndBy(d.vol, r, K)
    BY <2>1, SegEndFacts
  <2>3. SegEnd(r) \in FatIndex /\ e.base.fat[SegEnd(r)] = TAIL
    BY <1>1, <1>2, <2>2 DEF EndBy
  <2>4. QED BY <2>3, LetsBy
<1>6. SegEnd(o) = SegEnd(r) /\ (IsFirst(o, f) <=> IsFirst(r, f)) /\ (IsFree(o, f) <=> IsFree(r, f))
  BY DEF SegEnd, SegLast, IsFirst, IsFree
<1>7. QED BY <1>1, <1>2, <1>4, <1>5, <1>6 DEF Ready
\* A WRITE transaction rests where it has appended a cluster.
LEMMA AppendRest ==
  ASSUME NEW d, NEW K, NEW f \in File, NEW p \in Seq(Cluster), p # <<>>, IsInjective(p), NEW o \in Rams,
         Ready(d, K, f, p, o), o.writer = f,
         \A g \in File, s \in Slot : Owns(o.ino, g, s) /\ g # f => s \in d.fixed,
         NEW e, AppendedTo(d, K, f, p, o, e)
  PROVE  Sane(e) /\ Rest(e, AppendedChains(K, f, p[1]))
<1> DEFINE q == Grown(o, f, p)
<1>1. /\ Sane(e) /\ e.ram = q /\ e.log # <<>> /\ d.mask \subseteq e.mask
      /\ Shape(e.vol, e.ram, AppendedChains(K, f, p[1]))
      /\ \A g \in File, s \in Slot : g # f /\ Owns(o.ino, g, s) /\ s \in d.fixed => s \in e.fixed
      /\ \A j \in 1..Len(p) : j # 1 => e.vol.fat[p[j]] = FREE
  BY DEF AppendedTo
<1>2. GrownBy(o, f, p[1], q) /\ q.writer = f /\ q.pre = Tail(p)
  <2>1. GrownBy(o, f, p[1], q) /\ q.writer = o.writer /\ q.pre = Tail(p)
    BY GrownFacts
  <2>2. QED BY <2>1
<1> HIDE DEF q
<1>3. (\A g \in File : g # f => q.ino[g] = o.ino[g]) /\ q.ino[f].last = p[1]
  BY <1>2 DEF GrownBy
<1>4. p[1] \in Cluster /\ f # None
  <2>1. p[1] \in Cluster
    OBVIOUS
  <2>2. QED BY <2>1, ConstantFacts
<1>5. \A x \in ToSet(p) : <<"fat", x>> \in e.mask
  BY <1>1 DEF Ready
<1>6. ASSUME NEW x \in ToSet(q.pre) PROVE e.vol.fat[x] = FREE /\ <<"fat", x>> \in e.mask
  <2>1. Tail(p) \in Seq(Cluster)
    OBVIOUS
  <2>2. PICK i \in 1..Len(Tail(p)) : Tail(p)[i] = x
    BY <1>2, <1>6, <2>1, SetIs
  <2>3. i + 1 \in 1..Len(p) /\ p[i + 1] = x /\ i + 1 # 1
    BY <2>1, <2>2
  <2>4. x \in ToSet(p)
    BY <2>3, SetIs
  <2>5. e.vol.fat[p[i + 1]] = FREE
    BY <1>1, <2>3
  <2>6. QED BY <1>5, <2>3, <2>4, <2>5
<1>7. p[1] \in ToSet(p)
  <2>1. 1 \in 1..Len(p)
    OBVIOUS
  <2>2. QED BY <2>1, SetIs
<1>8. \A g \in File, s \in Slot : Owns(q.ino, g, s) /\ g # f => s \in e.fixed
  BY <1>1, <1>3 DEF Owns
<1>9. p[1] # TAIL /\ <<"fat", p[1]>> \in e.mask
  BY <1>4, <1>5, <1>7, ConstantFacts
<1>10. Rest(e, AppendedChains(K, f, p[1]))
  BY <1>1, <1>2, <1>3, <1>4, <1>6, <1>8, <1>9 DEF Rest
<1>11. QED BY <1>1, <1>10

SetWriter(r, f) == [r EXCEPT !.writer = f]

LEMMA WriterSet ==
  ASSUME NEW r \in Rams, NEW f \in File, NEW o, o = SetWriter(r, f)
  PROVE  /\ o \in Rams /\ o.ino = r.ino /\ o.segs = r.segs /\ o.writer = f
         /\ r.writer = f => o = r
<1> DEFINE a == r.ino
           b == r.segs
           c == r.writer
           p == r.pre
<1>1. /\ a \in [File -> Inodes] /\ b \in Seq(File) /\ p \in Seq(Cluster)
      /\ \A g \in File : InodeOK(a[g])
      /\ IsInjective(b) /\ ToSet(b) = Hung(a) /\ IsInjective(p)
      /\ r = [ino |-> a, segs |-> b, writer |-> c, pre |-> p]
  BY RamFields
<1> HIDE DEF a, b, c, p
<1>2. o = [ino |-> a, segs |-> b, writer |-> f, pre |-> p]
  BY <1>1 DEF SetWriter
<1>3. o \in Rams
  BY <1>1, <1>2, RamIntro
<1>4. /\ o.ino = r.ino /\ o.segs = r.segs /\ o.writer = f
  BY <1>2 DEF a, b
<1>5. r.writer = f => o = r
  BY <1>1, <1>2 DEF c
<1>6. QED BY <1>3, <1>4, <1>5

LEMMA FreshSettled ==
  ASSUME NEW d, NEW K, Fresh(d, K)
  PROVE  Settled(d, K)
<1>1. d.log = <<>> /\ d.mask = {} /\ Shape(d.vol, d.ram, K) /\ Sane(d)
      /\ \A f \in File, s \in Slot : Owns(d.ram.ino, f, s) => s \in d.fixed
  BY FreshBase DEF Fresh
<1>2. QED BY <1>1 DEF Settled

LEMMA MarkedSettled ==
  ASSUME NEW c, NEW K, Shape(c.vol, c.ram, K), NEW q, q = c.ram, NEW e, Sane(e), Marked(c, q, e)
  PROVE  Settled(e, K)
<1>1. /\ e.vol.fat = c.vol.fat /\ e.vol.live = c.vol.live /\ e.log = <<>> /\ e.ram = q /\ e.mask = {}
      /\ \A f \in File, s \in Slot : Owns(q.ino, f, s) => s \in e.fixed
  BY DEF Marked
<1>2. Shape(e.vol, e.ram, K)
  BY <1>1, ShapeSame
<1>3. QED BY <1>1, <1>2 DEF Settled

\* rfs_truncate forward.
LEMMA ExtendReaches ==
  ASSUME NEW c0, NEW K, Stands(c0, K), NEW f \in File, ram.ino[f].st = "alloc",
         NEW p \in Seq(Cluster), p # <<>>, IsInjective(p), \A x \in ToSet(p) : cache.fat[x] = FREE
  PROVE  Done(c0, ExtendSteps(f, p))
<1>1. PICK d : /\ Fresh(d, K) /\ Goes(c0, CommitDeferred(ram), d) /\ d.ram = Released(ram)
               /\ d.vol.fat = cache.fat /\ d.vol.live = cache.live
               /\ ram \in Rams /\ Released(ram) \in Rams
               /\ Released(ram).ino = ram.ino /\ Released(ram).segs = ram.segs
  BY StandsFresh
<1> DEFINE r == Released(ram)
           q == Grown(r, f, p)
           L == AppendedChains(K, f, p[1])
<1> HIDE DEF r
<1>2. r \in Rams /\ d.ram = r /\ r.ino = ram.ino /\ r.ino[f].st = "alloc" /\ Settled(d, K)
      /\ \A x \in ToSet(p) : d.vol.fat[x] = FREE
  BY <1>1, FreshSettled DEF r
<1>3. \A g \in File, s \in Slot : Owns(r.ino, g, s) => s \in d.fixed
  BY <1>2 DEF Settled
<1>4. PICK e1 : Allocated(d, r, f, p, e1)
  BY <1>1, <1>2, AllocGoes
<1>5. Goes(d, <<PreAllocRec(r, f, p)>>, e1) /\ e1.fixed = d.fixed
  BY <1>4 DEF Allocated
<1>6. Ready(e1, K, f, p, r)
  BY <1>2, <1>4, AllocReady
<1>7. PICK e2 : AppendedTo(e1, K, f, p, r, e2)
  BY <1>2, <1>6, AppendGoes
<1>8. /\ Sane(e2) /\ Goes(e1, AppendCluster(r, f, p).steps, e2) /\ e2.ram = q /\ e2.log # <<>>
      /\ Shape(e2.vol, e2.ram, L)
      /\ \A g \in File, s \in Slot : g # f /\ Owns(r.ino, g, s) /\ s \in e1.fixed => s \in e2.fixed
  BY <1>7 DEF AppendedTo
<1>9. AppendCluster(r, f, p).ram = q
  BY <1>2, GrownRam
<1>10. \A g \in File : g # f => q.ino[g] = r.ino[g]
  <2>1. GrownBy(r, f, p[1], q)
    BY <1>2, GrownFacts
  <2>2. QED BY <2>1 DEF GrownBy
<1> HIDE DEF q, L
<1>11. \A g \in File, s \in Slot : Owns(e2.ram.ino, g, s) /\ g # f => s \in e2.fixed
  BY <1>3, <1>5, <1>8, <1>10 DEF Owns
<1>12. PICK e3 : Fresh(e3, L) /\ Goes(e2, LogEnd(q, f), e3)
  BY <1>8, <1>11, GoesLogEnd
<1>13. ExtendSteps(f, p)
        = ((CommitDeferred(ram) \o <<PreAllocRec(r, f, p)>>) \o AppendCluster(r, f, p).steps) \o LogEnd(q, f)
  BY <1>9 DEF ExtendSteps, r
<1>14. Goes(c0, CommitDeferred(ram) \o <<PreAllocRec(r, f, p)>>, e1)
  BY <1>1, <1>5, GoesConcat
<1>15. Goes(c0, (CommitDeferred(ram) \o <<PreAllocRec(r, f, p)>>) \o AppendCluster(r, f, p).steps, e2)
  BY <1>8, <1>14, GoesConcat
<1>16. Goes(c0, ExtendSteps(f, p), e3)
  BY <1>12, <1>13, <1>15, GoesConcat
<1>17. QED BY <1>12, <1>16, FreshDone

\* The steps of a write: what is done before the pre-allocation, the record, and
\* the append.
WritePart(f, p) ==
  AppendCluster(SetWriter(IF ram.writer = f THEN ram ELSE Released(ram), f), f,
                IF p = <<>> THEN ram.pre ELSE p).steps

WriteMine(f, p) == <<>> \o ((MetaCommit(ram, f) \o <<Mark(ram)>>) \o <<PreAllocRec(ram, f, p)>>)
WriteOther(f, p) == CommitDeferred(ram) \o (<<>> \o <<PreAllocRec(Released(ram), f, p)>>)

LEMMA WriteIs ==
  ASSUME NEW f, NEW p, NEW a, a = WritePart(f, p)
  PROVE  /\ ram.writer = f /\ p = <<>> => WriteSteps(f, p) = (<<>> \o <<>>) \o a
         /\ ram.writer = f /\ p # <<>> => WriteSteps(f, p) = WriteMine(f, p) \o a
         /\ ram.writer # f /\ p # <<>> => WriteSteps(f, p) = WriteOther(f, p) \o a
<1>1. WriteSteps(f, p)
      = (If(~(ram.writer = f), CommitDeferred(ram))
         \o If(p # <<>>, If(ram.writer = f, MetaCommit(ram, f) \o <<Mark(ram)>>)
                         \o <<PreAllocRec(IF ram.writer = f THEN ram ELSE Released(ram), f, p)>>)) \o a
  BY DEF WriteSteps, SetWriter, WritePart
<1>2. QED BY <1>1 DEF If, WriteMine, WriteOther

\* The record and the append, from a settled point on.
LEMMA WriteGoes ==
  ASSUME NEW d, NEW K, Settled(d, K), cache.fat = d.vol.fat, NEW f \in File, NEW r \in Rams, r = d.ram,
         r.ino[f].st # "none", NEW p \in Seq(Cluster), p # <<>>, IsInjective(p),
         \A x \in ToSet(p) : d.vol.fat[x] = FREE,
         NEW a, a = AppendCluster(SetWriter(r, f), f, p).steps
  PROVE  \E e1, e2, L : /\ Goes(d, <<PreAllocRec(r, f, p)>>, e1) /\ Goes(e1, a, e2)
                        /\ Sane(e2) /\ Rest(e2, L)
<1> DEFINE o == SetWriter(r, f)
<1>1. o \in Rams /\ o.ino = r.ino /\ o.segs = r.segs /\ o.writer = f
  BY WriterSet
<1> HIDE DEF o
<1>2. \A g \in File, s \in Slot : Owns(r.ino, g, s) => s \in d.fixed
  BY DEF Settled
<1>3. PICK e1 : Allocated(d, r, f, p, e1)
  BY AllocGoes
<1>4. Goes(d, <<PreAllocRec(r, f, p)>>, e1) /\ e1.fixed = d.fixed
  BY <1>3 DEF Allocated
<1>5. Ready(e1, K, f, p, o)
  BY <1>1, <1>3, AllocReady
<1>6. PICK e2 : AppendedTo(e1, K, f, p, o, e2)
  BY <1>1, <1>5, AppendGoes
<1>7. Goes(e1, a, e2)
  BY <1>6 DEF AppendedTo, o
<1>8. Sane(e2) /\ Rest(e2, AppendedChains(K, f, p[1]))
  <2>1. \A g \in File, s \in Slot : Owns(o.ino, g, s) /\ g # f => s \in e1.fixed
    BY <1>1, <1>2, <1>4
  <2>2. QED BY <1>1, <1>5, <1>6, <2>1, AppendRest
<1>9. QED BY <1>4, <1>7, <1>8

LEMMA WriteReaches ==
  ASSUME NEW c0, NEW K, Stands(c0, K), NEW f \in File, ram.ino[f].st # "none",
         NEW p \in Seq(Cluster), IsInjective(p), \A x \in ToSet(p) : cache.fat[x] = FREE,
         p = <<>> => ram.writer = f /\ ram.pre # <<>>
  PROVE  Done(c0, WriteSteps(f, p))
<1>1. /\ Sane(c0) /\ Rest(c0, K) /\ c0.ram = ram /\ cache.fat = c0.vol.fat /\ ram \in Rams
  BY DEF Stands, Sane
<1>2. /\ Shape(c0.vol, ram, K)
      /\ \A g \in File, s \in Slot : Owns(ram.ino, g, s) /\ g # ram.writer => s \in c0.fixed
      /\ ram.writer # None =>
           /\ c0.log # <<>>
           /\ \A x \in ToSet(ram.pre) : c0.vol.fat[x] = FREE /\ <<"fat", x>> \in c0.mask
           /\ ram.pre # <<>> => /\ ram.ino[ram.writer].last # TAIL
                                /\ <<"fat", ram.ino[ram.writer].last>> \in c0.mask
  BY <1>1 DEF Rest
<1>3. CASE ram.writer = f /\ p = <<>>
  <2> DEFINE w == ram.pre
             o == SetWriter(ram, f)
             a == AppendCluster(o, f, w).steps
  <2>1. o = ram
    BY <1>1, <1>3, WriterSet
  <2>2. w \in Seq(Cluster) /\ IsInjective(w) /\ w # <<>>
    BY <1>1, <1>3, RamFields
  <2>3. f # None /\ ram.ino[f].last # TAIL /\ <<"fat", ram.ino[f].last>> \in c0.mask
    BY <1>2, <1>3, <2>2, ConstantFacts
  <2>4. ~IsFirst(ram, f)
    <3>1. InodeOK(ram.ino[f])
      BY <1>1, RamFields
    <3>2. QED BY <2>3, <3>1 DEF InodeOK, IsFirst
  <2>5. Ready(c0, K, f, w, ram)
    BY <1>1, <1>2, <1>3, <2>3, <2>4 DEF Ready
  <2>6. WriteSteps(f, p) = (<<>> \o <<>>) \o a
    <3>1. a = WritePart(f, p)
      BY <1>3 DEF WritePart
    <3> HIDE DEF a
    <3>2. QED BY <1>3, <3>1, WriteIs
  <2> HIDE DEF w, o
  <2>7. PICK e : AppendedTo(c0, K, f, w, ram, e)
    BY <1>1, <2>2, <2>5, AppendGoes
  <2>8. Goes(c0, a, e)
    BY <2>1, <2>7 DEF AppendedTo
  <2>9. Sane(e) /\ Rest(e, AppendedChains(K, f, w[1]))
    BY <1>1, <1>2, <1>3, <2>2, <2>5, <2>7, AppendRest
  <2> HIDE DEF a
  <2>10. Goes(c0, <<>> \o <<>>, c0)
    BY <1>1, GoesNone, GoesConcat
  <2>11. Goes(c0, WriteSteps(f, p), e)
    BY <2>6, <2>8, <2>10, GoesConcat
  <2>12. QED BY <2>9, <2>11 DEF Done
<1>4. CASE ram.writer = f /\ p # <<>>
  <2> DEFINE a == AppendCluster(SetWriter(ram, f), f, p).steps
             m == MetaCommit(ram, f) \o <<Mark(ram)>>
             b == <<PreAllocRec(ram, f, p)>>
  <2>1. WriteSteps(f, p) = (<<>> \o (m \o b)) \o a
    <3>1. a = WritePart(f, p)
      BY <1>4 DEF WritePart
    <3> HIDE DEF a
    <3>2. WriteSteps(f, p) = WriteMine(f, p) \o a
      BY <1>4, <3>1, WriteIs
    <3>3. WriteMine(f, p) = <<>> \o (m \o b)
      BY DEF WriteMine
    <3> HIDE DEF m, b
    <3>4. QED BY <3>2, <3>3
  <2>2. \E d : Sane(d) /\ Marked(c0, ram, d) /\ Reach(c0, m, d)
    <3>1. c0.log # <<>> /\ f \in File \cup {None} /\ ram.ino = c0.ram.ino
      BY <1>1, <1>2, <1>4, ConstantFacts
    <3>2. \A g \in File, s \in Slot : Owns(c0.ram.ino, g, s) /\ g # f => s \in c0.fixed
      BY <1>1, <1>2, <1>4
    <3>3. QED BY <1>1, <1>2, <3>1, <3>2, CommitReach
  <2>3. PICK d : Sane(d) /\ Marked(c0, ram, d) /\ Reach(c0, m, d)
    BY <2>2
  <2>4. Settled(d, K)
    BY <1>1, <1>2, <2>3, MarkedSettled
  <2>5. d.ram = ram /\ d.vol.fat = cache.fat
    BY <1>1, <2>3 DEF Marked
  <2>6. Goes(c0, m, d)
    <3>1. m \in Seq(StepSet)
      <4>1. MetaCommit(ram, f) \in Seq(Calm(ram.ino)) /\ Calm(ram.ino) \subseteq StepSet
        BY <1>1, MetaCommitCalm, CalmSteps
      <4>2. Mark(ram) \in Calm(ram.ino)
        BY <1>1, CalmSteps
      <4>3. <<Mark(ram)>> \in Seq(StepSet) /\ MetaCommit(ram, f) \in Seq(StepSet)
        BY <4>1, <4>2
      <4>4. QED BY <4>3, ConcatProperties
    <3>2. QED BY <2>3, <3>1 DEF Goes
  <2>7. PICK e1, e2, L : /\ Goes(d, b, e1) /\ Goes(e1, a, e2) /\ Sane(e2) /\ Rest(e2, L)
    <3>1. \A x \in ToSet(p) : d.vol.fat[x] = FREE
      BY <2>5
    <3>2. QED BY <1>1, <1>4, <2>4, <2>5, <3>1, WriteGoes
  <2> HIDE DEF a, b, m
  <2>8. Goes(c0, <<>> \o (m \o b), e1)
    <3>1. Goes(c0, m \o b, e1)
      BY <2>6, <2>7, GoesConcat
    <3>2. Goes(c0, <<>>, c0)
      BY <1>1, GoesNone
    <3>3. QED BY <3>1, <3>2, GoesConcat
  <2>9. Goes(c0, WriteSteps(f, p), e2)
    BY <2>1, <2>7, <2>8, GoesConcat
  <2>10. QED BY <2>7, <2>9 DEF Done
<1>5. CASE ram.writer # f /\ p # <<>>
  <2>1. PICK d : /\ Fresh(d, K) /\ Goes(c0, CommitDeferred(ram), d) /\ d.ram = Released(ram)
                 /\ d.vol.fat = cache.fat /\ d.vol.live = cache.live
                 /\ ram \in Rams /\ Released(ram) \in Rams
                 /\ Released(ram).ino = ram.ino /\ Released(ram).segs = ram.segs
    BY StandsFresh
  <2> DEFINE r == Released(ram)
             a == AppendCluster(SetWriter(r, f), f, p).steps
             b == <<PreAllocRec(r, f, p)>>
             h == CommitDeferred(ram)
  <2>2. WriteSteps(f, p) = (h \o (<<>> \o b)) \o a
    <3>1. a = WritePart(f, p)
      BY <1>5 DEF WritePart
    <3> HIDE DEF a
    <3>2. WriteSteps(f, p) = WriteOther(f, p) \o a
      BY <1>5, <3>1, WriteIs
    <3>3. WriteOther(f, p) = h \o (<<>> \o b)
      BY DEF WriteOther
    <3> HIDE DEF h, b
    <3>4. QED BY <3>2, <3>3
  <2> HIDE DEF r
  <2>3. r \in Rams /\ d.ram = r /\ r.ino[f].st # "none" /\ Settled(d, K)
        /\ \A x \in ToSet(p) : d.vol.fat[x] = FREE
    BY <2>1, FreshSettled DEF r
  <2>4. PICK e1, e2, L : /\ Goes(d, b, e1) /\ Goes(e1, a, e2) /\ Sane(e2) /\ Rest(e2, L)
    BY <1>5, <2>1, <2>3, WriteGoes
  <2> HIDE DEF a, b, h
  <2>5. Goes(c0, h \o (<<>> \o b), e1)
    <3>1. Sane(d)
      BY <2>3 DEF Settled
    <3>2. Goes(d, <<>>, d)
      BY <3>1, GoesNone
    <3>3. Goes(d, <<>> \o b, e1)
      BY <2>4, <3>2, GoesConcat
    <3>4. QED BY <2>1, <3>3, GoesConcat DEF h
  <2>6. Goes(c0, WriteSteps(f, p), e2)
    BY <2>2, <2>4, <2>5, GoesConcat
  <2>7. QED BY <2>4, <2>6 DEF Done
<1>6. QED BY <1>3, <1>4, <1>5

\* The end of a WRITE transaction, when no cluster is left or a sync forces it.
LEMMA CommitReaches ==
  ASSUME NEW c0, NEW K, Stands(c0, K)
  PROVE  /\ Done(c0, CommitDeferred(ram))
         /\ \A f \in File : ram.writer = f => LogEnd(ram, f) = CommitDeferred(ram)
<1>1. PICK d : Fresh(d, K) /\ Goes(c0, CommitDeferred(ram), d)
  BY StandsFresh
<1>2. Done(c0, CommitDeferred(ram))
  BY <1>1, FreshDone
<1>3. ASSUME NEW f \in File, ram.writer = f PROVE LogEnd(ram, f) = CommitDeferred(ram)
  <2>1. f # None
    BY ConstantFacts
  <2>2. QED BY <1>3, <2>1 DEF LogEnd, CommitDeferred, If
<1>4. QED BY <1>2, <1>3

(***************************************************************************)
(* The records of a group of deallocations.                                *)
(***************************************************************************)

\* A piece of a sequence.
Piece(p, m, n) == SubSeq(p, m, n)
PieceOf(S, p, m, n) ==
  /\ Piece(p, m, n) \in Seq(S) /\ Len(Piece(p, m, n)) = n - m + 1
  /\ \A i \in 1..(n - m + 1) : Piece(p, m, n)[i] = p[m + i - 1]
  /\ \A x : x \in ToSet(Piece(p, m, n)) <=> \E i \in m..n : p[i] = x

LEMMA PieceIs ==
  ASSUME NEW S, NEW p \in Seq(S), NEW m \in Nat, NEW n \in Nat, m >= 1, m <= n + 1, n <= Len(p)
  PROVE  PieceOf(S, p, m, n)
<1> DEFINE q == Piece(p, m, n)
<1>1. q = SubSeq(p, m, n)
  BY DEF Piece
<1>2. q \in Seq(S) /\ Len(q) = n - m + 1 /\ \A i \in 1..(n - m + 1) : q[i] = p[m + i - 1]
  BY <1>1
<1> HIDE DEF q
<1>3. \A x : x \in ToSet(q) <=> \E i \in 1..Len(q) : q[i] = x
  BY <1>2, SetIs
<1>4. ASSUME NEW x PROVE x \in ToSet(q) <=> \E i \in m..n : p[i] = x
  <2>1. ASSUME NEW i \in 1..Len(q), q[i] = x PROVE \E j \in m..n : p[j] = x
    <3>1. m + i - 1 \in m..n /\ p[m + i - 1] = x
      BY <1>2, <2>1
    <3>2. QED BY <3>1
  <2>2. ASSUME NEW j \in m..n, p[j] = x PROVE \E i \in 1..Len(q) : q[i] = x
    <3>1. j - m + 1 \in 1..Len(q) /\ m + (j - m + 1) - 1 = j
      BY <1>2
    <3>2. q[j - m + 1] = p[m + (j - m + 1) - 1]
      BY <1>2, <3>1
    <3>3. QED BY <2>2, <3>1, <3>2
  <2>3. QED BY <1>3, <2>1, <2>2
<1>5. QED BY <1>2, <1>4 DEF PieceOf, q

\* The clusters of the k-th of n records.
Chunk(cs, n, k) ==
  SubSeq(cs, (k - 1) * MaxChunks + 1, IF k = n THEN Len(cs) ELSE k * MaxChunks)
RecCount(cs) == (Len(cs) + MaxChunks - 1) \div MaxChunks

LEMMA ChunkIs ==
  ASSUME NEW cs \in Seq(Cluster), NEW n, n = RecCount(cs), NEW k \in 1..n
  PROVE  /\ Chunk(cs, n, k) \in Seq(Cluster)
         /\ \A x : x \in ToSet(Chunk(cs, n, k)) <=>
              \E i \in 1..Len(cs) : /\ (k - 1) * MaxChunks < i
                                    /\ k = n \/ i <= k * MaxChunks
                                    /\ cs[i] = x
<1> DEFINE L == Len(cs)
           M == MaxChunks
           u == IF k = n THEN L ELSE k * M
           m == (k - 1) * M + 1
<1>1. L \in Nat /\ M \in Nat \ {0}
  BY RfsAssumption
<1>2. n \in Nat /\ (n - 1) * M < L /\ L <= n * M
  <2>1. n = (L + M - 1) \div M
    BY DEF RecCount
  <2> HIDE DEF L, M
  <2>2. QED BY <1>1, <2>1, CeilDiv
<1>3. k \in Nat /\ k >= 1 /\ k <= n /\ k - 1 \in Nat
  BY <1>2
<1>4. (k - 1) * M \in Nat /\ k * M \in Nat /\ (k - 1) * M + M = k * M
  <2> HIDE DEF L, M
  <2>1. QED BY <1>1, <1>3
<1>5. k # n => k * M < L
  <2> HIDE DEF L, M
  <2>1. SUFFICES ASSUME k # n PROVE k * M < L
    OBVIOUS
  <2>2. (n - 1) - k \in Nat
    BY <1>2, <1>3, <2>1
  <2>3. ((n - 1) - k) * M \in Nat
    BY <1>1, <2>2
  <2>4. ((n - 1) - k) * M = (n - 1) * M - k * M
    BY <1>1, <1>2, <1>3
  <2>5. (n - 1) * M \in Int
    BY <1>1, <1>2
  <2>6. QED BY <1>1, <1>2, <1>4, <2>3, <2>4, <2>5
<1>6. (k - 1) * M < L
  <2> HIDE DEF L, M
  <2>1. CASE k = n
    BY <1>2, <2>1
  <2>2. CASE k # n
    BY <1>1, <1>4, <1>5, <2>2
  <2>3. QED BY <2>1, <2>2
<1>7. m \in Nat /\ u \in Nat /\ m >= 1 /\ m <= u + 1 /\ u <= L
  <2> HIDE DEF L, M
  <2>1. QED BY <1>1, <1>4, <1>5, <1>6
<1>8. Chunk(cs, n, k) = Piece(cs, m, u)
  BY DEF Chunk, Piece
<1>9. PieceOf(Cluster, cs, m, u)
  <2> HIDE DEF m, u
  <2>1. QED BY <1>7, PieceIs
<1>10. ASSUME NEW x
       PROVE  (\E i \in m..u : cs[i] = x) <=>
              \E i \in 1..L : (k - 1) * M < i /\ (k = n \/ i <= k * M) /\ cs[i] = x
  <2>1. \A i : i \in m..u <=> i \in 1..L /\ (k - 1) * M < i /\ (k = n \/ i <= k * M)
    <3> HIDE DEF L, M
    <3>1. ASSUME NEW i PROVE i \in m..u <=> i \in 1..L /\ (k - 1) * M < i /\ (k = n \/ i <= k * M)
      <4>1. CASE k = n
        <5> DEFINE a == (k - 1) * M
        <5>1. a \in Nat /\ m = a + 1 /\ u = L
          BY <1>4, <4>1
        <5>2. SUFFICES i \in m..u <=> i \in 1..L /\ a < i
          BY <4>1
        <5> HIDE DEF a, m, u
        <5>3. QED BY <1>1, <5>1
      <4>2. CASE k # n
        BY <1>1, <1>4, <1>5, <4>2
      <4>3. QED BY <4>1, <4>2
    <3>2. QED BY <3>1
  <2> HIDE DEF m, u, L, M
  <2>2. QED BY <2>1
<1>11. QED
  <2>1. \A x : x \in ToSet(Piece(cs, m, u)) <=> \E i \in m..u : cs[i] = x
    BY <1>9 DEF PieceOf
  <2>2. Piece(cs, m, u) \in Seq(Cluster)
    BY <1>9 DEF PieceOf
  <2> HIDE DEF m, u
  <2>3. QED BY <1>8, <1>10, <2>1, <2>2

\* Together they are the clusters of the group.
LEMMA ChunksAll ==
  ASSUME NEW cs \in Seq(Cluster), NEW n, n = RecCount(cs), NEW x
  PROVE  x \in ToSet(cs) <=> \E k \in 1..n : x \in ToSet(Chunk(cs, n, k))
<1> DEFINE L == Len(cs)
           M == MaxChunks
<1>1. L \in Nat /\ M \in Nat \ {0}
  BY RfsAssumption
<1>2. n \in Nat /\ L <= n * M
  <2>1. n = (L + M - 1) \div M
    BY DEF RecCount
  <2> HIDE DEF L, M
  <2>2. QED BY <1>1, <2>1, CeilDiv
<1>3. x \in ToSet(cs) <=> \E i \in 1..L : cs[i] = x
  BY SetIs
<1>4. ASSUME NEW k \in 1..n, x \in ToSet(Chunk(cs, n, k)) PROVE \E i \in 1..L : cs[i] = x
  BY <1>4, ChunkIs
<1>5. ASSUME NEW i \in 1..L, cs[i] = x PROVE \E k \in 1..n : x \in ToSet(Chunk(cs, n, k))
  <2> DEFINE k == (i + M - 1) \div M
  <2>1. k \in Nat /\ i <= k * M /\ (k - 1) * M < i
    <3>1. i \in Nat
      BY <1>1
    <3> HIDE DEF L, M
    <3>2. QED BY <1>1, <3>1, CeilDiv
  <2> HIDE DEF k
  <2>2. k \in 1..n
    <3> HIDE DEF L, M
    <3>1. k # 0
      BY <1>1, <2>1
    <3>2. ASSUME k > n PROVE FALSE
      <4>1. (k - 1) - n \in Nat
        BY <1>2, <2>1, <3>2
      <4>2. ((k - 1) - n) * M \in Nat
        BY <1>1, <4>1
      <4>3. ((k - 1) - n) * M = (k - 1) * M - n * M
        BY <1>1, <1>2, <2>1
      <4>4. (k - 1) * M \in Int /\ n * M \in Int
        BY <1>1, <1>2, <2>1
      <4>5. QED BY <1>1, <1>2, <2>1, <4>2, <4>3, <4>4
    <3>3. QED BY <1>2, <2>1, <3>1, <3>2
  <2>3. x \in ToSet(Chunk(cs, n, k))
    BY <1>5, <2>1, <2>2, ChunkIs
  <2>4. QED BY <2>2, <2>3
<1>6. QED BY <1>3, <1>4, <1>5

\* The records rs of the group cs at the place d, with the first cluster nx left.
RecsOf(rs, d, cs, nx) ==
  /\ rs \in Seq(DeallocSet) /\ Len(rs) \in Nat \ {0}
  /\ \A k \in 1..Len(rs) : rs[k].kind = "dealloc" /\ rs[k].d = d /\ rs[k].next = nx /\ rs[k].count = Len(rs)
  /\ \A x : x \in ToSet(cs) <=> \E k \in 1..Len(rs) : x \in ToSet(rs[k].clus)
RecSteps(rs) == [k \in 1..Len(rs) |-> Rec(rs[k])]

LEMMA DeallocRecsAre ==
  ASSUME NEW d \in Places, NEW cs \in Seq(Cluster), cs # <<>>, NEW nx \in Cluster \cup {TAIL}
  PROVE  \E rs : RecsOf(rs, d, cs, nx) /\ DeallocRecs(d, cs, nx) = RecSteps(rs)
<1> DEFINE n == RecCount(cs)
           r(k) == [kind |-> "dealloc", d |-> d, next |-> nx, count |-> n, clus |-> Chunk(cs, n, k)]
           rs == [k \in 1..n |-> r(k)]
<1>1. n \in Nat \ {0}
  <2> DEFINE L == Len(cs)
             M == MaxChunks
  <2>1. L \in Nat \ {0} /\ M \in Nat \ {0} /\ n = (L + M - 1) \div M
    BY RfsAssumption DEF RecCount
  <2> HIDE DEF n, L, M
  <2>2. n \in Nat /\ L <= n * M
    BY <2>1, CeilDiv
  <2>3. QED BY <2>1, <2>2
<1> HIDE DEF n
<1>2. ASSUME NEW k \in 1..n PROVE r(k) \in DeallocSet
  <2>1. Chunk(cs, n, k) \in Seq(Cluster)
    BY ChunkIs DEF n
  <2>2. QED BY <1>1, <2>1 DEF DeallocSet
<1>3. Len(rs) = n /\ \A k \in 1..n : rs[k] = r(k)
  BY <1>1
<1>4. rs \in Seq(DeallocSet)
  <2> HIDE DEF r
  <2>1. QED BY <1>1, <1>2
<1>5. \A x : x \in ToSet(cs) <=> \E k \in 1..n : x \in ToSet(Chunk(cs, n, k))
  BY ChunksAll DEF n
<1>6. \A k \in 1..n : rs[k].clus = Chunk(cs, n, k)
  BY <1>3
<1>7. \A k \in 1..n : rs[k].kind = "dealloc" /\ rs[k].d = d /\ rs[k].next = nx /\ rs[k].count = n
  BY <1>3
<1>8. DeallocRecs(d, cs, nx) = RecSteps(rs)
  <2>1. DeallocRecs(d, cs, nx) = [k \in 1..n |-> Rec(r(k))]
    BY DEF DeallocRecs, n, RecCount, Chunk
  <2>2. RecSteps(rs) = [k \in 1..n |-> Rec(rs[k])]
    BY <1>3 DEF RecSteps
  <2> HIDE DEF r, rs
  <2>3. QED BY <1>3, <2>1, <2>2
<1> HIDE DEF rs
<1>9. RecsOf(rs, d, cs, nx)
  BY <1>1, <1>3, <1>4, <1>5, <1>6, <1>7 DEF RecsOf
<1>10. QED BY <1>8, <1>9
-----------------------------------------------------------------------------
(***************************************************************************)
(* The volume a mount comes to in the middle of a deallocation.            *)
(***************************************************************************)

\* The first q clusters of the chain cs are free.
Taken(cs, q) == ToSet(Begin(cs, q))
\* Where the chain in front of cs leads to then.
NextLeft(cs, q) == IF q < Len(cs) THEN cs[q + 1] ELSE TAIL
Follow(cs, q, e) == IF q < Len(cs) THEN cs[q + 1] ELSE e
Gone(b, d, cs, q) ==
  [fat |-> [x \in FatIndex |->
              IF x \in Taken(cs, q) THEN FREE
              ELSE IF x = d.prev THEN Follow(cs, q, d.succ)
              ELSE IF <<"fat", x>> \in CutSpots(d) THEN TAIL ELSE b.fat[x]],
   live |-> b.live,
   start |-> [s \in Slot |-> IF <<"start", s>> \in CutSpots(d) THEN TAIL ELSE b.start[s]]]
GoneAt(b, d, cs, q, x) ==
  IF x \in Freed(Taken(cs, q)) THEN FREE
  ELSE IF x = <<"fat", d.prev>> THEN Follow(cs, q, d.succ)
  ELSE IF x \in SourceSpots(d) THEN TAIL ELSE At(b, x)
GoneAs(b, d, cs, q, v) ==
  /\ v \in Volume /\ Held(v) = Held(b) /\ v.live = b.live
  /\ \A x \in Spots : At(v, x) = GoneAt(b, d, cs, q, x)
  /\ SourceSpots(d) \subseteq Spots

LEMMA TakenIs ==
  ASSUME NEW cs \in Seq(Cluster), NEW q \in 0..Len(cs)
  PROVE  /\ Taken(cs, q) \subseteq Cluster /\ Taken(cs, q) \subseteq ToSet(cs)
         /\ \A x : x \in Taken(cs, q) <=> \E i \in 1..q : cs[i] = x
<1>1. Begin(cs, q) \in Seq(Cluster) /\ Len(Begin(cs, q)) = q /\ \A i \in 1..q : Begin(cs, q)[i] = cs[i]
  BY BeginIs
<1>2. \A x : x \in Taken(cs, q) <=> \E i \in 1..Len(Begin(cs, q)) : Begin(cs, q)[i] = x
  BY <1>1, SetIs DEF Taken
<1>3. \A x : x \in Taken(cs, q) <=> \E i \in 1..q : cs[i] = x
  BY <1>1, <1>2
<1>4. \A x : x \in ToSet(cs) <=> \E i \in 1..Len(cs) : cs[i] = x
  BY SetIs
<1>5. \A i \in 1..q : i \in 1..Len(cs) /\ cs[i] \in Cluster
  OBVIOUS
<1>6. QED BY <1>3, <1>4, <1>5

LEMMA FollowType ==
  ASSUME NEW cs \in Seq(Cluster), NEW q \in 0..Len(cs), NEW e \in Cluster \cup {TAIL}
  PROVE  /\ Follow(cs, q, e) \in Cluster \cup {TAIL} /\ NextLeft(cs, q) \in Cluster \cup {TAIL}
         /\ Follow(cs, q, e) = IF NextLeft(cs, q) # TAIL THEN NextLeft(cs, q) ELSE e
<1>1. CASE q < Len(cs)
  <2>1. q + 1 \in 1..Len(cs)
    BY <1>1
  <2>2. cs[q + 1] \in Cluster
    BY <2>1
  <2>3. cs[q + 1] # TAIL
    BY <2>2, ConstantFacts
  <2>4. QED BY <1>1, <2>2, <2>3 DEF Follow, NextLeft
<1>2. CASE ~(q < Len(cs))
  BY <1>2 DEF Follow, NextLeft
<1>3. QED BY <1>1, <1>2

LEMMA SpotNames ==
  ASSUME NEW x, NEW c, NEW s
  PROVE  /\ <<"fat", x>> = <<"fat", c>> <=> x = c
         /\ <<"start", x>> = <<"start", c>> <=> x = c
         /\ <<"live", x>> = <<"live", c>> <=> x = c
         /\ <<"fat", x>> # <<"start", c>> /\ <<"fat", x>> # <<"live", c>>
         /\ <<"start", x>> # <<"live", c>>
         /\ \A Z : /\ <<"fat", x>> \in Freed(Z) <=> x \in Z
                   /\ <<"start", x>> \notin Freed(Z) /\ <<"live", x>> \notin Freed(Z)
BY DEF Freed

\* The places a deallocation changes.
LEMMA SourceIs ==
  ASSUME NEW d \in Places
  PROVE  /\ SourceSpots(d) \subseteq Spots /\ CutSpots(d) \subseteq SourceSpots(d)
         /\ \A x : <<"fat", x>> \in SourceSpots(d) <=> x = d.prev \/ <<"fat", x>> \in CutSpots(d)
         /\ \A x : <<"start", x>> \in SourceSpots(d) <=> <<"start", x>> \in CutSpots(d)
         /\ \A x : <<"live", x>> \notin SourceSpots(d)
         /\ \A x : <<"fat", x>> \in CutSpots(d) <=> d.trunc /\ d.newlast # TAIL /\ x = d.newlast
         /\ \A x : <<"start", x>> \in CutSpots(d) <=>
                     d.trunc /\ d.newlast = TAIL /\ d.slot # None /\ x = d.slot
<1>1. d.slot \in Slot \cup {None} /\ d.newlast \in FatIndex \cup {TAIL} /\ d.prev \in FatIndex
  BY DEF Places
<1>2. CutSpots(d) = IF ~d.trunc THEN {} ELSE IF d.newlast # TAIL THEN {<<"fat", d.newlast>>}
                    ELSE IF d.slot # None THEN {<<"start", d.slot>>} ELSE {}
  BY DEF CutSpots
<1>3. SourceSpots(d) = {<<"fat", d.prev>>} \cup CutSpots(d)
  BY DEF SourceSpots
<1>4. /\ \A x : <<"fat", x>> \in CutSpots(d) <=> d.trunc /\ d.newlast # TAIL /\ x = d.newlast
      /\ \A x : <<"start", x>> \in CutSpots(d) <=>
                  d.trunc /\ d.newlast = TAIL /\ d.slot # None /\ x = d.slot
      /\ \A x : <<"live", x>> \notin CutSpots(d)
  BY <1>2, SpotNames
<1>5. SourceSpots(d) \subseteq Spots
  <2>1. <<"fat", d.prev>> \in Spots
    BY <1>1, SpotIs
  <2>2. CutSpots(d) \subseteq Spots
    BY <1>1, <1>2, SpotIs
  <2>3. QED BY <1>3, <2>1, <2>2
<1>6. /\ \A x : <<"fat", x>> \in SourceSpots(d) <=> x = d.prev \/ <<"fat", x>> \in CutSpots(d)
      /\ \A x : <<"start", x>> \in SourceSpots(d) <=> <<"start", x>> \in CutSpots(d)
      /\ \A x : <<"live", x>> \notin SourceSpots(d)
  BY <1>3, <1>4, SpotNames
<1>7. QED BY <1>3, <1>4, <1>5, <1>6

LEMMA GoneIs ==
  ASSUME NEW b \in Volume, NEW d \in Places, NEW cs \in Seq(Cluster), NEW q \in 0..Len(cs),
         NEW v, v = Gone(b, d, cs, q)
  PROVE  GoneAs(b, d, cs, q, v)
<1>1. /\ \A x \in FatIndex : v.fat[x] = IF x \in Taken(cs, q) THEN FREE
              ELSE IF x = d.prev THEN Follow(cs, q, d.succ)
              ELSE IF <<"fat", x>> \in CutSpots(d) THEN TAIL ELSE b.fat[x]
      /\ v.live = b.live
      /\ \A s \in Slot : v.start[s] = IF <<"start", s>> \in CutSpots(d) THEN TAIL ELSE b.start[s]
  BY DEF Gone
<1>2. v \in Volume
  <2>1. b.fat \in FatMap /\ b.live \in [Slot -> BOOLEAN] /\ b.start \in [Slot -> Cluster \cup {TAIL}]
    BY VolumeFields
  <2>2. Follow(cs, q, d.succ) \in Cluster \cup {TAIL}
    BY FollowType DEF Places
  <2> DEFINE F == [x \in FatIndex |->
              IF x \in Taken(cs, q) THEN FREE
              ELSE IF x = d.prev THEN Follow(cs, q, d.succ)
              ELSE IF <<"fat", x>> \in CutSpots(d) THEN TAIL ELSE b.fat[x]]
             T == [s \in Slot |-> IF <<"start", s>> \in CutSpots(d) THEN TAIL ELSE b.start[s]]
  <2>3. F \in FatMap
    BY <2>1, <2>2 DEF FatMap, FatVal
  <2>4. T \in [Slot -> Cluster \cup {TAIL}]
    BY <2>1
  <2>5. v = [fat |-> F, live |-> b.live, start |-> T]
    BY DEF Gone
  <2> HIDE DEF F, T
  <2>6. QED BY <2>1, <2>3, <2>4, <2>5 DEF Volume, FatMap, FatVal
<1>3. Held(v) = Held(b)
  BY <1>1 DEF Held
<1>4. ASSUME NEW x \in Spots PROVE At(v, x) = GoneAt(b, d, cs, q, x)
  <2>1. CASE \E c \in FatIndex : x = <<"fat", c>>
    <3>1. PICK c \in FatIndex : x = <<"fat", c>>
      BY <2>1
    <3>2. At(v, x) = v.fat[c] /\ At(b, x) = b.fat[c]
      BY <3>1, SpotIs
    <3>3. /\ x \in Freed(Taken(cs, q)) <=> c \in Taken(cs, q)
          /\ x = <<"fat", d.prev>> <=> c = d.prev
          /\ x \in SourceSpots(d) <=> c = d.prev \/ <<"fat", c>> \in CutSpots(d)
      BY <3>1, SpotNames, SourceIs
    <3>4. QED BY <1>1, <3>2, <3>3 DEF GoneAt
  <2>2. CASE \E s \in Slot : x = <<"live", s>>
    <3>1. PICK s \in Slot : x = <<"live", s>>
      BY <2>2
    <3>2. At(v, x) = v.live[s] /\ At(b, x) = b.live[s]
      BY <3>1, SpotIs
    <3>3. x \notin Freed(Taken(cs, q)) /\ x # <<"fat", d.prev>> /\ x \notin SourceSpots(d)
      BY <3>1, SpotNames, SourceIs
    <3>4. QED BY <1>1, <3>2, <3>3 DEF GoneAt
  <2>3. CASE \E s \in Slot : x = <<"start", s>>
    <3>1. PICK s \in Slot : x = <<"start", s>>
      BY <2>3
    <3>2. At(v, x) = v.start[s] /\ At(b, x) = b.start[s]
      BY <3>1, SpotIs
    <3>3. /\ x \notin Freed(Taken(cs, q)) /\ x # <<"fat", d.prev>>
          /\ x \in SourceSpots(d) <=> <<"start", s>> \in CutSpots(d)
      BY <3>1, SpotNames, SourceIs
    <3>4. QED BY <1>1, <3>2, <3>3 DEF GoneAt
  <2>4. QED BY <2>1, <2>2, <2>3, SpotIs
<1>5. SourceSpots(d) \subseteq Spots
  BY SourceIs
<1>6. QED BY <1>1, <1>2, <1>3, <1>4, <1>5 DEF GoneAs

\* The places a deallocation changes are not those it frees.
Aside(d, cs) == SourceSpots(d) \cap Freed(ToSet(cs)) = {}

\* The log ends with the records of the group of clusters Z, whole.
GroupEnds(l, d, Z, nx) ==
  /\ l \in Seq(RecSet) /\ l # <<>> /\ l[Len(l)].kind = "dealloc" /\ WholeGroup(l, Len(l))
  /\ l[GroupFirst(l)].d = d /\ l[GroupFirst(l)].next = nx /\ GroupSet(l) = Z

\* A replay that frees clusters and cuts the chain.
LEMMA RedoRestores ==
  ASSUME NEW b \in Volume, NEW d \in Places, NEW cs \in Seq(Cluster), NEW q \in 0..Len(cs),
         Aside(d, cs), NEW l, NEW t, t = ReplaySteps(l), NEW r, r.d = d, r.next = NextLeft(cs, q),
         NEW Z, Redoes(t, r, Z), Z \subseteq Taken(cs, q), NEW v, v = Gone(b, d, cs, q)
  PROVE  Restores(l, v, SourceSpots(d) \cup Freed(Z))
<1> DEFINE m == SourceSpots(d) \cup Freed(Z)
<1>4. /\ t \in Seq(Edits) /\ SpotsOf(t) = SourceSpots(r.d) \cup Freed(Z)
      /\ \A w \in Volume :
           /\ ApplyAll(w, t) \in Volume
           /\ \A x \in Spots : At(ApplyAll(w, t), x) =
                IF x \in Freed(Z) THEN FREE
                ELSE IF x = <<"fat", r.d.prev>> THEN Beyond(r)
                ELSE IF x \in SourceSpots(r.d) THEN TAIL ELSE At(w, x)
  BY DEF Redoes, RedoAt
<1>5. Beyond(r) = Follow(cs, q, d.succ)
  <2>1. d.succ \in Cluster \cup {TAIL}
    BY DEF Places
  <2>2. QED BY <2>1, FollowType DEF Beyond
<1>6. GoneAs(b, d, cs, q, v)
  BY GoneIs
<1>7. SpotsOf(ReplaySteps(l)) = m
  BY <1>4
<1>8. ASSUME NEW w \in Volume, Agree(w, v, m) PROVE Agree(ApplyAll(w, ReplaySteps(l)), v, {})
  <2> DEFINE a == ApplyAll(w, t)
  <2>1. \A x \in Spots : At(a, x) =
                IF x \in Freed(Z) THEN FREE
                ELSE IF x = <<"fat", d.prev>> THEN Follow(cs, q, d.succ)
                ELSE IF x \in SourceSpots(d) THEN TAIL ELSE At(w, x)
    BY <1>4, <1>5
  <2>2. \A x \in Spots : At(v, x) = GoneAt(b, d, cs, q, x)
    BY <1>6 DEF GoneAs
  <2>3. Held(v) \subseteq Spots
    BY HeldIs
  <2>4. \A x \in Held(v) \ m : At(w, x) = At(v, x)
    BY <1>8 DEF Agree
  <2>5. \A x : x \in Freed(Z) => x \in Freed(Taken(cs, q))
    BY DEF Freed
  <2>6. \A x : x \in m <=> x \in SourceSpots(d) \/ x \in Freed(Z)
    OBVIOUS
  <2>7. <<"fat", d.prev>> \in SourceSpots(d)
    BY DEF SourceSpots
  <2> HIDE DEF a, m
  <2>8. ASSUME NEW x \in Held(v) PROVE At(a, x) = At(v, x)
    <3>1. x \in Spots
      BY <2>3
    <3>2. At(v, x) = IF x \in Freed(Taken(cs, q)) THEN FREE
             ELSE IF x = <<"fat", d.prev>> THEN Follow(cs, q, d.succ)
             ELSE IF x \in SourceSpots(d) THEN TAIL ELSE At(b, x)
      BY <2>2, <3>1 DEF GoneAt
    <3>3. CASE x \in Freed(Z)
      BY <2>1, <2>5, <3>1, <3>2, <3>3
    <3>4. CASE x \notin m
      BY <2>1, <2>4, <2>6, <2>7, <3>1, <3>4
    <3>5. CASE x \in SourceSpots(d) /\ x \notin Freed(Z) /\ x \notin Freed(Taken(cs, q))
      BY <2>1, <3>1, <3>2, <3>5
    <3>6. CASE x \in SourceSpots(d) /\ x \in Freed(Taken(cs, q))
      <4>1. Freed(Taken(cs, q)) \subseteq Freed(ToSet(cs))
        BY TakenIs DEF Freed
      <4>2. QED BY <3>6, <4>1 DEF Aside
    <3>7. QED BY <2>6, <3>3, <3>4, <3>5, <3>6
  <2>9. QED BY <2>8 DEF Agree, a
<1>9. QED BY <1>7, <1>8 DEF Restores

\* The replay of a whole group, and of a mark of the part that is done.
LEMMA GoneRestores ==
  ASSUME NEW b \in Volume, NEW d \in Places, NEW cs \in Seq(Cluster), NEW q \in 0..Len(cs),
         Aside(d, cs), NEW l1 \in Seq(RecSet), NEW r1 \in RecSet, NEW l, l = Append(l1, r1),
         NEW Z, GroupEnds(l, d, Z, NextLeft(cs, q)), Z \subseteq Taken(cs, q),
         NEW v, v = Gone(b, d, cs, q)
  PROVE  Restores(l, v, SourceSpots(d) \cup Freed(Z))
<1> DEFINE r == l[GroupFirst(l)]
           t == RedoSteps(l, Len(l))
<1>1. /\ l \in Seq(RecSet) /\ l # <<>> /\ l[Len(l)].kind = "dealloc" /\ WholeGroup(l, Len(l))
      /\ r.d = d /\ r.next = NextLeft(cs, q) /\ GroupSet(l) = Z
  BY DEF GroupEnds
<1>2. Stops(l, Len(l))
  BY <1>1 DEF Stops
<1>3. ReplaySteps(l) = t
  BY <1>2, ReplayStop
<1>4. t = RedoSteps(l, Len(l)) /\ r = l[GroupFirst(l)]
  OBVIOUS
<1> HIDE DEF r, t
<1>5. Redoes(t, r, GroupSet(l))
  BY <1>1, <1>4, GroupIs
<1>6. QED BY <1>1, <1>3, <1>5, RedoRestores

LEMMA MarkRestores ==
  ASSUME NEW b \in Volume, NEW d \in Places, NEW cs \in Seq(Cluster), NEW q \in 0..Len(cs),
         Aside(d, cs), NEW l1 \in Seq(RecSet), NEW r \in MrcRecs, NEW l, l = Append(l1, r),
         r.d = d, r.next = NextLeft(cs, q), NEW v, v = Gone(b, d, cs, q)
  PROVE  Restores(l, v, SourceSpots(d))
<1> DEFINE t == RedoSource(r)
<1>1. r \in RecSet /\ r.kind = "mrc"
  BY DEF RecSet, MrcRecs
<1>2. l \in Seq(RecSet) /\ l[Len(l)] = r /\ Len(l) # 0
  BY <1>1, RedoneAppend
<1>3. Stops(l, Len(l))
  BY <1>1, <1>2 DEF Stops
<1>4. ReplaySteps(l) = t
  <2>1. ReplaySteps(l) = RedoSteps(l, Len(l))
    BY <1>1, <1>3, ReplayStop
  <2>2. RedoSteps(l, Len(l)) = t
    BY <1>1, <1>2 DEF RedoSteps
  <2>3. QED BY <2>1, <2>2
<1>5. t = RedoSource(r) /\ Freed({}) = {} /\ {} \subseteq Taken(cs, q)
  BY DEF Freed
<1> HIDE DEF t
<1>6. /\ t \in Seq(Edits) /\ SpotsOf(t) = SourceSpots(r.d)
      /\ \A v0 \in Volume :
           /\ ApplyAll(v0, t) \in Volume
           /\ \A x \in Spots : At(ApplyAll(v0, t), x) =
                IF x = <<"fat", r.d.prev>> THEN Beyond(r)
                ELSE IF x \in SourceSpots(r.d) THEN TAIL ELSE At(v0, x)
  BY <1>5, RedoSourceIs
<1>7. Redoes(t, r, {})
  BY <1>5, <1>6 DEF Redoes, RedoAt
<1>8. Restores(l, v, SourceSpots(d) \cup Freed({}))
  BY <1>4, <1>5, <1>7, RedoRestores
<1>9. QED BY <1>5, <1>8

\* No group of deallocation records is open.
NoGroup(l) == l = <<>> \/ l[Len(l)].kind # "dealloc"
\* A log with k more records, the last one of which is r.
MoreLog(l0, rs, k) == l0 \o Begin(rs, k)
MoreLogIs(l0, rs, k, l) ==
  /\ l \in Seq(RecSet) /\ Len(l) = Len(l0) + k
  /\ \A j \in 1..Len(l0) : l[j] = l0[j]
  /\ \A j \in (Len(l0) + 1)..Len(l) : l[j] = rs[j - Len(l0)]
  /\ MoreLog(l0, rs, k - 1) \in Seq(RecSet) /\ rs[k] \in RecSet
  /\ l = Append(MoreLog(l0, rs, k - 1), rs[k])

LEMMA MoreLogFacts ==
  ASSUME NEW l0 \in Seq(RecSet), NEW rs \in Seq(RecSet), NEW k \in 1..Len(rs),
         NEW l, l = MoreLog(l0, rs, k)
  PROVE  MoreLogIs(l0, rs, k, l)
<1> DEFINE a == Begin(rs, k)
           a0 == Begin(rs, k - 1)
<1>1. a \in Seq(RecSet) /\ Len(a) = k /\ \A i \in 1..k : a[i] = rs[i]
  BY BeginIs
<1>2. a0 \in Seq(RecSet) /\ rs[k] \in RecSet /\ a = a0 \o <<rs[k]>>
  BY BeginNext
<1>3. l = l0 \o a /\ MoreLog(l0, rs, k - 1) = l0 \o a0
  BY DEF MoreLog
<1> HIDE DEF a, a0
<1>4. l \in Seq(RecSet) /\ Len(l) = Len(l0) + k
  BY <1>1, <1>3
<1>5. \A j \in 1..Len(l0) : l[j] = l0[j]
  BY <1>1, <1>3
<1>6. \A j \in (Len(l0) + 1)..Len(l) : l[j] = rs[j - Len(l0)]
  <2>1. ASSUME NEW j \in (Len(l0) + 1)..Len(l) PROVE l[j] = rs[j - Len(l0)]
    <3>1. j - Len(l0) \in 1..k
      BY <1>4
    <3>2. l[j] = a[j - Len(l0)]
      BY <1>1, <1>3, <1>4
    <3>3. QED BY <1>1, <3>1, <3>2
  <2>2. QED BY <2>1
<1>7. l = Append(l0 \o a0, rs[k])
  BY <1>2, <1>3
<1>8. l0 \o a0 \in Seq(RecSet)
  BY <1>2
<1>9. QED BY <1>2, <1>3, <1>4, <1>5, <1>6, <1>7, <1>8 DEF MoreLogIs

\* The walk back does not stop at the records of a group but at the last one.
LEMMA PartOpen ==
  ASSUME NEW l0 \in Seq(RecSet), NoGroup(l0), NEW rs, NEW d, NEW cs, NEW nx, RecsOf(rs, d, cs, nx),
         NEW k \in 1..Len(rs), k # Len(rs), NEW l, MoreLogIs(l0, rs, k, l)
  PROVE  ~Stops(l, Len(l))
<1>1. /\ l \in Seq(RecSet) /\ Len(l) = Len(l0) + k
      /\ \A j \in 1..Len(l0) : l[j] = l0[j]
      /\ \A j \in (Len(l0) + 1)..Len(l) : l[j] = rs[j - Len(l0)]
  BY DEF MoreLogIs
<1>2. rs \in Seq(DeallocSet) /\ \A i \in 1..Len(rs) : rs[i].kind = "dealloc" /\ rs[i].count = Len(rs)
  BY DEF RecsOf
<1>3. Len(l0) \in Nat /\ Len(rs) \in Nat /\ k < Len(rs) /\ k >= 1
  BY <1>2
<1>4. l[Len(l)] = rs[k]
  BY <1>1, <1>3
<1>5. l[Len(l)].kind = "dealloc" /\ l[Len(l)].count = Len(rs)
  BY <1>2, <1>3, <1>4
<1>6. SUFFICES ASSUME WholeGroup(l, Len(l)) PROVE FALSE
  BY <1>5 DEF Stops
<1>7. /\ Len(l) - Len(rs) + 1 >= 1
      /\ \A j \in (Len(l) - Len(rs) + 1)..Len(l) : l[j].kind = "dealloc"
  BY <1>5, <1>6 DEF WholeGroup
<1>8. Len(l0) \in (Len(l) - Len(rs) + 1)..Len(l) /\ Len(l0) # 0
  BY <1>1, <1>3, <1>7
<1>9. l[Len(l0)].kind = "dealloc"
  BY <1>7, <1>8
<1>10. Len(l0) \in 1..Len(l0)
  BY <1>3, <1>8
<1>11. l0[Len(l0)].kind = "dealloc" /\ l0 # <<>>
  BY <1>1, <1>9, <1>10
<1>12. QED BY <1>11 DEF NoGroup

LEMMA PartWhole ==
  ASSUME NEW l0 \in Seq(RecSet), NEW rs, NEW d, NEW cs, NEW nx, RecsOf(rs, d, cs, nx),
         NEW l, MoreLogIs(l0, rs, Len(rs), l)
  PROVE  GroupEnds(l, d, ToSet(cs), nx)
<1> DEFINE n == Len(rs)
<1>1. /\ l \in Seq(RecSet) /\ Len(l) = Len(l0) + n
      /\ \A j \in (Len(l0) + 1)..Len(l) : l[j] = rs[j - Len(l0)]
  BY DEF MoreLogIs
<1>2. /\ n \in Nat \ {0}
      /\ \A i \in 1..n : rs[i].kind = "dealloc" /\ rs[i].d = d /\ rs[i].next = nx /\ rs[i].count = n
      /\ \A x : x \in ToSet(cs) <=> \E i \in 1..n : x \in ToSet(rs[i].clus)
  BY DEF RecsOf
<1> HIDE DEF n
<1>3. Len(l0) \in Nat /\ Len(l) \in Nat
  BY <1>1, <1>2
<1>4. /\ \A j \in (Len(l0) + 1)..Len(l) : j - Len(l0) \in 1..n
      /\ \A i \in 1..n : Len(l0) + i \in (Len(l0) + 1)..Len(l) /\ (Len(l0) + i) - Len(l0) = i
  BY <1>1, <1>2, <1>3
<1>5. \A j \in (Len(l0) + 1)..Len(l) :
        l[j].kind = "dealloc" /\ l[j].d = d /\ l[j].next = nx /\ l[j].count = n
  BY <1>1, <1>2, <1>4
<1>6. Len(l) \in (Len(l0) + 1)..Len(l) /\ Len(l0) + 1 \in (Len(l0) + 1)..Len(l)
      /\ Len(l) - n + 1 = Len(l0) + 1 /\ l # <<>>
  BY <1>1, <1>2, <1>3
<1>7. l[Len(l)].kind = "dealloc" /\ l[Len(l)].count = n
  BY <1>5, <1>6
<1>8. GroupFirst(l) = Len(l0) + 1
  BY <1>6, <1>7 DEF GroupFirst
<1>9. WholeGroup(l, Len(l))
  <2>1. Len(l0) + 1 >= 1
    BY <1>3
  <2>2. QED BY <1>5, <1>6, <1>7, <2>1 DEF WholeGroup
<1>10. l[GroupFirst(l)].d = d /\ l[GroupFirst(l)].next = nx
  BY <1>5, <1>6, <1>8
<1>11. GroupSet(l) = ToSet(cs)
  <2>1. GroupSet(l) = UNION {ToSet(l[j].clus) : j \in (Len(l0) + 1)..Len(l)}
    BY <1>8 DEF GroupSet
  <2>2. \A x : x \in GroupSet(l) <=> \E j \in (Len(l0) + 1)..Len(l) : x \in ToSet(l[j].clus)
    BY <2>1
  <2>3. ASSUME NEW x PROVE x \in GroupSet(l) <=> x \in ToSet(cs)
    <3>1. ASSUME NEW j \in (Len(l0) + 1)..Len(l), x \in ToSet(l[j].clus)
          PROVE  \E i \in 1..n : x \in ToSet(rs[i].clus)
      BY <1>1, <1>4, <3>1
    <3>2. ASSUME NEW i \in 1..n, x \in ToSet(rs[i].clus)
          PROVE  \E j \in (Len(l0) + 1)..Len(l) : x \in ToSet(l[j].clus)
      <4>1. l[Len(l0) + i] = rs[i]
        BY <1>1, <1>4
      <4>2. QED BY <1>4, <3>2, <4>1
    <3>3. QED BY <1>2, <2>2, <3>1, <3>2
  <2>4. QED BY <2>3
<1>12. QED BY <1>1, <1>6, <1>7, <1>9, <1>10, <1>11 DEF GroupEnds

\* The volume a mount comes to, and the places it sets, before the next group.
Base(b, d, cs, q) == IF q = 0 THEN b ELSE Gone(b, d, cs, q)
Mask(d, q) == IF q = 0 THEN {} ELSE SourceSpots(d)

LEMMA GoneAgree ==
  ASSUME NEW b \in Volume, NEW d \in Places, NEW cs \in Seq(Cluster), NEW q \in 0..Len(cs),
         NEW p \in 0..Len(cs), NEW Z, Taken(cs, p) = Taken(cs, q) \cup Z,
         NEW v, Agree(v, Base(b, d, cs, q), Mask(d, q)), NEW w, w = Gone(b, d, cs, p)
  PROVE  Agree(v, w, SourceSpots(d) \cup Freed(Z)) /\ Held(w) = Held(Base(b, d, cs, q))
<1> DEFINE u == Base(b, d, cs, q)
<1>1. GoneAs(b, d, cs, p, w)
  BY GoneIs
<1>2. Held(w) = Held(b) /\ \A x \in Spots : At(w, x) = GoneAt(b, d, cs, p, x)
  BY <1>1 DEF GoneAs
<1>3. /\ Held(u) = Held(b) /\ Held(b) \subseteq Spots /\ Mask(d, q) \subseteq SourceSpots(d)
      /\ \A x \in Spots : x \notin SourceSpots(d) =>
           At(u, x) = IF x \in Freed(Taken(cs, q)) THEN FREE ELSE At(b, x)
  <2>1. Held(b) \subseteq Spots
    BY HeldIs
  <2>2. CASE q = 0
    <3>1. Taken(cs, q) = {}
      BY <2>2, TakenIs
    <3>2. Freed(Taken(cs, q)) = {} /\ u = b /\ Mask(d, q) = {}
      BY <2>2, <3>1 DEF Freed, Base, Mask
    <3>3. QED BY <2>1, <3>2
  <2>3. CASE q # 0
    <3>1. u = Gone(b, d, cs, q) /\ Mask(d, q) = SourceSpots(d)
      BY <2>3 DEF Base, Mask
    <3>2. GoneAs(b, d, cs, q, u)
      BY <3>1, GoneIs
    <3>3. Held(u) = Held(b) /\ \A x \in Spots : At(u, x) = GoneAt(b, d, cs, q, x)
      BY <3>2 DEF GoneAs
    <3>4. <<"fat", d.prev>> \in SourceSpots(d)
      BY DEF SourceSpots
    <3>5. \A x \in Spots : x \notin SourceSpots(d) =>
            GoneAt(b, d, cs, q, x) = IF x \in Freed(Taken(cs, q)) THEN FREE ELSE At(b, x)
      BY <3>4 DEF GoneAt
    <3>6. QED BY <2>1, <3>1, <3>3, <3>5
  <2>4. QED BY <2>2, <2>3
<1>4. \A x : x \in Freed(Taken(cs, p)) <=> x \in Freed(Taken(cs, q)) \/ x \in Freed(Z)
  BY DEF Freed
<1>5. \A x \in Spots : x \notin SourceSpots(d) =>
        At(w, x) = IF x \in Freed(Taken(cs, p)) THEN FREE ELSE At(b, x)
  <2>1. <<"fat", d.prev>> \in SourceSpots(d)
    BY DEF SourceSpots
  <2>2. QED BY <1>2, <2>1 DEF GoneAt
<1> HIDE DEF u
<1>6. ASSUME NEW x \in Held(w), x \notin SourceSpots(d), x \notin Freed(Z)
      PROVE  At(v, x) = At(w, x)
  <2>1. x \in Spots /\ x \in Held(u) /\ x \notin Mask(d, q)
    BY <1>2, <1>3, <1>6
  <2>2. At(v, x) = At(u, x)
    BY <2>1 DEF Agree, u
  <2>3. At(u, x) = At(w, x)
    BY <1>3, <1>4, <1>5, <1>6, <2>1
  <2>4. QED BY <2>2, <2>3
<1>7. QED BY <1>2, <1>3, <1>6 DEF Agree, u

\* What a deallocation of cs at d needs of the volume b: at every stage it is
\* sound, and a truncation shows from the first record on.
CutView(d, old) ==
  IF d.trunc /\ d.slot # None THEN [old EXCEPT ![d.slot] = Kept(@, d.newlast)] ELSE old
Deallocates(b, d, cs) ==
  /\ b \in Volume /\ d \in Places /\ cs \in Seq(Cluster) /\ Aside(d, cs)
  /\ \A q \in 1..Len(cs) : /\ Sound(Gone(b, d, cs, q))
                           /\ View(Gone(b, d, cs, q)) = CutView(d, View(b))
                           /\ CutView(d, View(Gone(b, d, cs, q))) = View(Gone(b, d, cs, q))

\* The point before the next group.
AtGroup(c, b, d, cs, q) ==
  /\ Sane(c) /\ NoGroup(c.log) /\ c.base = Base(b, d, cs, q) /\ c.mask = Mask(d, q)
\* The point after k of its records.
PartBy(c, rs, k, o) ==
  /\ o.vol = c.vol /\ o.log = MoreLog(c.log, rs, k) /\ o.ram = c.ram /\ o.base = c.base
  /\ o.mask = c.mask /\ o.fixed = c.fixed
  /\ Sane(o) /\ Goes(c, Begin(RecSteps(rs), k), o)

\* Another log, and what it restores.
LEMMA LogSane ==
  ASSUME NEW c, Sane(c), NEW p, p.vol = c.vol, p.ram = c.ram, p.fixed = c.fixed, p.clean = FALSE,
         p.log \in Seq(RecSet), p.base \in Volume, Agree(c.vol, p.base, p.mask),
         Restores(p.log, p.base, p.mask), Sound(p.base),
         \A s \in Slot : p.base.live[s] /\ <<"start", s>> \notin p.mask => s \in c.fixed
  PROVE  Sane(p)
<1>1. /\ c.vol \in Volume /\ c.ram \in Rams /\ c.fixed \subseteq Slot
      /\ \A f \in File, u \in c.fixed : Owns(c.ram.ino, f, u) => c.vol.start[u] = c.ram.ino[f].start
  BY DEF Sane
<1>2. \A f \in File, u \in p.fixed : Owns(p.ram.ino, f, u) => p.vol.start[u] = p.ram.ino[f].start
  <2>1. p.vol = c.vol /\ p.fixed = c.fixed /\ p.ram.ino = c.ram.ino
    OBVIOUS
  <2>2. ASSUME NEW f \in File, NEW u \in p.fixed, Owns(p.ram.ino, f, u)
        PROVE  p.vol.start[u] = p.ram.ino[f].start
    <3>1. u \in c.fixed /\ Owns(c.ram.ino, f, u)
      BY <2>1, <2>2
    <3>2. c.vol.start[u] = c.ram.ino[f].start
      BY <1>1, <3>1
    <3>3. QED BY <2>1, <3>2
  <2>3. QED BY <2>2
<1>3. p.clean \in BOOLEAN /\ (p.clean => \A f \in File, s \in Slot : Owns(p.ram.ino, f, s) => s \in p.fixed)
  OBVIOUS
<1>4. QED BY <1>1, <1>2, <1>3 DEF Sane

LEMMA RecStepsAre ==
  ASSUME NEW rs \in Seq(DeallocSet)
  PROVE  /\ rs \in Seq(RecSet) /\ RecSteps(rs) \in Seq(StepSet) /\ Len(RecSteps(rs)) = Len(rs)
         /\ \A k \in 1..Len(rs) : RecSteps(rs)[k] = Rec(rs[k])
<1>1. rs \in Seq(RecSet)
  BY DEF RecSet
<1>2. \A k \in 1..Len(rs) : Rec(rs[k]) \in StepSet
  BY <1>1, StepTypes DEF StepSet, DataSteps
<1>3. QED BY <1>1, <1>2 DEF RecSteps

LEMMA PartFirst ==
  ASSUME NEW c, Sane(c), NEW rs \in Seq(DeallocSet)
  PROVE  PartBy(c, rs, 0, c)
<1>1. rs \in Seq(RecSet) /\ RecSteps(rs) \in Seq(StepSet) /\ c.log \in Seq(RecSet)
  BY RecStepsAre DEF Sane
<1>2. Begin(rs, 0) = <<>> /\ Begin(RecSteps(rs), 0) = <<>>
  <2>1. Begin(rs, 0) \in Seq(RecSet) /\ Len(Begin(rs, 0)) = 0
    <3>1. 0 \in 0..Len(rs)
      OBVIOUS
    <3>2. QED BY <1>1, <3>1, BeginIs
  <2>2. Begin(RecSteps(rs), 0) \in Seq(StepSet) /\ Len(Begin(RecSteps(rs), 0)) = 0
    <3>1. 0 \in 0..Len(RecSteps(rs))
      BY <1>1
    <3>2. QED BY <1>1, <3>1, BeginIs
  <2>3. QED BY <2>1, <2>2
<1>3. MoreLog(c.log, rs, 0) = c.log
  BY <1>1, <1>2 DEF MoreLog
<1>4. Goes(c, <<>>, c)
  BY GoesNone
<1>5. QED BY <1>2, <1>3, <1>4 DEF PartBy

LEMMA PartNext ==
  ASSUME NEW c, Sane(c), NoGroup(c.log), NEW rs, NEW d, NEW cs, NEW nx, RecsOf(rs, d, cs, nx),
         NEW k \in 1..Len(rs), k # Len(rs), NEW o, PartBy(c, rs, k - 1, o)
  PROVE  \E p : PartBy(c, rs, k, p)
<1> DEFINE l == MoreLog(c.log, rs, k)
           p == Point(c.vol, l, c.ram, c.base, c.mask, c.fixed, FALSE)
           r == rs[k]
<1>1. /\ o.vol = c.vol /\ o.log = MoreLog(c.log, rs, k - 1) /\ o.ram = c.ram /\ o.base = c.base
      /\ o.mask = c.mask /\ o.fixed = c.fixed
      /\ Sane(o) /\ Goes(c, Begin(RecSteps(rs), k - 1), o)
  BY DEF PartBy
<1>2. rs \in Seq(DeallocSet) /\ rs \in Seq(RecSet) /\ r.kind = "dealloc" /\ c.log \in Seq(RecSet)
  BY RecStepsAre DEF RecsOf, Sane
<1>3. MoreLogIs(c.log, rs, k, l)
  BY <1>2, MoreLogFacts
<1>4. ~Stops(l, Len(l))
  BY <1>2, <1>3, PartOpen
<1>5. o.log \in Seq(RecSet) /\ r \in RecSet /\ l = Append(o.log, r) /\ l \in Seq(RecSet) /\ Len(l) # 0
  <2>1. Len(l) = Len(c.log) + k
    BY <1>3 DEF MoreLogIs
  <2>2. QED BY <1>1, <1>2, <1>3, <2>1 DEF MoreLogIs
<1> HIDE DEF l, r
<1>6. p.vol = c.vol /\ p.log = l /\ p.ram = c.ram /\ p.base = c.base /\ p.mask = c.mask
      /\ p.fixed = c.fixed /\ p.clean = FALSE
  BY DEF Point
<1> HIDE DEF p
<1>7. Restores(l, c.base, c.mask)
  <2>1. Restores(o.log, c.base, c.mask) /\ c.base \in Volume
    BY <1>1 DEF Sane
  <2>2. QED BY <1>2, <1>4, <1>5, <2>1, RestoresPart
<1>8. Sane(p)
  <2>1. /\ o.base \in Volume /\ Agree(o.vol, o.base, o.mask) /\ Sound(o.base)
        /\ \A s \in Slot : o.base.live[s] /\ <<"start", s>> \notin o.mask => s \in o.fixed
    BY <1>1 DEF Sane
  <2>2. QED BY <1>1, <1>5, <1>6, <1>7, <2>1, LogSane
<1>9. LogTo(o, Rec(r), p)
  <2>1. Rec(r).op = "log" /\ Rec(r).rec = r
    BY DEF Rec
  <2>2. ~Cuts(l)
    BY <1>4, <1>5 DEF Cuts, Stops, Last
  <2>3. View(p.base) = AfterRecord(p.log, View(o.base))
    BY <1>1, <1>6, <2>2 DEF AfterRecord
  <2>4. QED BY <1>1, <1>5, <1>6, <2>1, <2>3 DEF LogTo
<1>10. Reach(o, <<Rec(r)>>, p)
  BY <1>1, <1>8, <1>9, ReachOne DEF StepTo
<1>11. Begin(RecSteps(rs), k) = Begin(RecSteps(rs), k - 1) \o <<Rec(r)>> /\ <<Rec(r)>> \in Seq(StepSet)
  <2>1. RecSteps(rs) \in Seq(StepSet) /\ k \in 1..Len(RecSteps(rs)) /\ RecSteps(rs)[k] = Rec(r)
    BY <1>2, RecStepsAre DEF r
  <2>2. /\ Begin(RecSteps(rs), k) = Begin(RecSteps(rs), k - 1) \o <<RecSteps(rs)[k]>>
        /\ <<RecSteps(rs)[k]>> \in Seq(StepSet)
    BY <2>1, BeginNext
  <2>3. QED BY <2>1, <2>2
<1>12. Goes(c, Begin(RecSteps(rs), k), p)
  <2>1. Goes(o, <<Rec(r)>>, p)
    BY <1>10, <1>11 DEF Goes
  <2>2. Goes(c, Begin(RecSteps(rs), k - 1) \o <<Rec(r)>>, p)
    BY <1>1, <2>1, GoesConcat
  <2>3. QED BY <1>11, <2>2
<1>13. QED BY <1>6, <1>8, <1>12 DEF PartBy, l

\* The point behind the records t of a group that frees the clusters Z.
GroupDone(c, b, d, cs, t, p, Z, e) ==
  /\ Sane(e) /\ Goes(c, t, e) /\ e.vol = c.vol /\ e.ram = c.ram /\ e.fixed = c.fixed
  /\ e.base = Gone(b, d, cs, p) /\ e.mask = SourceSpots(d) \cup Freed(Z) /\ e.log # <<>>

\* What a mount shows does not change from one group to the next.
LEMMA BaseView ==
  ASSUME NEW b, NEW d, NEW cs, Deallocates(b, d, cs), NEW q \in 0..Len(cs), NEW p \in 1..Len(cs)
  PROVE  /\ View(Gone(b, d, cs, p)) = CutView(d, View(Base(b, d, cs, q)))
         /\ Gone(b, d, cs, p) \in Volume /\ Sound(Gone(b, d, cs, p))
         /\ Gone(b, d, cs, p).live = Base(b, d, cs, q).live
<1>1. /\ b \in Volume /\ d \in Places /\ cs \in Seq(Cluster)
      /\ \A i \in 1..Len(cs) : /\ Sound(Gone(b, d, cs, i))
                               /\ View(Gone(b, d, cs, i)) = CutView(d, View(b))
                               /\ CutView(d, View(Gone(b, d, cs, i))) = View(Gone(b, d, cs, i))
  BY DEF Deallocates
<1>2. \A i \in 0..Len(cs) : GoneAs(b, d, cs, i, Gone(b, d, cs, i))
  BY <1>1, GoneIs
<1>3. \A i \in 0..Len(cs) : Gone(b, d, cs, i) \in Volume /\ Gone(b, d, cs, i).live = b.live
  BY <1>2 DEF GoneAs
<1>4. p \in 0..Len(cs)
  OBVIOUS
<1>5. CASE q = 0
  BY <1>1, <1>3, <1>4, <1>5 DEF Base
<1>6. CASE q # 0
  <2>1. q \in 1..Len(cs)
    BY <1>6
  <2>2. QED BY <1>1, <1>3, <1>4, <1>6, <2>1 DEF Base
<1>7. QED BY <1>5, <1>6

LEMMA GroupLast ==
  ASSUME NEW b, NEW d, NEW cs, Deallocates(b, d, cs), NEW q \in 0..Len(cs), NEW p \in 1..Len(cs),
         NEW part, Taken(cs, p) = Taken(cs, q) \cup ToSet(part),
         NEW rs, RecsOf(rs, d, part, NextLeft(cs, p)),
         NEW c, AtGroup(c, b, d, cs, q), NEW o, PartBy(c, rs, Len(rs) - 1, o)
  PROVE  \E e : GroupDone(c, b, d, cs, RecSteps(rs), p, ToSet(part), e)
<1> DEFINE n == Len(rs)
           l == MoreLog(c.log, rs, n)
           Z == ToSet(part)
           v == Gone(b, d, cs, p)
           m == SourceSpots(d) \cup Freed(Z)
           e == Point(c.vol, l, c.ram, v, m, c.fixed, FALSE)
           r == rs[n]
<1>1. /\ o.vol = c.vol /\ o.log = MoreLog(c.log, rs, n - 1) /\ o.ram = c.ram /\ o.base = c.base
      /\ o.mask = c.mask /\ o.fixed = c.fixed
      /\ Sane(o) /\ Goes(c, Begin(RecSteps(rs), n - 1), o)
  BY DEF PartBy
<1>2. /\ Sane(c) /\ NoGroup(c.log) /\ c.base = Base(b, d, cs, q) /\ c.mask = Mask(d, q)
      /\ c.log \in Seq(RecSet) /\ c.vol \in Volume
  BY DEF AtGroup, Sane
<1>3. b \in Volume /\ d \in Places /\ cs \in Seq(Cluster) /\ Aside(d, cs)
  BY DEF Deallocates
<1>4. rs \in Seq(DeallocSet) /\ rs \in Seq(RecSet) /\ n \in 1..n /\ r.d = d /\ r.kind = "dealloc"
  <2>1. rs \in Seq(DeallocSet) /\ n \in Nat \ {0}
        /\ \A k \in 1..Len(rs) : rs[k].kind = "dealloc" /\ rs[k].d = d
    BY DEF RecsOf
  <2>2. QED BY <2>1, RecStepsAre
<1>5. MoreLogIs(c.log, rs, n, l)
  BY <1>2, <1>4, MoreLogFacts
<1>6. GroupEnds(l, d, Z, NextLeft(cs, p))
  BY <1>2, <1>5, PartWhole
<1>7. /\ o.log \in Seq(RecSet) /\ r \in RecSet /\ l = Append(o.log, r) /\ l \in Seq(RecSet)
      /\ Len(l) # 0 /\ l[Len(l)] = r
  <2>1. Len(l) = Len(c.log) + n
    BY <1>5 DEF MoreLogIs
  <2>2. o.log \in Seq(RecSet) /\ r \in RecSet /\ l = Append(o.log, r)
    BY <1>1, <1>5 DEF MoreLogIs
  <2> HIDE DEF l, r
  <2>3. QED BY <2>2
<1> HIDE DEF l, r, v, m
<1>8. /\ v \in Volume /\ Sound(v) /\ v.live = c.base.live /\ View(v) = CutView(d, View(c.base))
  BY <1>2, BaseView DEF v
<1>9. Restores(l, v, m)
  <2>1. Z \subseteq Taken(cs, p) /\ p \in 0..Len(cs) /\ v = Gone(b, d, cs, p)
    BY DEF v
  <2> HIDE DEF Z
  <2>2. Restores(l, v, SourceSpots(d) \cup Freed(Z))
    BY <1>3, <1>6, <1>7, <2>1, GoneRestores
  <2>3. QED BY <2>2 DEF m
<1>10. \A w \in Volume : Agree(w, c.base, c.mask) => Agree(w, v, m)
  <2>1. p \in 0..Len(cs) /\ v = Gone(b, d, cs, p)
    BY DEF v
  <2>2. Taken(cs, p) = Taken(cs, q) \cup Z
    OBVIOUS
  <2> HIDE DEF Z
  <2>3. ASSUME NEW w \in Volume, Agree(w, c.base, c.mask) PROVE Agree(w, v, m)
    <3>1. Agree(w, Base(b, d, cs, q), Mask(d, q))
      BY <1>2, <2>3
    <3>2. Agree(w, v, SourceSpots(d) \cup Freed(Z))
      BY <1>3, <2>1, <2>2, <3>1, GoneAgree
    <3>3. QED BY <3>2 DEF m
  <2>4. QED BY <2>3
<1>11. c.mask \subseteq m
  BY <1>2 DEF m, Mask
<1>12. /\ e.vol = c.vol /\ e.log = l /\ e.ram = c.ram /\ e.base = v /\ e.mask = m
       /\ e.fixed = c.fixed /\ e.clean = FALSE
  BY DEF Point
<1> HIDE DEF e
<1>13. /\ Agree(c.vol, c.base, c.mask)
       /\ \A s \in Slot : c.base.live[s] /\ <<"start", s>> \notin c.mask => s \in c.fixed
  BY <1>2 DEF Sane
<1>14. Sane(e)
  <2>1. Agree(c.vol, e.base, e.mask)
    BY <1>2, <1>10, <1>12, <1>13
  <2>2. \A s \in Slot : e.base.live[s] /\ <<"start", s>> \notin e.mask => s \in c.fixed
    BY <1>8, <1>11, <1>12, <1>13
  <2>3. QED BY <1>2, <1>7, <1>8, <1>9, <1>12, <2>1, <2>2, LogSane
<1>15. LogTo(o, Rec(r), e)
  <2>1. Rec(r).op = "log" /\ Rec(r).rec = r
    BY DEF Rec
  <2>2. Last(l) = r /\ (Cuts(l) <=> d.trunc /\ d.slot # None)
    <3>1. Last(l) = r
      BY <1>7 DEF Last
    <3>2. WholeGroup(l, Len(l))
      BY <1>6 DEF GroupEnds
    <3>3. QED BY <1>4, <3>1, <3>2 DEF Cuts, r
  <2>3. r.d = d
    BY <1>4 DEF r
  <2>4. View(e.base) = AfterRecord(e.log, View(o.base))
    BY <1>1, <1>8, <1>12, <2>2, <2>3 DEF AfterRecord, CutView
  <2>5. QED BY <1>1, <1>7, <1>10, <1>12, <2>1, <2>4 DEF LogTo
<1>16. Reach(o, <<Rec(r)>>, e)
  BY <1>1, <1>14, <1>15, ReachOne DEF StepTo
<1>17. Goes(c, RecSteps(rs), e)
  <2>1. RecSteps(rs) \in Seq(StepSet) /\ n \in 1..Len(RecSteps(rs)) /\ RecSteps(rs)[n] = Rec(r)
        /\ Len(RecSteps(rs)) = n
    BY <1>4, RecStepsAre DEF r
  <2>2. Begin(RecSteps(rs), n) = RecSteps(rs)
    BY <2>1, BeginAll
  <2>3. /\ Begin(RecSteps(rs), n) = Begin(RecSteps(rs), n - 1) \o <<RecSteps(rs)[n]>>
        /\ <<RecSteps(rs)[n]>> \in Seq(StepSet)
    BY <2>1, BeginNext
  <2>4. Goes(o, <<Rec(r)>>, e)
    BY <1>16, <2>1, <2>3 DEF Goes
  <2>5. Goes(c, Begin(RecSteps(rs), n - 1) \o <<Rec(r)>>, e)
    BY <1>1, <2>4, GoesConcat
  <2>6. QED BY <2>1, <2>2, <2>3, <2>5
<1>18. l # <<>>
  BY <1>7
<1>19. GroupDone(c, b, d, cs, RecSteps(rs), p, Z, e)
  BY <1>12, <1>14, <1>17, <1>18 DEF GroupDone, v, m
<1>20. QED BY <1>19

\* The records of a group.
LEMMA GroupGoes ==
  ASSUME NEW b, NEW d, NEW cs, Deallocates(b, d, cs), NEW q \in 0..Len(cs), NEW p \in 1..Len(cs),
         NEW part \in Seq(Cluster), part # <<>>, Taken(cs, p) = Taken(cs, q) \cup ToSet(part),
         NEW c, AtGroup(c, b, d, cs, q)
  PROVE  \E e : GroupDone(c, b, d, cs, DeallocRecs(d, part, NextLeft(cs, p)), p, ToSet(part), e)
<1>1. d \in Places /\ NextLeft(cs, p) \in Cluster \cup {TAIL}
  <2>1. d \in Places /\ cs \in Seq(Cluster) /\ d.succ \in Cluster \cup {TAIL}
    BY DEF Deallocates, Places
  <2>2. p \in 0..Len(cs)
    OBVIOUS
  <2>3. QED BY <2>1, <2>2, FollowType
<1>2. PICK rs : RecsOf(rs, d, part, NextLeft(cs, p)) /\ DeallocRecs(d, part, NextLeft(cs, p)) = RecSteps(rs)
  BY <1>1, DeallocRecsAre
<1>3. rs \in Seq(DeallocSet) /\ Len(rs) \in Nat \ {0}
  BY <1>2 DEF RecsOf
<1>4. Sane(c) /\ NoGroup(c.log)
  BY DEF AtGroup
<1> DEFINE N == Len(rs) - 1
           S == {k \in 0..N : \E o : PartBy(c, rs, k, o)}
<1>5. N \in Nat /\ 0 \in S
  BY <1>3, <1>4, PartFirst
<1>6. \A k \in 1..N : k - 1 \in S => k \in S
  <2>1. ASSUME NEW k \in 1..N, k - 1 \in S PROVE k \in S
    <3>1. PICK o : PartBy(c, rs, k - 1, o)
      BY <2>1
    <3>2. k \in 1..Len(rs) /\ k # Len(rs)
      BY <1>3
    <3>3. \E o2 : PartBy(c, rs, k, o2)
      BY <1>2, <1>4, <3>1, <3>2, PartNext
    <3>4. k \in 0..N
      BY <1>5
    <3>5. QED BY <3>3, <3>4
  <2>2. QED BY <2>1
<1>7. N \in S
  <2> HIDE DEF S, N
  <2>1. \A n \in 0..N : n \in S
    BY <1>5, <1>6, Reaches
  <2>2. QED BY <1>5, <2>1
<1>8. PICK o : PartBy(c, rs, Len(rs) - 1, o)
  BY <1>7
<1>9. QED BY <1>2, <1>8, GroupLast

\* A FAT with the clusters Z free.
FreedFat(fat, Z) == [x \in FatIndex |-> IF x \in Z THEN FREE ELSE fat[x]]
\* The point behind steps t that free the clusters Z.
FreesTo(c, t, Z, e) ==
  /\ Sane(e) /\ Goes(c, t, e) /\ e.log = c.log /\ e.ram = c.ram /\ e.base = c.base
  /\ e.mask = c.mask /\ e.fixed = c.fixed
  /\ e.vol.live = c.vol.live /\ e.vol.start = c.vol.start /\ e.vol.fat = FreedFat(c.vol.fat, Z)

LEMMA FreesGo ==
  ASSUME NEW c, Sane(c), NEW part \in Seq(Cluster), part # <<>>, Freed(ToSet(part)) \subseteq c.mask
  PROVE  \E e : FreesTo(c, Frees(part), ToSet(part), e)
<1> DEFINE t == Frees(part)
           e == Edited(c, t)
           w == c.vol
           Z == ToSet(part)
<1>1. w \in Volume /\ c.fixed \subseteq Slot
  BY DEF Sane
<1>2. t \in Seq(FreeEdits) /\ SpotsOf(t) = Freed(Z)
  BY FreesAre DEF Freed
<1>3. t # <<>>
  BY FreesType
<1>4. \A x \in Z : <<"fat", x>> \in c.mask
  BY SpotNames
<1>5. Puts(c, t) /\ AllSuit(c, t)
  BY <1>4, PutsFrees
<1> HIDE DEF t, w, Z
<1>6. /\ t \in Seq(Edits) /\ ApplyAll(w, t) \in Volume
      /\ \A x \in Spots : At(ApplyAll(w, t), x) = IF x \in SpotsOf(t) THEN FREE ELSE At(w, x)
  BY <1>1, <1>2, FreeAll
<1>7. Sane(e) /\ Goes(c, t, e)
  BY <1>3, <1>5, <1>6, GoesEdits
<1>8. /\ e.vol = ApplyAll(w, t) /\ e.log = c.log /\ e.ram = c.ram /\ e.base = c.base /\ e.mask = c.mask
      /\ e.fixed = c.fixed \cup Starts(t)
  BY EditedPoint DEF w
<1>9. Starts(t) = {}
  <2>1. \A s : <<"start", s>> \notin Freed(Z)
    BY DEF Freed
  <2>2. QED BY <1>2, <2>1 DEF Starts
<1> HIDE DEF e
<1> DEFINE u == ApplyAll(w, t)
<1>10. /\ w.fat \in FatMap /\ w.live \in [Slot -> BOOLEAN] /\ w.start \in [Slot -> Cluster \cup {TAIL}]
       /\ u.fat \in FatMap /\ u.live \in [Slot -> BOOLEAN] /\ u.start \in [Slot -> Cluster \cup {TAIL}]
  BY <1>1, <1>6, VolumeFields
<1>11. \A x \in Spots : At(u, x) = IF x \in Freed(Z) THEN FREE ELSE At(w, x)
  BY <1>2, <1>6
<1> HIDE DEF u
<1>12. ASSUME NEW x \in FatIndex PROVE u.fat[x] = IF x \in Z THEN FREE ELSE w.fat[x]
  <2>1. <<"fat", x>> \in Spots /\ At(u, <<"fat", x>>) = u.fat[x] /\ At(w, <<"fat", x>>) = w.fat[x]
    BY SpotIs
  <2>2. <<"fat", x>> \in Freed(Z) <=> x \in Z
    BY SpotNames
  <2>3. QED BY <1>11, <2>1, <2>2
<1>13. ASSUME NEW s \in Slot PROVE u.live[s] = w.live[s] /\ u.start[s] = w.start[s]
  <2>1. /\ <<"live", s>> \in Spots /\ At(u, <<"live", s>>) = u.live[s] /\ At(w, <<"live", s>>) = w.live[s]
        /\ <<"start", s>> \in Spots /\ At(u, <<"start", s>>) = u.start[s] /\ At(w, <<"start", s>>) = w.start[s]
    BY SpotIs
  <2>2. <<"live", s>> \notin Freed(Z) /\ <<"start", s>> \notin Freed(Z)
    BY SpotNames
  <2>3. QED BY <1>11, <2>1, <2>2
<1>14. u.fat = FreedFat(w.fat, Z)
  BY <1>10, <1>12 DEF FreedFat, FatMap
<1>15. u.live = w.live /\ u.start = w.start
  BY <1>10, <1>13
<1>16. FreesTo(c, t, Z, e)
  BY <1>7, <1>8, <1>9, <1>14, <1>15 DEF FreesTo, u, w
<1>17. QED BY <1>16 DEF t, Z

\* The entries of the inodes are up to date.
OwnersFixed(c) == \A f \in File, s \in Slot : Owns(c.ram.ino, f, s) => s \in c.fixed
MrcRec(d, nx) == [kind |-> "mrc", d |-> d, next |-> nx]
MrcSteps(d, nx) == <<Flush, Rec(MrcRec(d, nx))>>
MrcTo(c, b, d, cs, p, e) ==
  /\ Goes(c, MrcSteps(d, NextLeft(cs, p)), e) /\ e.vol = c.vol /\ e.ram = c.ram /\ e.fixed = c.fixed
  /\ e.log # <<>> /\ AtGroup(e, b, d, cs, p)

LEMMA MrcGoes ==
  ASSUME NEW b, NEW d, NEW cs, Deallocates(b, d, cs), NEW p \in 1..Len(cs),
         NEW c, Sane(c), OwnersFixed(c), NEW Z, c.base = Gone(b, d, cs, p),
         c.mask = SourceSpots(d) \cup Freed(Z), Z \subseteq Taken(cs, p), \A x \in Z : c.vol.fat[x] = FREE
  PROVE  \E e : MrcTo(c, b, d, cs, p, e)
<1> DEFINE r == MrcRec(d, NextLeft(cs, p))
           l == Append(c.log, r)
           v == Gone(b, d, cs, p)
           o == Point(c.vol, c.log, c.ram, c.base, c.mask, c.fixed, TRUE)
           e == Point(c.vol, l, c.ram, v, SourceSpots(d), c.fixed, FALSE)
<1>1. /\ b \in Volume /\ d \in Places /\ cs \in Seq(Cluster) /\ Aside(d, cs) /\ Sound(v)
      /\ p \in 0..Len(cs) /\ c.log \in Seq(RecSet)
  BY DEF Deallocates, Sane
<1>2. r \in MrcRecs /\ r.kind = "mrc" /\ r.d = d /\ r.next = NextLeft(cs, p)
  <2>1. d.succ \in Cluster \cup {TAIL}
    BY <1>1 DEF Places
  <2>2. NextLeft(cs, p) \in Cluster \cup {TAIL}
    BY <1>1, <2>1, FollowType
  <2>3. QED BY <1>1, <2>2 DEF MrcRecs, MrcRec
<1>3. r \in RecSet
  BY <1>2 DEF RecSet
<1>4. Sane(o) /\ Goes(c, <<Flush>>, o)
  <2>1. Sane(o) /\ Reach(c, <<Flush>>, o)
    BY FlushReach DEF OwnersFixed
  <2>2. <<Flush>> \in Seq(StepSet)
    BY StepTypes, OneType DEF StepSet, DataSteps
  <2>3. QED BY <2>1, <2>2 DEF Goes
<1>5. /\ o.vol = c.vol /\ o.log = c.log /\ o.ram = c.ram /\ o.base = c.base /\ o.mask = c.mask
      /\ o.fixed = c.fixed /\ o.clean = TRUE
  BY DEF Point
<1> HIDE DEF o, r
<1>6. l \in Seq(RecSet) /\ l[Len(l)] = r /\ l # <<>> /\ Last(l) = r
  BY <1>1, <1>3, RedoneAppend DEF Last
<1>7. GoneAs(b, d, cs, p, v)
  BY <1>1, GoneIs
<1>8. v \in Volume /\ v = Gone(b, d, cs, p) /\ c.base = v
  BY <1>7 DEF GoneAs
<1>9. Restores(l, v, SourceSpots(d))
  <2>1. l = Append(c.log, r)
    OBVIOUS
  <2> HIDE DEF l, v
  <2>2. QED BY <1>1, <1>2, <1>8, <2>1, MarkRestores
<1>10. Agree(c.vol, v, SourceSpots(d))
  <2>1. Agree(c.vol, v, SourceSpots(d) \cup Freed(Z))
    BY <1>8 DEF Sane
  <2>2. \A x \in Spots : At(v, x) = GoneAt(b, d, cs, p, x)
    BY <1>7 DEF GoneAs
  <2>3. Held(v) \subseteq Spots
    BY HeldIs
  <2> HIDE DEF v
  <2>4. ASSUME NEW x \in Held(v), x \notin SourceSpots(d) PROVE At(c.vol, x) = At(v, x)
    <3>1. CASE x \notin Freed(Z)
      BY <2>1, <2>4, <3>1 DEF Agree
    <3>2. CASE x \in Freed(Z)
      <4>1. PICK y \in Z : x = <<"fat", y>>
        BY <3>2 DEF Freed
      <4>2. x \in Freed(Taken(cs, p))
        BY <3>2 DEF Freed
      <4>3. At(v, x) = FREE
        BY <2>2, <2>3, <4>2 DEF GoneAt
      <4>4. y \in FatIndex
        BY <1>1, TakenIs, ConstantFacts
      <4>5. At(c.vol, x) = c.vol.fat[y]
        BY <4>1, <4>4, SpotIs
      <4>6. QED BY <4>1, <4>3, <4>5
    <3>3. QED BY <3>1, <3>2
  <2>5. QED BY <2>4 DEF Agree
<1> HIDE DEF l, v
<1>11. e.vol = c.vol /\ e.log = l /\ e.ram = c.ram /\ e.base = v /\ e.mask = SourceSpots(d)
       /\ e.fixed = c.fixed /\ e.clean = FALSE
  BY DEF Point
<1> HIDE DEF e
<1>12. Sane(e)
  <2>1. \A s \in Slot : c.base.live[s] /\ <<"start", s>> \notin c.mask => s \in c.fixed
    BY DEF Sane
  <2>2. \A s : <<"start", s>> \in c.mask => <<"start", s>> \in SourceSpots(d)
    BY SpotNames
  <2>3. \A s \in Slot : e.base.live[s] /\ <<"start", s>> \notin e.mask => s \in c.fixed
    BY <1>8, <1>11, <2>1, <2>2
  <2>4. Agree(c.vol, e.base, e.mask) /\ Restores(e.log, e.base, e.mask)
    BY <1>9, <1>10, <1>11
  <2>5. e.log \in Seq(RecSet) /\ e.base \in Volume /\ Sound(e.base)
    BY <1>1, <1>6, <1>8, <1>11 DEF v
  <2>6. QED BY <1>11, <2>3, <2>4, <2>5, LogSane
<1>13. LogTo(o, Rec(r), e)
  <2>1. Rec(r).op = "log" /\ Rec(r).rec = r
    BY DEF Rec
  <2>2. ~Cuts(l)
    BY <1>2, <1>6 DEF Cuts
  <2>3. View(e.base) = AfterRecord(e.log, View(o.base))
    BY <1>5, <1>8, <1>11, <2>2 DEF AfterRecord
  <2>4. QED BY <1>5, <1>11, <2>1, <2>3 DEF LogTo, l
<1>14. Goes(o, <<Rec(r)>>, e)
  <2>1. Reach(o, <<Rec(r)>>, e)
    BY <1>4, <1>12, <1>13, ReachOne DEF StepTo
  <2>2. <<Rec(r)>> \in Seq(StepSet)
    BY <1>3, StepTypes, OneType DEF StepSet, DataSteps
  <2>3. QED BY <2>1, <2>2 DEF Goes
<1>15. Goes(c, MrcSteps(d, NextLeft(cs, p)), e)
  <2>1. Goes(c, <<Flush>> \o <<Rec(r)>>, e)
    BY <1>4, <1>14, GoesConcat
  <2>2. Flush \in StepSet /\ Rec(r) \in StepSet
    BY <1>3, StepTypes DEF StepSet, DataSteps
  <2>3. <<Flush, Rec(r)>> = <<Flush>> \o <<Rec(r)>>
    BY <2>2, TwoSplit
  <2>4. QED BY <2>1, <2>3 DEF MrcSteps, r
<1>16. AtGroup(e, b, d, cs, p)
  <2>1. NoGroup(e.log)
    BY <1>2, <1>6, <1>11 DEF NoGroup
  <2>2. p # 0
    OBVIOUS
  <2>3. QED BY <1>11, <1>12, <2>1, <2>2 DEF AtGroup, Base, Mask, v
<1>17. MrcTo(c, b, d, cs, p, e)
  BY <1>6, <1>11, <1>15, <1>16 DEF MrcTo
<1>18. QED BY <1>17

\* The steps of the group behind the first q clusters, up to the p-th.
GroupSteps(d, cs, q, p) ==
  (DeallocRecs(d, Piece(cs, q + 1, p), NextLeft(cs, p)) \o Frees(Piece(cs, q + 1, p)))
    \o If(p < Len(cs), MrcSteps(d, NextLeft(cs, p)))
\* How far n groups reach.
GroupStop(cs, n) == IF n * GroupSize < Len(cs) THEN n * GroupSize ELSE Len(cs)

LEMMA FreeGroupIs ==
  ASSUME NEW d, NEW cs \in Seq(Cluster), NEW n \in Nat \ {0}, (n - 1) * GroupSize < Len(cs),
         NEW q, q = GroupStop(cs, n - 1), NEW p, p = GroupStop(cs, n)
  PROVE  /\ q \in 0..Len(cs) /\ p \in 1..Len(cs) /\ q < p
         /\ FreeGroup(d, cs, n - 1) = GroupSteps(d, cs, q, p)
<1> DEFINE L == Len(cs)
           G == GroupSize
           g == n - 1
           to == IF L < (g * G + 1) + G THEN L ELSE (g * G + 1) + G - 1
<1>1. L \in Nat /\ G \in Nat \ {0} /\ g \in Nat /\ g * G < L /\ n \in Nat
  BY RfsAssumption DEF GroupSize
<1>2. q = g * G /\ p = IF n * G < L THEN n * G ELSE L
  BY <1>1 DEF GroupStop
<1>3. g * G \in Nat /\ n * G = g * G + G /\ n * G \in Nat
  <2>1. n = g + 1
    BY <1>1
  <2> HIDE DEF L, G, g
  <2>2. (g + 1) * G = g * G + G /\ g * G \in Nat
    BY <1>1
  <2>3. QED BY <1>1, <2>1, <2>2
<1>4. to = p
  <2> DEFINE a == g * G
             z == n * G
  <2>1. a \in Nat /\ z = a + G /\ z \in Nat /\ p = (IF z < L THEN z ELSE L)
        /\ to = IF L < (a + 1) + G THEN L ELSE (a + 1) + G - 1
    BY <1>2, <1>3
  <2> HIDE DEF a, z, L, G, to
  <2>2. QED BY <1>1, <2>1
<1>5. q \in 0..L /\ p \in 1..L /\ q < p
  <2> HIDE DEF L, G, g, to
  <2>1. QED BY <1>1, <1>2, <1>3
<1>6. FreeGroup(d, cs, g) =
        DeallocRecs(d, SubSeq(cs, q + 1, to), IF to < L THEN cs[to + 1] ELSE TAIL)
          \o Frees(SubSeq(cs, q + 1, to))
          \o If(to < L, <<Flush, Rec([kind |-> "mrc", d |-> d, next |-> IF to < L THEN cs[to + 1] ELSE TAIL])>>)
  BY <1>2 DEF FreeGroup
<1> HIDE DEF to
<1>7. FreeGroup(d, cs, g) = GroupSteps(d, cs, q, p)
  BY <1>4, <1>6 DEF GroupSteps, NextLeft, Piece, MrcSteps, MrcRec
<1>8. QED BY <1>5, <1>7

LEMMA TakenMore ==
  ASSUME NEW cs \in Seq(Cluster), NEW q \in 0..Len(cs), NEW p \in 1..Len(cs), q < p
  PROVE  /\ Piece(cs, q + 1, p) \in Seq(Cluster) /\ Piece(cs, q + 1, p) # <<>>
         /\ Taken(cs, p) = Taken(cs, q) \cup ToSet(Piece(cs, q + 1, p))
<1>1. PieceOf(Cluster, cs, q + 1, p)
  <2>1. q + 1 \in Nat /\ p \in Nat /\ q + 1 >= 1 /\ q + 1 <= p + 1 /\ p <= Len(cs)
    OBVIOUS
  <2>2. QED BY <2>1, PieceIs
<1>2. /\ Piece(cs, q + 1, p) \in Seq(Cluster) /\ Len(Piece(cs, q + 1, p)) = p - (q + 1) + 1
      /\ \A x : x \in ToSet(Piece(cs, q + 1, p)) <=> \E i \in (q + 1)..p : cs[i] = x
  BY <1>1 DEF PieceOf
<1>3. p - (q + 1) + 1 # 0 /\ p \in 0..Len(cs)
  OBVIOUS
<1>4. /\ \A x : x \in Taken(cs, p) <=> \E i \in 1..p : cs[i] = x
      /\ \A x : x \in Taken(cs, q) <=> \E i \in 1..q : cs[i] = x
  BY <1>3, TakenIs
<1>5. \A i : i \in 1..p <=> i \in 1..q \/ i \in (q + 1)..p
  OBVIOUS
<1>6. \A x : x \in Taken(cs, p) <=> x \in Taken(cs, q) \/ x \in ToSet(Piece(cs, q + 1, p))
  BY <1>2, <1>4, <1>5
<1>7. QED BY <1>2, <1>3, <1>6

\* The deallocation that began at c has come to the q-th cluster.
DoneTo(c, b, d, cs, q, e) ==
  /\ Sane(e) /\ e.ram = c.ram /\ e.fixed = c.fixed
  /\ e.vol.live = c.vol.live /\ e.vol.start = c.vol.start
  /\ e.vol.fat = FreedFat(c.vol.fat, Taken(cs, q)) /\ e.base = Base(b, d, cs, q)
  /\ q # 0 => SourceSpots(d) \subseteq e.mask /\ e.log # <<>>
  /\ q < Len(cs) => AtGroup(e, b, d, cs, q)

LEMMA FreedTwice ==
  ASSUME NEW fat, NEW X, NEW Y
  PROVE  FreedFat(FreedFat(fat, X), Y) = FreedFat(fat, X \cup Y)
BY DEF FreedFat

LEMMA GroupStepGoes ==
  ASSUME NEW b, NEW d, NEW cs, Deallocates(b, d, cs), NEW q \in 0..Len(cs), NEW p \in 1..Len(cs), q < p,
         NEW c, OwnersFixed(c), NEW e, DoneTo(c, b, d, cs, q, e)
  PROVE  \E o : DoneTo(c, b, d, cs, p, o) /\ Goes(e, GroupSteps(d, cs, q, p), o)
<1> DEFINE part == Piece(cs, q + 1, p)
           Z == ToSet(part)
           t == DeallocRecs(d, part, NextLeft(cs, p))
<1>1. /\ Sane(e) /\ e.ram = c.ram /\ e.fixed = c.fixed
      /\ e.vol.live = c.vol.live /\ e.vol.start = c.vol.start
      /\ e.vol.fat = FreedFat(c.vol.fat, Taken(cs, q))
      /\ AtGroup(e, b, d, cs, q)
  BY DEF DoneTo
<1>2. cs \in Seq(Cluster) /\ d \in Places /\ p \in 0..Len(cs)
  BY DEF Deallocates
<1>3. part \in Seq(Cluster) /\ part # <<>> /\ Taken(cs, p) = Taken(cs, q) \cup Z
  BY <1>2, TakenMore
<1>4. Taken(cs, p) \subseteq Cluster
  BY <1>2, TakenIs
<1> HIDE DEF part
<1>5. PICK e1 : GroupDone(e, b, d, cs, t, p, Z, e1)
  BY <1>1, <1>3, GroupGoes
<1>6. /\ Sane(e1) /\ Goes(e, t, e1) /\ e1.vol = e.vol /\ e1.ram = e.ram /\ e1.fixed = e.fixed
      /\ e1.base = Gone(b, d, cs, p) /\ e1.mask = SourceSpots(d) \cup Freed(Z) /\ e1.log # <<>>
  BY <1>5 DEF GroupDone
<1>7. Freed(Z) \subseteq e1.mask
  BY <1>6
<1>8. PICK e2 : FreesTo(e1, Frees(part), Z, e2)
  BY <1>3, <1>6, <1>7, FreesGo
<1> HIDE DEF Z, t
<1>9. /\ Sane(e2) /\ Goes(e1, Frees(part), e2) /\ e2.log = e1.log /\ e2.ram = e1.ram /\ e2.base = e1.base
      /\ e2.mask = e1.mask /\ e2.fixed = e1.fixed
      /\ e2.vol.live = e1.vol.live /\ e2.vol.start = e1.vol.start /\ e2.vol.fat = FreedFat(e1.vol.fat, Z)
  BY <1>8 DEF FreesTo
<1>10. Goes(e, t \o Frees(part), e2)
  BY <1>6, <1>9, GoesConcat
<1>11. e2.vol.fat = FreedFat(c.vol.fat, Taken(cs, p))
  BY <1>1, <1>3, <1>6, <1>9, FreedTwice
<1>12. p # 0 /\ Base(b, d, cs, p) = Gone(b, d, cs, p)
  BY DEF Base
<1>13. GroupSteps(d, cs, q, p) = (t \o Frees(part)) \o If(p < Len(cs), MrcSteps(d, NextLeft(cs, p)))
  BY DEF GroupSteps, part, t
<1>14. CASE p < Len(cs)
  <2>1. OwnersFixed(e2)
    BY <1>1, <1>6, <1>9 DEF OwnersFixed
  <2>2. Z \subseteq Taken(cs, p)
    BY <1>3
  <2>3. \A x \in Z : e2.vol.fat[x] = FREE
    BY <1>4, <1>9, <2>2, ConstantFacts DEF FreedFat
  <2>4. e2.base = Gone(b, d, cs, p) /\ e2.mask = SourceSpots(d) \cup Freed(Z)
    BY <1>6, <1>9
  <2>5. PICK o : MrcTo(e2, b, d, cs, p, o)
    BY <1>9, <2>1, <2>2, <2>3, <2>4, MrcGoes
  <2>6. /\ Goes(e2, MrcSteps(d, NextLeft(cs, p)), o) /\ o.vol = e2.vol /\ o.ram = e2.ram /\ o.fixed = e2.fixed
        /\ o.log # <<>> /\ AtGroup(o, b, d, cs, p)
    BY <2>5 DEF MrcTo
  <2>7. Goes(e, (t \o Frees(part)) \o MrcSteps(d, NextLeft(cs, p)), o)
    BY <1>10, <2>6, GoesConcat
  <2>8. GroupSteps(d, cs, q, p) = (t \o Frees(part)) \o MrcSteps(d, NextLeft(cs, p))
    BY <1>13, <1>14 DEF If
  <2>9. Sane(o) /\ o.base = Gone(b, d, cs, p) /\ o.mask = SourceSpots(d)
    BY <1>12, <2>6 DEF AtGroup, Base, Mask
  <2>10. DoneTo(c, b, d, cs, p, o)
    BY <1>1, <1>6, <1>9, <1>11, <1>12, <2>6, <2>9 DEF DoneTo
  <2>11. QED BY <2>7, <2>8, <2>10
<1>15. CASE ~(p < Len(cs))
  <2>1. GroupSteps(d, cs, q, p) = (t \o Frees(part)) \o <<>>
    BY <1>13, <1>15 DEF If
  <2>2. Goes(e, (t \o Frees(part)) \o <<>>, e2)
    BY <1>9, <1>10, GoesNone, GoesConcat
  <2>3. DoneTo(c, b, d, cs, p, e2)
    BY <1>1, <1>6, <1>9, <1>11, <1>12, <1>15 DEF DoneTo
  <2>4. QED BY <2>1, <2>2, <2>3
<1>16. QED BY <1>14, <1>15

\* __free_chain
LEMMA ChainGoes ==
  ASSUME NEW b, NEW d, NEW cs, cs # <<>>, Deallocates(b, d, cs),
         NEW c, OwnersFixed(c), AtGroup(c, b, d, cs, 0)
  PROVE  \E e : DoneTo(c, b, d, cs, Len(cs), e) /\ Goes(c, FreeChain(d, cs), e)
<1> DEFINE L == Len(cs)
           G == GroupSize
           K == (L + G - 1) \div G
           seqs == [g \in 1..K |-> FreeGroup(d, cs, g - 1)]
<1>1. cs \in Seq(Cluster) /\ d \in Places
  BY DEF Deallocates
<1>2. L \in Nat \ {0} /\ G \in Nat \ {0}
  BY <1>1, RfsAssumption DEF GroupSize
<1>3. K \in Nat /\ (K - 1) * G < L /\ L <= K * G
  <2> HIDE DEF L, G
  <2>1. QED BY <1>2, CeilDiv
<1>4. K # 0
  <2> HIDE DEF L, G, K
  <2>1. QED BY <1>2, <1>3
<1>5. FreeChain(d, cs) = FlattenSeq(seqs)
  BY DEF FreeChain
<1> HIDE DEF K
<1>6. ASSUME NEW n \in 1..K PROVE (n - 1) * G < L /\ n \in Nat \ {0} /\ n - 1 \in Nat
  <2> HIDE DEF L, G
  <2>1. n \in Nat \ {0} /\ K - n \in Nat /\ n - 1 \in Nat
    BY <1>3
  <2>2. (K - n) * G \in Nat /\ (K - n) * G = (K - 1) * G - (n - 1) * G
    BY <1>2, <1>3, <2>1
  <2>3. (n - 1) * G \in Nat /\ (K - 1) * G \in Int
    BY <1>2, <1>3, <2>1
  <2>4. QED BY <1>2, <1>3, <2>1, <2>2, <2>3
<1>7. seqs \in Seq(Seq(StepSet)) /\ Len(seqs) = K
      /\ \A n \in 1..K : seqs[n] = FreeGroup(d, cs, n - 1)
  <2>1. ASSUME NEW n \in 1..K PROVE FreeGroup(d, cs, n - 1) \in Seq(StepSet)
    <3>1. FreeGroup(d, cs, n - 1) \in Seq(DataSteps)
      BY <1>1, <1>6, FreeGroupType
    <3>2. QED BY <3>1 DEF StepSet
  <2>2. QED BY <1>3, <2>1
<1> HIDE DEF seqs, L, G
<1>8. PICK h \in Partials(seqs, StepSet) : Concatenates(h, seqs)
  BY <1>4, <1>7, FlattenSteps
<1>9. /\ h[1] = seqs[1] /\ \A i \in 2..K : h[i] = h[i - 1] \o seqs[i]
      /\ FlattenSeq(seqs) = h[K]
  BY <1>7, <1>8 DEF Concatenates
<1> DEFINE upto(n) == IF n = 0 THEN <<>> ELSE h[n]
           S == {n \in 0..K : \E e : Goes(c, upto(n), e) /\ DoneTo(c, b, d, cs, GroupStop(cs, n), e)}
<1>10. 0 \in S
  <2>1. GroupStop(cs, 0) = 0
    BY <1>2 DEF GroupStop, L, G
  <2>2. Sane(c) /\ c.base = Base(b, d, cs, 0)
    BY DEF AtGroup
  <2>3. Taken(cs, 0) = {}
    BY <1>1, TakenIs
  <2>4. c.vol.fat = FreedFat(c.vol.fat, {})
    <3>1. c.vol.fat \in FatMap
      BY <2>2, VolumeFields DEF Sane
    <3>2. QED BY <3>1 DEF FreedFat, FatMap
  <2>5. DoneTo(c, b, d, cs, 0, c)
    BY <2>2, <2>3, <2>4 DEF DoneTo
  <2>6. Goes(c, upto(0), c)
    BY <2>2, GoesNone
  <2>7. 0 \in 0..K
    BY <1>3
  <2> HIDE DEF upto
  <2>8. QED BY <2>1, <2>5, <2>6, <2>7
<1>11. \A n \in 1..K : n - 1 \in S => n \in S
  <2>1. ASSUME NEW n \in 1..K, n - 1 \in S PROVE n \in S
    <3> DEFINE q == GroupStop(cs, n - 1)
               p == GroupStop(cs, n)
    <3>1. PICK e : Goes(c, upto(n - 1), e) /\ DoneTo(c, b, d, cs, q, e)
      BY <2>1
    <3>2. /\ q \in 0..Len(cs) /\ p \in 1..Len(cs) /\ q < p
          /\ FreeGroup(d, cs, n - 1) = GroupSteps(d, cs, q, p)
      BY <1>1, <1>6, FreeGroupIs DEF L, G
    <3> HIDE DEF q, p
    <3>3. PICK o : DoneTo(c, b, d, cs, p, o) /\ Goes(e, GroupSteps(d, cs, q, p), o)
      BY <3>1, <3>2, GroupStepGoes
    <3>4. Goes(e, seqs[n], o)
      BY <1>7, <3>2, <3>3
    <3>5. Goes(c, upto(n - 1) \o seqs[n], o)
      BY <3>1, <3>4, GoesConcat
    <3>6. upto(n) = upto(n - 1) \o seqs[n]
      <4>1. CASE n = 1
        <5>1. seqs[1] \in Seq(StepSet)
          BY <1>7, <4>1
        <5>2. QED BY <1>9, <4>1, <5>1
      <4>2. CASE n # 1
        <5>1. n \in 2..K /\ n - 1 # 0 /\ n # 0
          BY <4>2
        <5>2. QED BY <1>9, <5>1
      <4>3. QED BY <4>1, <4>2
    <3>7. n \in 0..K
      OBVIOUS
    <3> HIDE DEF upto
    <3>8. Goes(c, upto(n), o)
      BY <3>5, <3>6
    <3>9. QED BY <3>3, <3>7, <3>8 DEF p
  <2>2. QED BY <2>1
<1>12. K \in S
  <2> HIDE DEF S
  <2>1. \A n \in 0..K : n \in S
    BY <1>3, <1>10, <1>11, Reaches
  <2>2. QED BY <1>3, <2>1
<1>13. GroupStop(cs, K) = Len(cs)
  <2>1. K * G \in Nat
    BY <1>2, <1>3
  <2>2. QED BY <1>2, <1>3, <2>1 DEF GroupStop, L, G
<1>14. upto(K) = FreeChain(d, cs)
  BY <1>4, <1>5, <1>9
<1> HIDE DEF upto
<1>15. QED BY <1>12, <1>13, <1>14
-----------------------------------------------------------------------------
=============================================================================
