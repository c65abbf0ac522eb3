--------------------------- MODULE PcbStoreProofs ---------------------------
(***************************************************************************)
(* Proofs about PcbStore, for every number of reserved blocks, tables and  *)
(* pages, and any number of updates and power losses, when no program and  *)
(* no erase fails (NoFaults): updates may be cut short anywhere, and the   *)
(* next mount may be too, yet every mount finds what the last update that  *)
(* returned has written.                                                   *)
(*                                                                         *)
(* The heart is Stable(p, m, s, o, top): flash p keeps table t in whole    *)
(* meta sets in block m[t], the last of them at offset o[t]; top is the    *)
(* table whose header names the spare s; and whatever the spare starts     *)
(* with is too old to matter or leads back to m.  ViewIs shows that a      *)
(* mount of such a flash loads those sets and takes those roles, and the   *)
(* lemmas after it that every operation of the flash, whole or torn, keeps *)
(* the flash Stable.  The last part is the refinement of DurableMeta.      *)
(***************************************************************************)
EXTENDS PcbStoreRefinement, TLAPS, WellFoundedInduction

(***************************************************************************)
(* Numbers.                                                                *)
(***************************************************************************)
\* Every non-empty set of natural numbers has a least element, and a bounded
\* one a greatest.
Less == OpToRel(<, Nat)

LEMMA Smallest ==
  ASSUME NEW S \in SUBSET Nat, S # {}
  PROVE  \E x \in S : \A y \in S : x <= y
<1>1. IsWellFoundedOn(Less, Nat)
  BY NatLessThanWellFounded DEF Less
<1>2. PICK x \in S : \A y \in S : ~(<<y, x>> \in Less)
  BY <1>1, WFMin
<1>3. ASSUME NEW y \in S, y < x PROVE <<y, x>> \in Less
  BY <1>3 DEF OpToRel, Less
<1>4. ASSUME NEW y \in S PROVE x <= y
  <2>1. ~(y < x)
    BY <1>2, <1>3
  <2>2. QED BY <2>1
<1>5. QED BY <1>4

LEMMA Largest ==
  ASSUME NEW n \in Nat, NEW S \in SUBSET (0 .. n), S # {}
  PROVE  \E x \in S : \A y \in S : y <= x
<1> DEFINE R == {n - x : x \in S}
<1>1. R \in SUBSET Nat /\ R # {}
  <2>1. ASSUME NEW x \in S PROVE n - x \in Nat
    OBVIOUS
  <2>2. QED BY <2>1
<1>2. PICK z \in R : \A y \in R : z <= y
  BY <1>1, Smallest
<1>3. PICK x \in S : z = n - x
  OBVIOUS
<1>4. ASSUME NEW y \in S PROVE y <= x
  <2>1. n - y \in R
    OBVIOUS
  <2>2. z <= n - y
    BY <1>2, <2>1
  <2>3. QED BY <1>3, <2>2
<1>5. QED BY <1>4

LEMMA LastIs ==
  ASSUME NEW S \in SUBSET Int, NEW m \in S, \A y \in S : y <= m
  PROVE  Last(S) = m
<1>1. ASSUME NEW x \in S, \A y \in S : x >= y PROVE x = m
  BY <1>1
<1>2. m >= m /\ \A y \in S : m >= y
  OBVIOUS
<1>3. Max(S) = m
  BY <1>1, <1>2 DEF Max
<1>4. QED BY <1>3 DEF Last

LEMMA LastRange ==
  ASSUME NEW n \in Nat, NEW S \in SUBSET (0 .. n)
  PROVE  /\ Last(S) \in -1 .. n
         /\ \A x \in S : x <= Last(S) /\ Last(S) \in S
<1>1. CASE S = {}
  BY <1>1 DEF Last
<1>2. CASE S # {}
  <2>1. PICK x \in S : \A y \in S : y <= x
    BY <1>2, Largest
  <2>2. S \in SUBSET Int
    OBVIOUS
  <2>3. Last(S) = x
    BY <2>1, <2>2, LastIs
  <2>4. QED BY <2>1, <2>3
<1>3. QED BY <1>1, <1>2

\* Division with remainder.
LEMMA Quotient ==
  ASSUME NEW m \in Nat, m > 0, NEW d \in Int, NEW r \in Int, m * d = r, 0 <= r, r < m
  PROVE  r = 0
<1>1. CASE d >= 1
  <2>1. m * d >= m
    BY <1>1
  <2>2. QED BY <2>1
<1>2. CASE d <= 0
  <2>1. m * d <= 0
    BY <1>2
  <2>2. QED BY <2>1
<1>3. QED BY <1>1, <1>2

LEMMA DivMod ==
  ASSUME NEW x \in Nat, NEW m \in Nat, m > 0
  PROVE  /\ x = m * (x \div m) + (x % m) /\ x \div m \in Int
         /\ x % m \in Int /\ x % m >= 0 /\ x % m < m
OBVIOUS

LEMMA Distribute ==
  ASSUME NEW q \in Int, NEW p \in Int, NEW m \in Int
  PROVE  m * q + m - m * p = m * (q + 1 - p)
OBVIOUS

LEMMA NextMultiple ==
  ASSUME NEW x \in Nat, NEW m \in Nat, m > 0, x % m = 0
  PROVE  (x + m) % m = 0
<1> DEFINE q == x \div m
           p == (x + m) \div m
           r == (x + m) % m
<1>1. x = m * q /\ q \in Int
  BY DivMod
<1>2. x + m = m * p + r /\ p \in Int /\ r \in Int /\ 0 <= r /\ r < m
  BY DivMod
<1> HIDE DEF q, p, r
<1>3. m * (q + 1 - p) = r
  BY <1>1, <1>2, Distribute
<1>4. q + 1 - p \in Int
  BY <1>1, <1>2
<1>5. r = 0
  BY <1>2, <1>3, <1>4, Quotient
<1>6. QED BY <1>5 DEF r

-----------------------------------------------------------------------------
(***************************************************************************)
(* Pages.                                                                  *)
(***************************************************************************)
Fixed == {Format["U"], Format["L"], Format["T"]}

\* A header: all it says of the reservoir is consistent.
Headers ==
  {h \in [k : {"hdr"}, sig : Kind, age : Nat, gage : Nat, tpcb : Rsv,
          ver : 0 .. MaxVer, rbn : SUBSET Rsv, bmf : {{}}, alloc : SUBSET Rsv] :
     /\ Fixed \subseteq h.alloc /\ h.rbn \subseteq h.alloc /\ h.rbn \cap Fixed = {}
     /\ h.sig = "L" => h.rbn = {}}
Pages == {Free, Junk, Body, Confirm} \cup Headers
Flash == [Rsv -> [PgOff -> Pages]]

LEMMA Numbers ==
  /\ MetaPgs \in Nat /\ MetaPgs > 0 /\ PgsPerPCB \in Nat /\ MetaPgs < PgsPerPCB
  /\ SetPgs \in Nat /\ SetPgs = MetaPgs + 1 /\ SetPgs > 1
  /\ MaxVer \in Nat /\ 0 \in PgOff /\ PgOff = 0 .. (PgsPerPCB - 1)
BY PageAssumption, BoundAssumption DEF SetPgs, PgOff

LEMMA PageKinds ==
  /\ Free.k = "free" /\ Junk.k = "junk" /\ Body.k = "body" /\ Confirm.k = "confirm"
  /\ Free # Junk /\ Free # Body /\ Free # Confirm
  /\ Junk # Body /\ Junk # Confirm /\ Body # Confirm
<1>1. /\ Free.k = "free" /\ Junk.k = "junk" /\ Body.k = "body" /\ Confirm.k = "confirm"
  BY DEF Free, Junk, Body, Confirm
<1>2. QED BY <1>1

LEMMA HdrPage ==
  ASSUME NEW x \in Pages
  PROVE  x.k = "hdr" <=> x \in Headers
BY PageKinds DEF Pages, Headers

-----------------------------------------------------------------------------
Aligned(o) == o % SetPgs = 0
IsHdr(x, t) == x.k = "hdr" /\ x.sig = t

\* Block b keeps table t in whole meta sets, the last of them at offset o.
Good(p, b, t, o) ==
  /\ o \in Nat /\ o + MetaPgs < PgsPerPCB /\ Aligned(o)
  /\ IsHdr(p[b][0], t) /\ IsHdr(p[b][o], t) /\ p[b][0].age <= p[b][o].age
  /\ p[b][o + MetaPgs] = Confirm
  /\ \A j \in PgOff : o <= j /\ j < o + MetaPgs => p[b][j] # Junk
  /\ \A j \in PgOff : j > o + MetaPgs => p[b][j] # Confirm

NoConfirm(p, b) == \A j \in PgOff : p[b][j] # Confirm

LEMMA ConfirmScan ==
  ASSUME NEW b \in Rsv
  PROVE  /\ LastConfirmOff[b] \in -1 .. (PgsPerPCB - 1)
         /\ \A i \in PgOff : (i + 1) % SetPgs = 0 /\ page[b][i] # Free
                               => i <= LastConfirmOff[b]
<1> DEFINE S == {i \in PgOff : (i + 1) % SetPgs = 0 /\ page[b][i] # Free}
<1>1. LastConfirmOff[b] = Last(S)
  BY DEF LastConfirmOff
<1>2. PgsPerPCB - 1 \in Nat /\ S \in SUBSET (0 .. (PgsPerPCB - 1))
  BY Numbers
<1>3. QED BY <1>1, <1>2, LastRange

LEMMA ValidIs ==
  ASSUME NEW b \in Rsv, NEW t, NEW o, Good(page, b, t, o)
  PROVE  ValidOff[b] = o /\ LastConfirmOff[b] >= o + MetaPgs
<1> DEFINE l == LastConfirmOff[b]
           S == {i \in 0 .. (l - MetaPgs) : WholeSet(b, i)}
<1>1. ValidOff[b] = Last(S)
  BY DEF ValidOff
<1>2. o \in Nat /\ o + MetaPgs < PgsPerPCB /\ o + MetaPgs \in PgOff
  BY Numbers DEF Good
<1>3. (o + MetaPgs + 1) % SetPgs = 0
  <2>1. (o + SetPgs) % SetPgs = 0
    BY <1>2, Numbers, NextMultiple DEF Good, Aligned
  <2>2. o + MetaPgs + 1 = o + SetPgs
    BY <1>2, Numbers
  <2>3. QED BY <2>1, <2>2
<1>4. page[b][o + MetaPgs] # Free
  BY PageKinds DEF Good
<1>5. l \in Int /\ l <= PgsPerPCB - 1 /\ l >= o + MetaPgs
  BY <1>2, <1>3, <1>4, ConfirmScan, Numbers
<1> HIDE DEF l
<1>6. o \in S
  BY <1>2, <1>5, Numbers DEF Good, WholeSet
<1>7. ASSUME NEW i \in S PROVE i <= o
  <2>1. i + MetaPgs \in PgOff /\ page[b][i + MetaPgs] = Confirm
    BY <1>5, Numbers DEF WholeSet
  <2>2. ~(i + MetaPgs > o + MetaPgs)
    BY <2>1 DEF Good
  <2>3. QED BY <1>2, <2>2, Numbers
<1>8. S \in SUBSET Int
  OBVIOUS
<1>9. QED BY <1>1, <1>5, <1>6, <1>7, <1>8, LastIs DEF l

LEMMA ValidNone ==
  ASSUME NEW b \in Rsv, NoConfirm(page, b)
  PROVE  ValidOff[b] = -1
<1> DEFINE l == LastConfirmOff[b]
           S == {i \in 0 .. (l - MetaPgs) : WholeSet(b, i)}
<1>1. ValidOff[b] = Last(S)
  BY DEF ValidOff
<1>2. l \in Int /\ l <= PgsPerPCB - 1
  BY ConfirmScan, Numbers
<1> HIDE DEF l
<1>3. S = {}
  BY <1>2, Numbers DEF WholeSet, NoConfirm
<1>4. QED BY <1>1, <1>3 DEF Last

LEMMA NewestIs ==
  ASSUME NEW T, NEW f, NEW b \in HdrBlks(T), page[b][0][f] \in Nat,
         \A c \in HdrBlks(T) : c # b => page[c][0][f] \in Nat /\ page[c][0][f] < page[b][0][f]
  PROVE  Newest(T, f) = b
<1>1. b \in Nat
  BY RsvAssumption DEF HdrBlks
<1>2. ASSUME NEW c \in HdrBlks(T)
      PROVE  page[c][0][f] < page[b][0][f] \/ (page[c][0][f] = page[b][0][f] /\ b <= c)
  BY <1>1
<1>3. ASSUME NEW c \in HdrBlks(T),
             \A d \in HdrBlks(T) : page[d][0][f] < page[c][0][f] \/ (page[d][0][f] = page[c][0][f] /\ c <= d)
      PROVE  c = b
  BY <1>3, <1>1
<1>4. QED BY <1>2, <1>3 DEF Newest

-----------------------------------------------------------------------------
(***************************************************************************)
(* What the flash holds between any two of its operations.                 *)
(***************************************************************************)
\* The three blocks of the store: m[t] keeps table t, s is the spare.
Roles(m, s) ==
  /\ m \in [Kind -> Rsv] /\ s \in Rsv
  /\ m["U"] # m["L"] /\ s # m["U"] /\ s # m["L"]
  /\ {m["U"], m["L"], s} = Fixed

\* The spare starts with no header; with one that is older than the table's
\* block and than block top; or with the newest, of a rewrite under way.
Unused(p, s) == p[s][0].k # "hdr"
Retired(p, m, s, top) ==
  /\ p[s][0].k = "hdr" /\ p[s][0].gage < p[m[top]][0].gage
  /\ p[s][0].age < p[m[p[s][0].sig]][0].age
Begun(p, m, s, top) ==
  /\ p[s][0].k = "hdr" /\ p[s][0].gage > p[m[top]][0].gage
  /\ p[s][0].age > p[m[p[s][0].sig]][0].age
  /\ p[s][0].tpcb = m[p[s][0].sig] /\ NoConfirm(p, s)

SpareIs(p, m, s, top) == Unused(p, s) \/ Retired(p, m, s, top) \/ Begun(p, m, s, top)

\* top is the table whose block was rewritten last: its header names the spare.
Stable(p, m, s, o, top) ==
  /\ Roles(m, s) /\ o \in [Kind -> Nat] /\ top \in Kind
  /\ \A b \in Rsv \ Fixed : p[b][0].k # "hdr"
  /\ \A t \in Kind : Good(p, m[t], t, o[t])
  /\ \A t \in Kind : t # top => p[m[t]][0].gage < p[m[top]][0].gage
  /\ p[m[top]][0].tpcb = s
  /\ SpareIs(p, m, s, top)

LEMMA KindIs == Kind = {"U", "L"} /\ "U" \in Kind /\ "L" \in Kind
BY DEF Kind

\* What a mount finds on such a flash.
LEMMA HdrBlksAre ==
  ASSUME page \in Flash, bad = {}, NEW m, NEW s, NEW o, NEW top, Stable(page, m, s, o, top),
         NEW t \in Kind
  PROVE  /\ m[t] \in HdrBlks({t}) /\ m[t] \in HdrBlks(Kind)
         /\ \A c \in HdrBlks({t}) : c = m[t] \/ (c = s /\ IsHdr(page[s][0], t))
         /\ \A c \in HdrBlks(Kind) : c = m["U"] \/ c = m["L"] \/ (c = s /\ page[s][0].k = "hdr")
         /\ IsHdr(page[s][0], t) => s \in HdrBlks({t}) /\ s \in HdrBlks(Kind)
<1>1. /\ m[t] \in Rsv /\ s \in Rsv /\ IsHdr(page[m[t]][0], t)
      /\ \A u \in Kind : u # t => page[m[u]][0].sig # t
  BY DEF Stable, Roles, Good, IsHdr
<1>2. ASSUME NEW c \in Rsv, page[c][0].k = "hdr"
      PROVE  c = m["U"] \/ c = m["L"] \/ c = s
  BY <1>2 DEF Stable, Roles
<1>3. /\ m[t] \in HdrBlks({t}) /\ m[t] \in HdrBlks(Kind)
      /\ IsHdr(page[s][0], t) => s \in HdrBlks({t}) /\ s \in HdrBlks(Kind)
  BY <1>1 DEF HdrBlks, IsHdr
<1>4. ASSUME NEW c \in HdrBlks({t})
      PROVE  c = m[t] \/ (c = s /\ IsHdr(page[s][0], t))
  BY <1>1, <1>2, KindIs DEF HdrBlks, IsHdr
<1>5. ASSUME NEW c \in HdrBlks(Kind)
      PROVE  c = m["U"] \/ c = m["L"] \/ (c = s /\ page[s][0].k = "hdr")
  BY <1>1, <1>2 DEF HdrBlks
<1>6. QED BY <1>3, <1>4, <1>5

LEMMA HdrTypes ==
  ASSUME NEW p \in Flash, NEW b \in Rsv, NEW i \in PgOff, p[b][i].k = "hdr"
  PROVE  p[b][i] \in Headers /\ p[b][i].age \in Nat /\ p[b][i].gage \in Nat
         /\ p[b][i].sig \in Kind /\ p[b][i].tpcb \in Rsv
<1>1. p[b][i] \in Headers
  BY HdrPage DEF Flash
<1>2. QED BY <1>1 DEF Headers

\* The block with the newest header of a table, and of both.
LEMMA NewestAge ==
  ASSUME page \in Flash, bad = {}, NEW m, NEW s, NEW o, NEW top, Stable(page, m, s, o, top),
         NEW t \in Kind
  PROVE  Newest({t}, "age") = IF Begun(page, m, s, top) /\ page[s][0].sig = t
                              THEN s ELSE m[t]
<1>1. 0 \in PgOff /\ m[t] \in Rsv /\ s \in Rsv
  BY Numbers DEF Stable, Roles
<1>2. page[m[t]][0].age \in Nat /\ IsHdr(page[m[t]][0], t)
  BY <1>1, HdrTypes DEF Stable, Good, IsHdr
<1>3. IsHdr(page[s][0], t) => page[s][0].age \in Nat
  BY <1>1, HdrTypes DEF IsHdr
<1>4. /\ m[t] \in HdrBlks({t})
      /\ IsHdr(page[s][0], t) => s \in HdrBlks({t})
      /\ \A c \in HdrBlks({t}) : c = m[t] \/ (c = s /\ IsHdr(page[s][0], t))
  BY HdrBlksAre
<1>5. CASE Begun(page, m, s, top) /\ page[s][0].sig = t
  <2>1. s \in HdrBlks({t}) /\ page[s][0].age \in Nat
    BY <1>3, <1>4, <1>5 DEF Begun, IsHdr
  <2>2. page[m[t]][0].age < page[s][0].age
    BY <1>2, <1>5, <2>1 DEF Begun
  <2>3. \A c \in HdrBlks({t}) : c # s => page[c][0].age \in Nat /\ page[c][0].age < page[s][0].age
    BY <1>2, <1>4, <2>2
  <2>4. Newest({t}, "age") = s
    BY <2>1, <2>3, NewestIs
  <2>5. QED BY <1>5, <2>4
<1>6. CASE ~(Begun(page, m, s, top) /\ page[s][0].sig = t)
  <2>1. ASSUME IsHdr(page[s][0], t)
        PROVE  page[s][0].age < page[m[t]][0].age
    BY <1>6, <2>1 DEF Stable, SpareIs, Unused, Retired, IsHdr
  <2>2. \A c \in HdrBlks({t}) :
           c # m[t] => page[c][0].age \in Nat /\ page[c][0].age < page[m[t]][0].age
    BY <1>3, <1>4, <2>1
  <2>3. Newest({t}, "age") = m[t]
    BY <1>2, <1>4, <2>2, NewestIs
  <2>4. QED BY <1>6, <2>3
<1>7. QED BY <1>5, <1>6

LEMMA NewestGage ==
  ASSUME page \in Flash, bad = {}, NEW m, NEW s, NEW o, NEW top, Stable(page, m, s, o, top)
  PROVE  Newest(Kind, "gage") = IF Begun(page, m, s, top) THEN s ELSE m[top]
<1>1. 0 \in PgOff /\ top \in Kind /\ m \in [Kind -> Rsv] /\ s \in Rsv
  BY Numbers DEF Stable, Roles
<1>2. ASSUME NEW t \in Kind
      PROVE  page[m[t]][0].gage \in Nat /\ page[m[t]][0].k = "hdr" /\ m[t] \in HdrBlks(Kind)
  <2>1. page[m[t]][0].k = "hdr" /\ m[t] \in Rsv
    BY <1>1 DEF Stable, Good, IsHdr
  <2>2. page[m[t]][0].gage \in Nat
    BY <1>1, <2>1, HdrTypes
  <2>3. QED BY <2>1, <2>2, HdrBlksAre
<1>3. page[s][0].k = "hdr" => page[s][0].gage \in Nat /\ page[s][0].sig \in Kind /\ s \in HdrBlks(Kind)
  BY <1>1, HdrTypes DEF HdrBlks
<1>4. \A c \in HdrBlks(Kind) : c = m["U"] \/ c = m["L"] \/ (c = s /\ page[s][0].k = "hdr")
  BY HdrBlksAre, KindIs
<1>5. ASSUME NEW t \in Kind, t # top
      PROVE  page[m[t]][0].gage < page[m[top]][0].gage
  BY <1>5 DEF Stable
<1>6. CASE Begun(page, m, s, top)
  <2>1. page[s][0].k = "hdr" /\ page[m[top]][0].gage < page[s][0].gage /\ page[s][0].gage \in Nat
    BY <1>1, <1>2, <1>3, <1>6 DEF Begun
  <2>2. ASSUME NEW t \in Kind PROVE page[m[t]][0].gage < page[s][0].gage
    BY <1>1, <1>2, <1>5, <2>1
  <2>3. \A c \in HdrBlks(Kind) : c # s => page[c][0].gage \in Nat /\ page[c][0].gage < page[s][0].gage
    BY <1>2, <1>4, <2>2, KindIs
  <2>4. QED BY <1>3, <1>6, <2>1, <2>3, NewestIs
<1>7. CASE ~Begun(page, m, s, top)
  <2>1. page[s][0].k = "hdr" => page[s][0].gage < page[m[top]][0].gage
    BY <1>7 DEF Stable, SpareIs, Unused, Retired
  <2>2. \A c \in HdrBlks(Kind) :
          c # m[top] => page[c][0].gage \in Nat /\ page[c][0].gage < page[m[top]][0].gage
    BY <1>2, <1>3, <1>4, <1>5, <2>1, KindIs
  <2>3. QED BY <1>1, <1>2, <1>7, <2>2, NewestIs
<1>8. QED BY <1>6, <1>7

\* It loads the last meta set of each table, and takes the other block for spare.
LEMMA LocateMain ==
  ASSUME NEW t \in Kind, NEW b \in Rsv, NEW o, NEW s \in Rsv, Good(page, b, t, o)
  PROVE  Locate[[tab |-> t, cur |-> b, spare |-> s]] = Place(b, o, s)
<1>1. ValidOff[b] = o
  BY ValidIs
<1>2. o >= 0
  BY DEF Good
<1>3. QED BY <1>1, <1>2 DEF Locate

LEMMA LocateSpare ==
  ASSUME NEW t \in Kind, NEW b \in Rsv, NEW o, NEW s \in Rsv, NoConfirm(page, s),
         Good(page, b, t, o)
  PROVE  Locate[[tab |-> t, cur |-> s, spare |-> b]] = Place(b, o, s)
<1>1. ValidOff[b] = o /\ ValidOff[s] = -1
  BY ValidIs, ValidNone
<1>2. BelongsTo(b, o, {t})
  BY DEF Good, BelongsTo, IsHdr
<1>3. QED BY <1>1, <1>2 DEF Locate

LEMMA ViewIs ==
  ASSUME page \in Flash, bad = {}, NEW m, NEW s, NEW o, NEW top, Stable(page, m, s, o, top)
  PROVE  View = [ok |-> TRUE, spare |-> s, blk |-> m, hdr |-> [t \in Kind |-> page[m[t]][o[t]]]]
<1>1. /\ m \in [Kind -> Rsv] /\ s \in Rsv /\ o \in [Kind -> Nat] /\ top \in Kind
      /\ page[m[top]][0].tpcb = s
      /\ \A t \in Kind : Good(page, m[t], t, o[t])
  BY DEF Stable, Roles
<1>2. ASSUME NEW t \in Kind PROVE Place(m[t], o[t], s) \in Places
  BY <1>1, Numbers DEF Place, Places, Good
<1>3. HdrBlks({"U"}) # {} /\ HdrBlks({"L"}) # {}
  BY HdrBlksAre, KindIs
<1>4. LocateNewest("L", page[Newest(Kind, "gage")][0].tpcb)
        = IF Begun(page, m, s, top) /\ page[s][0].sig = "U"
          THEN Place(m["L"], o["L"], m["U"]) ELSE Place(m["L"], o["L"], s)
  <2>1. CASE ~Begun(page, m, s, top)
    <3>1. page[Newest(Kind, "gage")][0].tpcb = s /\ Newest({"L"}, "age") = m["L"]
      BY <1>1, <2>1, NewestGage, NewestAge, KindIs
    <3>2. QED BY <1>1, <2>1, <3>1, LocateMain, KindIs DEF LocateNewest
  <2>2. CASE Begun(page, m, s, top) /\ page[s][0].sig = "L"
    <3>1. page[Newest(Kind, "gage")][0].tpcb = m["L"] /\ Newest({"L"}, "age") = s
      BY <2>2, NewestGage, NewestAge, KindIs DEF Begun
    <3>2. NoConfirm(page, s)
      BY <2>2 DEF Begun
    <3>3. QED BY <1>1, <2>2, <3>1, <3>2, LocateSpare, KindIs DEF LocateNewest
  <2>3. CASE Begun(page, m, s, top) /\ page[s][0].sig = "U"
    <3>1. page[Newest(Kind, "gage")][0].tpcb = m["U"] /\ Newest({"L"}, "age") = m["L"]
      BY <2>3, NewestGage, NewestAge, KindIs DEF Begun
    <3>2. QED BY <1>1, <2>3, <3>1, LocateMain, KindIs DEF LocateNewest
  <2>4. Begun(page, m, s, top) => page[s][0].sig \in Kind
    BY <1>1, HdrTypes, Numbers DEF Begun
  <2>5. QED BY <2>1, <2>2, <2>3, <2>4, KindIs
<1>5. LocateNewest("U", IF Begun(page, m, s, top) /\ page[s][0].sig = "U" THEN m["U"] ELSE s)
        = Place(m["U"], o["U"], s)
  <2>1. CASE Begun(page, m, s, top) /\ page[s][0].sig = "U"
    <3>1. Newest({"U"}, "age") = s /\ NoConfirm(page, s)
      BY <2>1, NewestAge, KindIs DEF Begun
    <3>2. QED BY <1>1, <2>1, <3>1, LocateSpare, KindIs DEF LocateNewest
  <2>2. CASE ~(Begun(page, m, s, top) /\ page[s][0].sig = "U")
    <3>1. Newest({"U"}, "age") = m["U"]
      BY <2>2, NewestAge, KindIs
    <3>2. QED BY <1>1, <2>2, <3>1, LocateMain, KindIs DEF LocateNewest
  <2>3. QED BY <2>1, <2>2
<1> DEFINE x == IF Begun(page, m, s, top) /\ page[s][0].sig = "U" THEN m["U"] ELSE s
           l == Place(m["L"], o["L"], x)
           p == [t \in Kind |-> IF t = "L" THEN l ELSE Place(m["U"], o["U"], s)]
<1>6. l \in Places /\ l.spare = x
  BY <1>1, <1>2, KindIs DEF Place, Places
<1>7. LocateNewest("L", page[Newest(Kind, "gage")][0].tpcb) = l
  BY <1>4
<1>8. LoadAfter[l] = Loaded[p]
  BY <1>5, <1>6 DEF LoadAfter
<1>9. p \in [Kind -> Places] /\ \A t \in Kind : p[t].blk = m[t] /\ p[t].off = o[t]
  BY <1>2, <1>6, KindIs DEF Place
<1>10. p["U"].spare = s
  BY KindIs DEF Place
<1> HIDE DEF p, l, x
<1>11. \A t \in Kind : BelongsTo(p[t].blk, p[t].off, Kind)
  BY <1>1, <1>9 DEF BelongsTo, Good, IsHdr
<1>12. Loaded[p] = [ok |-> TRUE, spare |-> s, blk |-> [t \in Kind |-> p[t].blk],
                    hdr |-> [t \in Kind |-> page[p[t].blk][p[t].off]]]
  BY <1>9, <1>10, <1>11 DEF Loaded
<1>13. [t \in Kind |-> p[t].blk] = m
  BY <1>1, <1>9
<1>14. [t \in Kind |-> page[p[t].blk][p[t].off]] = [t \in Kind |-> page[m[t]][o[t]]]
  BY <1>9
<1>15. View = Loaded[p]
  BY <1>3, <1>7, <1>8 DEF View
<1>16. QED BY <1>12, <1>13, <1>14, <1>15

-----------------------------------------------------------------------------
(***************************************************************************)
(* What the operations of the flash do to it.                              *)
(***************************************************************************)
Programmed(p, b, i, x) == [p EXCEPT ![b][i] = x]

LEMMA ProgrammedIs ==
  ASSUME NEW p \in Flash, NEW b \in Rsv, NEW i \in PgOff, NEW x \in Pages
  PROVE  /\ Programmed(p, b, i, x) \in Flash
         /\ Programmed(p, b, i, x)[b][i] = x
         /\ \A j \in PgOff : j # i => Programmed(p, b, i, x)[b][j] = p[b][j]
         /\ \A c \in Rsv : c # b => Programmed(p, b, i, x)[c] = p[c]
BY DEF Programmed, Flash

\* The spare is what it was while its pages and the first pages of the tables'
\* blocks are.
LEMMA SpareKept ==
  ASSUME NEW p \in Flash, NEW q, NEW m, NEW s \in Rsv, NEW top \in Kind, SpareIs(p, m, s, top),
         q[s] = p[s], \A t \in Kind : q[m[t]][0] = p[m[t]][0]
  PROVE  SpareIs(q, m, s, top)
<1>1. 0 \in PgOff /\ q[m[top]][0] = p[m[top]][0]
  BY Numbers
<1>2. CASE Unused(p, s)
  BY <1>2 DEF Unused, SpareIs
<1>3. ASSUME p[s][0].k = "hdr"
      PROVE  q[m[p[s][0].sig]][0] = p[m[p[s][0].sig]][0]
  BY <1>1, <1>3, HdrTypes
<1>4. CASE Retired(p, m, s, top)
  BY <1>1, <1>3, <1>4 DEF Retired, SpareIs
<1>5. CASE Begun(p, m, s, top)
  BY <1>1, <1>3, <1>5 DEF Begun, SpareIs, NoConfirm
<1>6. QED BY <1>2, <1>4, <1>5 DEF SpareIs

\* What remains to show of a flash q after an operation on the flash p.
LEMMA StableFrom ==
  ASSUME NEW p, NEW q, NEW m, NEW s, NEW o, NEW e, NEW top, Stable(p, m, s, o, top),
         \A b \in Rsv \ Fixed : q[b][0].k # "hdr",
         \A t \in Kind : q[m[t]][0] = p[m[t]][0],
         e \in [Kind -> Nat], \A t \in Kind : Good(q, m[t], t, e[t]),
         SpareIs(q, m, s, top)
  PROVE  Stable(q, m, s, e, top)
<1>1. top \in Kind
  BY DEF Stable
<1>2. q[m[top]][0] = p[m[top]][0]
  BY <1>1
<1>3. \A t \in Kind : t # top => q[m[t]][0].gage < q[m[top]][0].gage
  BY <1>2 DEF Stable
<1>4. QED BY <1>1, <1>2, <1>3 DEF Stable

\* Blocks outside the store hold no headers, whatever is written to them.
LEMMA StableElsewhere ==
  ASSUME NEW p \in Flash, NEW q, NEW m, NEW s, NEW o, NEW top, Stable(p, m, s, o, top),
         \A b \in Fixed : q[b] = p[b],
         \A b \in Rsv \ Fixed : q[b][0].k # "hdr"
  PROVE  Stable(q, m, s, o, top)
<1>1. s \in Rsv /\ top \in Kind /\ o \in [Kind -> Nat] /\ q[s] = p[s]
  BY DEF Stable, Roles
<1>2. \A t \in Kind : q[m[t]] = p[m[t]]
  BY KindIs DEF Stable, Roles
<1>3. \A t \in Kind : Good(q, m[t], t, o[t])
  BY <1>2 DEF Stable, Good
<1>4. SpareIs(q, m, s, top)
  BY <1>1, <1>2, SpareKept DEF Stable
<1>5. QED BY <1>1, <1>2, <1>3, <1>4, StableFrom

\* An operation on the spare that leaves the tables' blocks alone.
LEMMA StableSpare ==
  ASSUME NEW p, NEW q, NEW m, NEW s, NEW o, NEW top, Stable(p, m, s, o, top),
         \A b \in Rsv : b # s => q[b] = p[b],
         SpareIs(q, m, s, top)
  PROVE  Stable(q, m, s, o, top)
<1>1. /\ s \in Rsv /\ s \in Fixed /\ o \in [Kind -> Nat]
      /\ \A t \in Kind : m[t] \in Rsv /\ m[t] # s
  BY KindIs DEF Stable, Roles
<1>2. \A t \in Kind : q[m[t]] = p[m[t]]
  BY <1>1
<1>3. \A t \in Kind : Good(q, m[t], t, o[t])
  BY <1>2 DEF Stable, Good
<1>4. \A b \in Rsv \ Fixed : q[b][0].k # "hdr"
  BY <1>1 DEF Stable
<1>5. QED BY <1>1, <1>2, <1>3, <1>4, StableFrom

\* A page behind the last meta set of a table's block is programmed.
LEMMA StableAppend ==
  ASSUME NEW p \in Flash, NEW m, NEW s, NEW o, NEW top, Stable(p, m, s, o, top),
         NEW t \in Kind, NEW i \in PgOff, i > o[t] + MetaPgs, NEW x \in Pages, x # Confirm
  PROVE  Stable(Programmed(p, m[t], i, x), m, s, o, top)
<1> DEFINE q == Programmed(p, m[t], i, x)
<1>1. /\ s \in Rsv /\ m[t] \in Fixed /\ m[t] \in Rsv /\ m[t] # s /\ o \in [Kind -> Nat] /\ top \in Kind
      /\ \A u \in Kind : u # t => m[u] # m[t] /\ m[u] \in Rsv
  BY KindIs DEF Stable, Roles
<1>2. /\ q[m[t]][i] = x
      /\ \A j \in PgOff : j # i => q[m[t]][j] = p[m[t]][j]
      /\ \A c \in Rsv : c # m[t] => q[c] = p[c]
  BY <1>1, ProgrammedIs
<1> HIDE DEF q
<1>3. o[t] \in Nat /\ i # 0 /\ 0 \in PgOff
  BY <1>1, Numbers
<1>4. Good(q, m[t], t, o[t])
  <2>1. Good(p, m[t], t, o[t])
    BY DEF Stable
  <2>2. /\ o[t] \in PgOff /\ o[t] + MetaPgs \in PgOff /\ i # o[t] /\ i # o[t] + MetaPgs
        /\ \A j \in PgOff : j < o[t] + MetaPgs => j # i
    BY <1>3, <2>1, Numbers DEF Good
  <2>3. QED BY <1>2, <1>3, <2>1, <2>2 DEF Good
<1>5. \A u \in Kind : Good(q, m[u], u, o[u])
  BY <1>1, <1>2, <1>4 DEF Stable, Good
<1>6. \A u \in Kind : q[m[u]][0] = p[m[u]][0]
  BY <1>1, <1>2, <1>3
<1>7. q[s] = p[s] /\ \A b \in Rsv \ Fixed : q[b][0].k # "hdr"
  BY <1>1, <1>2 DEF Stable
<1>8. SpareIs(q, m, s, top)
  BY <1>1, <1>6, <1>7, SpareKept DEF Stable
<1>9. Stable(q, m, s, o, top)
  BY <1>1, <1>5, <1>6, <1>7, <1>8, StableFrom
<1>10. QED BY <1>9 DEF q

\* The first n pages of a meta set of table t at offset i, behind them free pages.
Partial(p, b, t, i, n) ==
  /\ i \in Nat /\ i + MetaPgs < PgsPerPCB /\ Aligned(i)
  /\ n > 0 => IsHdr(p[b][i], t) /\ p[b][0].age <= p[b][i].age
  /\ \A j \in PgOff : i <= j /\ j < i + n => p[b][j] \notin {Junk, Confirm}
  /\ \A j \in PgOff : i + n <= j => p[b][j] = Free

\* The confirm page makes the set the last one of its block.
LEMMA Confirmed ==
  ASSUME NEW p \in Flash, NEW b \in Rsv, NEW t \in Kind, NEW i, Partial(p, b, t, i, MetaPgs),
         IsHdr(p[b][0], t)
  PROVE  Good(Programmed(p, b, i + MetaPgs, Confirm), b, t, i)
<1> DEFINE q == Programmed(p, b, i + MetaPgs, Confirm)
<1>1. i \in Nat /\ i + MetaPgs \in PgOff /\ Confirm \in Pages
  BY Numbers DEF Partial, Pages
<1>2. /\ q[b][i + MetaPgs] = Confirm
      /\ \A j \in PgOff : j # i + MetaPgs => q[b][j] = p[b][j]
  BY <1>1, ProgrammedIs
<1> HIDE DEF q
<1>3. /\ 0 \in PgOff /\ i \in PgOff /\ 0 # i + MetaPgs /\ i # i + MetaPgs
  BY <1>1, Numbers
<1>4. IsHdr(q[b][0], t) /\ IsHdr(q[b][i], t) /\ q[b][0].age <= q[b][i].age
  BY <1>2, <1>3, Numbers DEF Partial
<1>5. \A j \in PgOff : i <= j /\ j < i + MetaPgs => q[b][j] # Junk
  BY <1>1, <1>2, Numbers DEF Partial
<1>6. \A j \in PgOff : j > i + MetaPgs => q[b][j] # Confirm
  BY <1>1, <1>2, Numbers, PageKinds DEF Partial
<1>7. Good(q, b, t, i)
  BY <1>1, <1>2, <1>4, <1>5, <1>6 DEF Good, Partial
<1>8. QED BY <1>7 DEF q

LEMMA StableConfirm ==
  ASSUME NEW p \in Flash, NEW m, NEW s, NEW o, NEW top, Stable(p, m, s, o, top),
         NEW t \in Kind, NEW i, Partial(p, m[t], t, i, MetaPgs)
  PROVE  Stable(Programmed(p, m[t], i + MetaPgs, Confirm), m, s, [o EXCEPT ![t] = i], top)
<1> DEFINE q == Programmed(p, m[t], i + MetaPgs, Confirm)
           e == [o EXCEPT ![t] = i]
<1>1. /\ s \in Rsv /\ m[t] \in Fixed /\ m[t] \in Rsv /\ m[t] # s /\ o \in [Kind -> Nat] /\ top \in Kind
      /\ \A u \in Kind : u # t => m[u] # m[t] /\ m[u] \in Rsv
  BY KindIs DEF Stable, Roles
<1>2. i \in Nat /\ i + MetaPgs \in PgOff /\ Confirm \in Pages /\ 0 \in PgOff /\ i + MetaPgs # 0
  BY Numbers DEF Partial, Pages
<1>3. /\ \A j \in PgOff : j # i + MetaPgs => q[m[t]][j] = p[m[t]][j]
      /\ \A c \in Rsv : c # m[t] => q[c] = p[c]
  BY <1>1, <1>2, ProgrammedIs
<1>4. Good(q, m[t], t, i)
  BY <1>1, Confirmed DEF Stable, Good
<1>5. e \in [Kind -> Nat] /\ e[t] = i /\ \A u \in Kind : u # t => e[u] = o[u]
  BY <1>1, <1>2
<1> HIDE DEF q, e
<1>6. \A u \in Kind : Good(q, m[u], u, e[u])
  <2>1. ASSUME NEW u \in Kind, u # t PROVE Good(q, m[u], u, e[u])
    <3>1. Good(p, m[u], u, o[u]) /\ q[m[u]] = p[m[u]] /\ e[u] = o[u]
      BY <1>1, <1>3, <1>5, <2>1 DEF Stable
    <3>2. QED BY <3>1 DEF Good
  <2>2. QED BY <1>4, <1>5, <2>1
<1>7. \A u \in Kind : q[m[u]][0] = p[m[u]][0]
  BY <1>1, <1>2, <1>3
<1>8. q[s] = p[s] /\ \A b \in Rsv \ Fixed : q[b][0].k # "hdr"
  BY <1>1, <1>3 DEF Stable
<1>9. SpareIs(q, m, s, top)
  BY <1>1, <1>7, <1>8, SpareKept DEF Stable
<1>10. Stable(q, m, s, e, top)
  BY <1>5, <1>6, <1>7, <1>8, <1>9, StableFrom
<1>11. QED BY <1>10 DEF q, e

\* The first page of a rewrite on the spare, and those that follow.
LEMMA BegunFirst ==
  ASSUME NEW p \in Flash, NEW m, NEW s, NEW o, NEW top, Stable(p, m, s, o, top),
         NEW x \in Headers, NoConfirm(p, s),
         x.gage > p[m[top]][0].gage, x.age > p[m[x.sig]][0].age, x.tpcb = m[x.sig]
  PROVE  /\ Stable(Programmed(p, s, 0, x), m, s, o, top)
         /\ Begun(Programmed(p, s, 0, x), m, s, top)
<1> DEFINE q == Programmed(p, s, 0, x)
<1>1. /\ s \in Rsv /\ top \in Kind /\ \A t \in Kind : m[t] \in Rsv /\ m[t] # s
  BY KindIs DEF Stable, Roles
<1>2. 0 \in PgOff /\ x \in Pages /\ x.k = "hdr" /\ x.sig \in Kind
  BY Numbers DEF Pages, Headers
<1>3. /\ q[s][0] = x
      /\ \A j \in PgOff : j # 0 => q[s][j] = p[s][j]
      /\ \A c \in Rsv : c # s => q[c] = p[c]
  BY <1>1, <1>2, ProgrammedIs
<1> HIDE DEF q
<1>4. NoConfirm(q, s)
  BY <1>2, <1>3, PageKinds DEF NoConfirm
<1>5. q[m[top]] = p[m[top]] /\ q[m[x.sig]] = p[m[x.sig]]
  BY <1>1, <1>2, <1>3
<1>6. Begun(q, m, s, top)
  BY <1>2, <1>3, <1>4, <1>5 DEF Begun
<1>7. Stable(q, m, s, o, top)
  BY <1>3, <1>6, StableSpare DEF SpareIs
<1>8. QED BY <1>6, <1>7 DEF q

LEMMA BegunMore ==
  ASSUME NEW p \in Flash, NEW m, NEW s, NEW o, NEW top, Stable(p, m, s, o, top),
         Begun(p, m, s, top), NEW i \in PgOff, i > 0, NEW x \in Pages, x # Confirm
  PROVE  /\ Stable(Programmed(p, s, i, x), m, s, o, top)
         /\ Begun(Programmed(p, s, i, x), m, s, top)
<1> DEFINE q == Programmed(p, s, i, x)
<1>1. /\ s \in Rsv /\ top \in Kind /\ \A t \in Kind : m[t] \in Rsv /\ m[t] # s
  BY KindIs DEF Stable, Roles
<1>2. 0 \in PgOff /\ i # 0 /\ p[s][0].sig \in Kind
  BY <1>1, Numbers, HdrTypes DEF Begun
<1>3. /\ q[s][i] = x
      /\ \A j \in PgOff : j # i => q[s][j] = p[s][j]
      /\ \A c \in Rsv : c # s => q[c] = p[c]
  BY <1>1, ProgrammedIs
<1> HIDE DEF q
<1>4. NoConfirm(q, s)
  BY <1>3 DEF NoConfirm, Begun
<1>5. q[m[top]] = p[m[top]] /\ q[m[p[s][0].sig]] = p[m[p[s][0].sig]] /\ q[s][0] = p[s][0]
  BY <1>1, <1>2, <1>3
<1>6. Begun(q, m, s, top)
  BY <1>4, <1>5 DEF Begun
<1>7. Stable(q, m, s, o, top)
  BY <1>3, <1>6, StableSpare DEF SpareIs
<1>8. QED BY <1>6, <1>7 DEF q

\* The spare is erased, or what it starts with is spoilt.
LEMMA StableUnused ==
  ASSUME NEW p \in Flash, NEW q, NEW m, NEW s, NEW o, NEW top, Stable(p, m, s, o, top),
         \A b \in Rsv : b # s => q[b] = p[b], q[s][0].k # "hdr"
  PROVE  Stable(q, m, s, o, top)
BY StableSpare DEF SpareIs, Unused

\* The confirm page of a rewrite: the spare takes the place of the table's block.
LEMMA StableRewritten ==
  ASSUME NEW p \in Flash, NEW m, NEW s, NEW o, NEW top, Stable(p, m, s, o, top),
         NEW t \in Kind, Begun(p, m, s, top), p[s][0].sig = t, Partial(p, s, t, 0, MetaPgs)
  PROVE  Stable(Programmed(p, s, MetaPgs, Confirm), [m EXCEPT ![t] = s], m[t],
                [o EXCEPT ![t] = 0], t)
<1> DEFINE q == Programmed(p, s, MetaPgs, Confirm)
           n == [m EXCEPT ![t] = s]
           r == m[t]
           e == [o EXCEPT ![t] = 0]
<1>1. /\ m \in [Kind -> Rsv] /\ s \in Rsv /\ o \in [Kind -> Nat] /\ top \in Kind
      /\ s \in Fixed /\ \A u \in Kind : m[u] \in Rsv /\ m[u] \in Fixed /\ m[u] # s
      /\ \A u \in Kind : u # t => m[u] # m[t]
  BY KindIs DEF Stable, Roles
<1>2. MetaPgs \in PgOff /\ Confirm \in Pages /\ 0 \in PgOff /\ MetaPgs # 0
  BY Numbers DEF Pages
<1>3. /\ \A j \in PgOff : j # MetaPgs => q[s][j] = p[s][j]
      /\ \A c \in Rsv : c # s => q[c] = p[c]
  BY <1>1, <1>2, ProgrammedIs
<1>4. Good(q, s, t, 0)
  <2>1. 0 + MetaPgs = MetaPgs
    BY Numbers
  <2>2. Good(Programmed(p, s, 0 + MetaPgs, Confirm), s, t, 0)
    BY <1>1, Confirmed DEF Begun, IsHdr
  <2>3. QED BY <2>1, <2>2
<1>5. /\ n \in [Kind -> Rsv] /\ n[t] = s /\ \A u \in Kind : u # t => n[u] = m[u]
      /\ e \in [Kind -> Nat] /\ e[t] = 0 /\ \A u \in Kind : u # t => e[u] = o[u]
  BY <1>1
<1> HIDE DEF q, n, e
<1>6. Roles(n, r)
  BY <1>1, <1>5, KindIs DEF Stable, Roles
<1>7. \A u \in Kind : Good(q, n[u], u, e[u])
  <2>1. ASSUME NEW u \in Kind, u # t PROVE Good(q, n[u], u, e[u])
    <3>1. Good(p, m[u], u, o[u]) /\ q[m[u]] = p[m[u]] /\ e[u] = o[u] /\ n[u] = m[u]
      BY <1>1, <1>3, <1>5, <2>1 DEF Stable
    <3>2. QED BY <3>1 DEF Good
  <2>2. QED BY <1>4, <1>5, <2>1
<1>8. \A b \in Rsv \ Fixed : q[b][0].k # "hdr"
  BY <1>1, <1>3 DEF Stable
<1>9. /\ q[s][0] = p[s][0] /\ p[s][0].k = "hdr" /\ p[s][0].gage > p[m[top]][0].gage
      /\ p[s][0].age > p[m[t]][0].age /\ p[s][0].tpcb = m[t]
  BY <1>2, <1>3 DEF Begun
<1>10. ASSUME NEW u \in Kind
       PROVE  /\ q[m[u]][0] = p[m[u]][0] /\ p[m[u]][0].gage < p[s][0].gage
              /\ p[m[u]][0].k = "hdr" /\ p[m[u]][0].sig = u
  <2>1. q[m[u]] = p[m[u]] /\ p[m[u]][0].k = "hdr" /\ p[m[u]][0].sig = u /\ p[m[top]][0].k = "hdr"
    BY <1>1, <1>3 DEF Stable, Good, IsHdr
  <2>2. p[m[u]][0].gage \in Nat /\ p[s][0].gage \in Nat /\ p[m[top]][0].gage \in Nat
    BY <1>1, <1>2, <1>9, <2>1, HdrTypes
  <2>3. u # top => p[m[u]][0].gage < p[m[top]][0].gage
    BY DEF Stable
  <2>4. QED BY <1>9, <2>1, <2>2, <2>3
<1>11. \A u \in Kind : u # t => q[n[u]][0].gage < q[n[t]][0].gage
  BY <1>5, <1>9, <1>10
<1>12. q[n[t]][0].tpcb = r
  BY <1>5, <1>9
<1>13. SpareIs(q, n, r, t)
  <2>1. q[r][0].age < q[n[t]][0].age
    <3>1. p[m[t]][0].age \in Nat /\ p[s][0].age \in Nat
      BY <1>1, <1>2, <1>9, <1>10, HdrTypes
    <3>2. QED BY <1>5, <1>9, <1>10, <3>1
  <2>2. QED BY <1>5, <1>9, <1>10, <2>1 DEF SpareIs, Retired
<1>14. Stable(q, n, r, e, t)
  BY <1>5, <1>6, <1>7, <1>8, <1>11, <1>12, <1>13 DEF Stable
<1>15. QED BY <1>14 DEF q, n, e

-----------------------------------------------------------------------------
(***************************************************************************)
(* The inductive invariant.                                                *)
(***************************************************************************)
\* No program or erase fails, and only the blocks of the UPCB's table are
\* replaced: a locked-tight block is neither written nor erased.
NoFaults == MaxFail = 0 /\ Remaps \subseteq {"U"}

Working(t) == pc \in {"erase", "program"} /\ op = t
Making == pc \in {"erase", "program"} /\ how = "make"

\* The block a table is kept in: a rewrite leaves it where it was until the
\* confirm page is written, although RAM has swapped the roles.
Mains == [t \in Kind |-> IF Making /\ t = op THEN tpcb ELSE pcb[t]]
Spare == IF Making THEN pcb[op] ELSE tpcb

RamTypes ==
  /\ pcb \in [Kind -> Rsv] /\ tpcb \in Rsv
  /\ next \in [Kind -> 0 .. PgsPerPCB] /\ age \in [Kind -> Nat] /\ gage \in Nat
  /\ keep \in [Kind -> BOOLEAN] /\ first \in [Kind -> {0, 1}]
  /\ alloc \in SUBSET Rsv /\ rbn \in [Kind -> SUBSET Rsv] /\ ver \in [Kind -> 0 .. MaxVer]
  /\ bmf = {}
JobTypes ==
  /\ pc \in {"idle", "erase", "program", "off"} /\ op \in Kind
  /\ how \in {"append", "make"} /\ old \in Rsv /\ pg \in 0 .. MetaPgs
  /\ pc = "erase" => how = "make"
FlashTypes ==
  page \in Flash /\ bad = {} /\ fails = 0 /\ offs \in 0 .. MaxOff

\* The bit map covers the blocks of the store and the replacements, and these
\* are different blocks.
Lent == /\ Roles(pcb, tpcb) /\ Fixed \subseteq alloc
        /\ rbn["U"] \subseteq alloc /\ rbn["U"] \cap Fixed = {} /\ rbn["L"] = {}

\* The ages in RAM are at least those on flash.
Covered(m) ==
  /\ \A t \in Kind : page[m[t]][0].age <= age[t]
  /\ \A b \in Fixed : page[b][0].k = "hdr" => page[b][0].gage <= gage

\* A header says what RAM says of the table.
Tells(h, t) == h.ver = ver[t] /\ h.rbn = rbn[t] /\ (t = "U" => h.alloc = alloc)

\* A block that is kept is free behind its last set.
Tails ==
  \A t \in Kind : ~Working(t) =>
    /\ next[t] > 0
    /\ keep[t] => /\ Aligned(next[t])
                  /\ \A j \in PgOff : j >= next[t] => page[pcb[t]][j] = Free

\* The set being written.
Base == next[op] - pg
Job(top) ==
  /\ Partial(page, pcb[op], op, Base, pg)
  /\ how = "make" => Base = 0
  /\ pg > 0 => /\ Tells(page[pcb[op]][Base], op)
               /\ page[pcb[op]][Base].age <= age[op]
               /\ how = "make" => Begun(page, Mains, Spare, top)

Up(o, top) ==
  /\ Stable(page, Mains, Spare, o, top) /\ Covered(Mains)
  /\ \A t \in Kind : ~Working(t) => Tells(page[Mains[t]][o[t]], t)
  /\ pc = "program" => Job(top)
Restorable == \E m, s, o, top : Stable(page, m, s, o, top)

Inv ==
  /\ RamTypes /\ JobTypes /\ FlashTypes /\ Lent
  /\ pc # "off" => Tails /\ \E o, top : Up(o, top)
  /\ pc = "off" => Restorable

LEMMA FormatIs ==
  /\ Format["U"] \in Rsv /\ Format["L"] \in Rsv /\ Format["T"] \in Rsv
  /\ Format["U"] # Format["L"] /\ Format["U"] # Format["T"] /\ Format["L"] # Format["T"]
  /\ {Format[x] : x \in DOMAIN Format} = Fixed /\ Fixed \subseteq Rsv
<1>1. Format \in [{"U", "L", "T"} -> Rsv]
  BY FormatAssumption
<1>2. DOMAIN Format = {"U", "L", "T"}
  BY <1>1
<1>3. {Format[x] : x \in {"U", "L", "T"}} = Fixed
  BY DEF Fixed
<1>4. QED BY <1>1, <1>2, <1>3, FormatAssumption DEF Fixed

LEMMA FormatPages ==
  ASSUME NEW t \in Kind, NEW g \in Nat
  PROVE  /\ FormatHdr(t, g) \in Headers
         /\ FormatSet(FormatHdr(t, g)) \in [PgOff -> Pages]
<1>1. FormatHdr(t, g) \in Headers
  BY FormatIs, Numbers DEF FormatHdr, Headers
<1>2. QED BY <1>1 DEF FormatSet, Pages

LEMMA FormatGood ==
  ASSUME NEW b \in Rsv, NEW t \in Kind, NEW g \in Nat, NEW p,
         p[b] = FormatSet(FormatHdr(t, g))
  PROVE  /\ Good(p, b, t, 0) /\ p[b][0] = FormatHdr(t, g)
         /\ \A j \in PgOff : j >= SetPgs => p[b][j] = Free
<1>1. FormatHdr(t, g).k = "hdr" /\ FormatHdr(t, g).sig = t /\ FormatHdr(t, g).age = 1
  BY DEF FormatHdr
<1>2. p[b][0] = FormatHdr(t, g) /\ p[b][MetaPgs] = Confirm /\ MetaPgs \in PgOff
  BY Numbers DEF FormatSet
<1>3. \A j \in PgOff : /\ 0 < j /\ j < MetaPgs => p[b][j] = Body
                       /\ j > MetaPgs => p[b][j] = Free
  BY Numbers DEF FormatSet
<1>4. Aligned(0)
  BY Numbers DEF Aligned
<1>5. \A j \in PgOff : 0 <= j /\ j < 0 + MetaPgs => p[b][j] # Junk
  <2>1. ASSUME NEW j \in PgOff, j < MetaPgs PROVE p[b][j] # Junk
    <3>1. CASE j = 0
      BY <1>1, <1>2, <3>1, PageKinds
    <3>2. CASE j # 0
      BY <1>3, <2>1, <3>2, Numbers, PageKinds
    <3>3. QED BY <3>1, <3>2
  <2>2. QED BY <2>1, Numbers
<1>6. \A j \in PgOff : j > 0 + MetaPgs => p[b][j] # Confirm
  BY <1>3, Numbers, PageKinds
<1>7. 0 + MetaPgs = MetaPgs /\ 0 \in Nat
  BY Numbers
<1>8. Good(p, b, t, 0)
  BY <1>1, <1>2, <1>4, <1>5, <1>6, <1>7, Numbers DEF Good, IsHdr
<1>9. QED BY <1>2, <1>3, <1>8, Numbers

LEMMA InvInit == Init => Inv
<1> SUFFICES ASSUME Init PROVE Inv OBVIOUS
<1> DEFINE fu == FormatSet(FormatHdr("U", 2))
           fl == FormatSet(FormatHdr("L", 1))
           o == [t \in Kind |-> 0]
<1>1. /\ page = [b \in Rsv |-> IF b = Format["L"] THEN fl
                               ELSE IF b = Format["U"] THEN fu ELSE Blank(Free)]
      /\ pcb = [k \in Kind |-> Format[k]] /\ tpcb = Format["T"] /\ alloc = Fixed
      /\ next = [k \in Kind |-> SetPgs] /\ age = [k \in Kind |-> 1] /\ gage = 2
      /\ rbn = [k \in Kind |-> {}] /\ ver = [k \in Kind |-> 0] /\ keep = [k \in Kind |-> FALSE]
      /\ bmf = {} /\ pc = "idle"
  BY FormatIs DEF Init
<1>2. page[Format["U"]] = fu /\ page[Format["L"]] = fl
  BY <1>1, FormatIs
<1>3. \A b \in Rsv : b # Format["U"] /\ b # Format["L"] => page[b] = Blank(Free)
  BY <1>1
<1>4. Blank(Free) \in [PgOff -> Pages] /\ Blank(Free)[0] = Free
  BY Numbers DEF Blank, Pages
<1>5. page \in Flash
  <2>1. fu \in [PgOff -> Pages] /\ fl \in [PgOff -> Pages]
    BY FormatPages, KindIs
  <2>2. QED BY <1>1, <1>4, <2>1 DEF Flash
<1> HIDE DEF fu, fl
<1>6. RamTypes
  BY <1>1, FormatIs, Numbers DEF RamTypes, Kind, Init
<1>7. JobTypes /\ FlashTypes
  BY <1>1, <1>5, FormatIs, KindIs, Numbers, BoundAssumption DEF JobTypes, FlashTypes, Init
<1>8. Lent
  BY <1>1, FormatIs, KindIs DEF Lent, Roles, Fixed
<1>9. Mains = pcb /\ Spare = tpcb /\ pcb["U"] = Format["U"] /\ pcb["L"] = Format["L"]
  BY <1>1, KindIs DEF Mains, Spare, Making
<1>10. /\ Good(page, pcb["U"], "U", 0) /\ page[pcb["U"]][0] = FormatHdr("U", 2)
       /\ Good(page, pcb["L"], "L", 0) /\ page[pcb["L"]][0] = FormatHdr("L", 1)
  BY <1>2, <1>9, FormatIs, FormatGood, KindIs DEF fu, fl
<1>11. page[tpcb][0] = Free /\ \A b \in Rsv \ Fixed : page[b][0] = Free
  BY <1>1, <1>3, <1>4, FormatIs DEF Fixed
<1>12. Stable(page, Mains, Spare, o, "U")
  <2>1. SpareIs(page, pcb, tpcb, "U")
    BY <1>11, PageKinds DEF SpareIs, Unused
  <2>2. page[pcb["L"]][0].gage < page[pcb["U"]][0].gage /\ page[pcb["U"]][0].tpcb = tpcb
    BY <1>1, <1>10 DEF FormatHdr
  <2>3. \A b \in Rsv \ Fixed : page[b][0].k # "hdr"
    BY <1>11, PageKinds
  <2>4. \A t \in Kind : Good(page, pcb[t], t, o[t])
    BY <1>10, KindIs
  <2>5. QED BY <1>8, <1>9, <2>1, <2>2, <2>3, <2>4, KindIs DEF Stable, Lent
<1>13. Covered(Mains)
  <2>1. page[pcb["U"]][0].age = 1 /\ page[pcb["L"]][0].age = 1
        /\ page[pcb["U"]][0].gage = 2 /\ page[pcb["L"]][0].gage = 1
    BY <1>10 DEF FormatHdr
  <2>2. \A b \in Fixed : b = pcb["U"] \/ b = pcb["L"] \/ b = tpcb
    BY <1>8 DEF Lent, Roles
  <2>3. QED BY <1>1, <1>9, <1>11, <2>1, <2>2, KindIs, PageKinds DEF Covered
<1>14. \A t \in Kind : Tells(page[Mains[t]][o[t]], t)
  BY <1>1, <1>9, <1>10, KindIs, FormatIs DEF Tells, FormatHdr
<1>15. Tails
  BY <1>1, Numbers DEF Tails
<1>16. QED BY <1>1, <1>6, <1>7, <1>8, <1>12, <1>13, <1>14, <1>15 DEF Inv, Up

-----------------------------------------------------------------------------
(***************************************************************************)
(* The steps.                                                              *)
(***************************************************************************)
LEMMA MainsAre ==
  ASSUME RamTypes, op \in Kind
  PROVE  /\ ~Making => Mains = pcb /\ Spare = tpcb
         /\ Making => /\ Mains = [pcb EXCEPT ![op] = tpcb] /\ Spare = pcb[op]
                      /\ Mains[op] = tpcb /\ [Mains EXCEPT ![op] = Spare] = pcb
         /\ Mains \in [Kind -> Rsv] /\ \A t \in Kind : t # op => Mains[t] = pcb[t]
<1>1. Mains \in [Kind -> Rsv] /\ pcb \in [Kind -> Rsv]
  BY DEF RamTypes, Mains
<1>2. CASE ~Making
  BY <1>1, <1>2 DEF Mains, Spare
<1>3. CASE Making
  <2>1. Mains[op] = tpcb /\ Spare = pcb[op] /\ \A t \in Kind : t # op => Mains[t] = pcb[t]
    BY <1>3 DEF Mains, Spare
  <2>2. Mains = [pcb EXCEPT ![op] = tpcb] /\ [Mains EXCEPT ![op] = Spare] = pcb
    BY <1>1, <2>1
  <2>3. QED BY <1>1, <1>3, <2>1, <2>2
<1>4. QED BY <1>1, <1>2, <1>3

\* What the first step of an update does whichever way it goes on: the table
\* has a new version in RAM, and perhaps a new block.
LEMMA BeginCommon ==
  ASSUME Inv, NoFaults, NEW t \in Tables, NEW R \in SUBSET Rsv, Begin(t, R)
  PROVE  /\ pc = "idle" /\ t \in Kind /\ ver[t] < MaxVer /\ page' \in Flash
         /\ R \subseteq Rsv \ alloc /\ (t # "U" => R = {})
         /\ \A b \in Fixed : page'[b] = page[b]
         /\ \A b \in Rsv \ Fixed : page[b][0].k # "hdr" => page'[b][0].k # "hdr"
         /\ Fixed \subseteq alloc' /\ rbn'["U"] \subseteq alloc'
         /\ rbn'["U"] \cap Fixed = {} /\ rbn'["L"] = {}
         /\ \A u \in Kind : keep'[u] => keep[u]
         /\ \A u \in Kind : u # t => ver'[u] = ver[u] /\ rbn'[u] = rbn[u]
                                     /\ (u = "U" => alloc' = alloc)
         /\ rbn' \in [Kind -> SUBSET Rsv] /\ bmf' = bmf
<1>1. /\ pc = "idle" /\ ver[t] < MaxVer
      /\ R = {} \/ \E b \in Rsv : FirstFree(b) /\ R = {b} /\ t \in Remaps
      /\ page' = [b \in Rsv |-> IF b \in R THEN Blank(Junk) ELSE page[b]]
      /\ alloc' = alloc \cup R
      /\ rbn' = [rbn EXCEPT ![t] = rbn[t] \cup R] \/ rbn' = rbn
      /\ ver' = [ver EXCEPT ![t] = ver[t] + 1] /\ bmf' = bmf
      /\ keep' = IF first[t] = 0 THEN [keep EXCEPT !["U"] = FALSE] ELSE keep
  BY DEF Begin
<1>2. t \in Kind
  BY TablesAssumption
<1>3. R \subseteq Rsv \ alloc /\ (t # "U" => R = {})
  BY <1>1 DEF FirstFree, NoFaults
<1>4. R \cap Fixed = {} /\ Fixed \subseteq Rsv
  BY <1>3, FormatIs DEF Inv, Lent
<1>5. Blank(Junk) \in [PgOff -> Pages] /\ Blank(Junk)[0].k # "hdr"
  <2>1. Blank(Junk)[0] = Junk
    BY Numbers DEF Blank
  <2>2. QED BY <2>1, PageKinds DEF Blank, Pages
<1>6. page' \in Flash
  BY <1>1, <1>5 DEF Flash, Inv, FlashTypes
<1>7. /\ \A b \in Fixed : page'[b] = page[b]
      /\ \A b \in Rsv \ Fixed : page[b][0].k # "hdr" => page'[b][0].k # "hdr"
  BY <1>1, <1>4, <1>5
<1>8. /\ rbn \in [Kind -> SUBSET Rsv] /\ ver \in [Kind -> 0 .. MaxVer]
      /\ keep \in [Kind -> BOOLEAN]
  BY DEF Inv, RamTypes
<1>9. \A u \in Kind : keep'[u] => keep[u]
  BY <1>1, <1>8, KindIs
<1>10. /\ \A u \in Kind : u # t => ver'[u] = ver[u] /\ rbn'[u] = rbn[u]
                                   /\ (u = "U" => alloc' = alloc)
       /\ rbn'[t] = rbn[t] \cup R \/ rbn'[t] = rbn[t]
       /\ rbn' \in [Kind -> SUBSET Rsv]
  BY <1>1, <1>2, <1>3, <1>8
<1>11. /\ Fixed \subseteq alloc' /\ rbn'["U"] \subseteq alloc'
       /\ rbn'["U"] \cap Fixed = {} /\ rbn'["L"] = {}
  <2>1. /\ Fixed \subseteq alloc /\ rbn["U"] \subseteq alloc
        /\ rbn["U"] \cap Fixed = {} /\ rbn["L"] = {}
    BY DEF Inv, Lent
  <2>2. t = "U" \/ (t = "L" /\ R = {})
    BY <1>2, <1>3 DEF Kind
  <2>3. rbn'["U"] \subseteq rbn["U"] \cup R /\ rbn'["L"] = {}
    BY <1>10, <2>1, <2>2, KindIs
  <2>4. QED BY <1>1, <1>4, <2>1, <2>3
<1>12. QED BY <1>1, <1>2, <1>3, <1>6, <1>7, <1>9, <1>10, <1>11

LEMMA InvBegin ==
  ASSUME Inv, NoFaults, NEW t \in Tables, NEW R \in SUBSET Rsv, Begin(t, R)
  PROVE  Inv'
<1>1. /\ pc = "idle" /\ t \in Kind /\ ver[t] < MaxVer /\ page' \in Flash
      /\ R \subseteq Rsv \ alloc
      /\ \A b \in Fixed : page'[b] = page[b]
      /\ \A b \in Rsv \ Fixed : page[b][0].k # "hdr" => page'[b][0].k # "hdr"
  BY BeginCommon
<1>2. /\ Fixed \subseteq alloc' /\ rbn'["U"] \subseteq alloc'
      /\ rbn'["U"] \cap Fixed = {} /\ rbn'["L"] = {}
      /\ rbn' \in [Kind -> SUBSET Rsv] /\ bmf' = bmf
      /\ \A u \in Kind : keep'[u] => keep[u]
      /\ \A u \in Kind : u # t => ver'[u] = ver[u] /\ rbn'[u] = rbn[u]
                                  /\ (u = "U" => alloc' = alloc)
  BY BeginCommon
<1> DEFINE kp == IF first[t] = 0 THEN [keep EXCEPT !["U"] = FALSE] ELSE keep
<1>3. /\ alloc' = alloc \cup R
      /\ ver' = [ver EXCEPT ![t] = ver[t] + 1]
      /\ keep' = kp /\ first' = [first EXCEPT ![t] = 1] /\ op' = t /\ pg' = 0
      /\ UNCHANGED <<bad, age, gage, old, fails, offs>>
  BY DEF Begin
<1>4. RamTypes /\ JobTypes /\ FlashTypes /\ Lent /\ Tails
  BY <1>1 DEF Inv
<1>5. PICK o, top : Up(o, top)
  BY <1>1 DEF Inv
<1>6. Mains = pcb /\ Spare = tpcb
  BY <1>1, <1>4, MainsAre DEF Making, JobTypes
<1>7. /\ Stable(page, pcb, tpcb, o, top) /\ Covered(pcb)
      /\ \A u \in Kind : Tells(page[pcb[u]][o[u]], u)
  BY <1>1, <1>5, <1>6 DEF Up, Working
<1>8. Stable(page', pcb, tpcb, o, top)
  <2>1. \A b \in Rsv \ Fixed : page'[b][0].k # "hdr"
    BY <1>1, <1>7 DEF Stable
  <2>2. page \in Flash
    BY <1>4 DEF FlashTypes
  <2>3. QED BY <1>1, <1>7, <2>1, <2>2, StableElsewhere
<1>9. FlashTypes'
  BY <1>1, <1>3, <1>4 DEF FlashTypes
<1>10. \A u \in Kind : pcb[u] \in Fixed /\ page'[pcb[u]] = page[pcb[u]] /\ next[u] > 0
  BY <1>1, <1>4, KindIs DEF Lent, Roles, Tails, Working
<1>11. \A u \in Kind : page'[pcb[u]][0].age <= age'[u]
  BY <1>3, <1>7, <1>10 DEF Covered
<1>12. \A b \in Fixed : page'[b][0].k = "hdr" => page'[b][0].gage <= gage'
  BY <1>1, <1>3, <1>7 DEF Covered
<1>13. ASSUME NEW u \in Kind, u # t
       PROVE  /\ page'[pcb[u]][o[u]].ver = ver'[u] /\ page'[pcb[u]][o[u]].rbn = rbn'[u]
              /\ u = "U" => page'[pcb[u]][o[u]].alloc = alloc'
  BY <1>2, <1>7, <1>10, <1>13 DEF Tells
<1>14. ASSUME NEW u \in Kind, keep'[u]
       PROVE  /\ Aligned(next[u])
              /\ \A j \in PgOff : j >= next[u] => page'[pcb[u]][j] = Free
  BY <1>1, <1>2, <1>4, <1>10, <1>14 DEF Tails, Working
<1>15. RamTypes' /\ JobTypes' /\ Lent' /\ (pc' = "program" \/ pc' = "erase")
       /\ (pc' = "erase" => /\ how' = "make" /\ pcb' = [pcb EXCEPT ![t] = tpcb]
                            /\ tpcb' = pcb[t] /\ next' = [next EXCEPT ![t] = 0])
       /\ (pc' = "program" => /\ how' = "append" /\ Appends(t, kp)
                              /\ UNCHANGED <<pcb, tpcb, next>>)
  <2> HIDE DEF kp
  <2>1. \/ /\ Appends(t, kp)
           /\ pc' = "program" /\ how' = "append"
           /\ UNCHANGED <<pcb, tpcb, next>>
        \/ /\ pc' = "erase" /\ how' = "make" /\ SwapRoles(t)
    BY DEF Begin, kp
  <2>2. /\ alloc' \in SUBSET Rsv /\ rbn' \in [Kind -> SUBSET Rsv]
        /\ ver' \in [Kind -> 0 .. MaxVer] /\ keep' \in [Kind -> BOOLEAN]
        /\ first' \in [Kind -> {0, 1}] /\ age' \in [Kind -> Nat] /\ gage' \in Nat
        /\ bmf' = {}
    <3>1. ver[t] + 1 \in 0 .. MaxVer
      BY <1>1, <1>4, Numbers DEF RamTypes
    <3>2. keep' \in [Kind -> BOOLEAN]
      BY <1>3, <1>4, KindIs DEF RamTypes, kp
    <3>3. QED BY <1>1, <1>2, <1>3, <1>4, <3>1, <3>2 DEF RamTypes
  <2>3. ASSUME SwapRoles(t), pc' = "erase"
        PROVE  /\ pcb' = [pcb EXCEPT ![t] = tpcb] /\ tpcb' = pcb[t]
               /\ next' = [next EXCEPT ![t] = 0]
    BY <1>1, <1>10, <2>3 DEF SwapRoles
  <2>4. CASE pc' = "erase"
    <3>1. /\ how' = "make" /\ pcb' = [pcb EXCEPT ![t] = tpcb] /\ tpcb' = pcb[t]
          /\ next' = [next EXCEPT ![t] = 0]
      BY <2>1, <2>3, <2>4
    <3>2. RamTypes'
      BY <1>1, <1>4, <2>2, <3>1, Numbers DEF RamTypes
    <3>3. JobTypes'
      BY <1>1, <1>3, <1>4, <2>4, <3>1, Numbers DEF JobTypes
    <3>4. Roles(pcb', tpcb')
      BY <1>1, <1>4, <3>1, KindIs DEF Lent, Roles, RamTypes
    <3>5. QED BY <1>2, <2>4, <3>1, <3>2, <3>3, <3>4 DEF Lent
  <2>5. CASE pc' = "program"
    <3>1. how' = "append" /\ Appends(t, kp) /\ UNCHANGED <<pcb, tpcb, next>>
      BY <2>1, <2>5
    <3>2. RamTypes'
      BY <1>4, <2>2, <3>1 DEF RamTypes
    <3>3. JobTypes'
      BY <1>1, <1>3, <1>4, <2>5, <3>1, Numbers DEF JobTypes
    <3>4. Lent'
      BY <1>2, <1>4, <3>1 DEF Lent
    <3>5. QED BY <2>5, <3>1, <3>2, <3>3, <3>4
  <2>6. QED BY <2>1, <2>4, <2>5
<1>16. Mains' = pcb /\ Spare' = tpcb
  <2>1. CASE pc' = "program"
    <3>1. ~Making' /\ pcb' = pcb /\ tpcb' = tpcb /\ pcb \in [Kind -> Rsv]
      BY <1>4, <1>15, <2>1 DEF Making, RamTypes
    <3>2. QED BY <3>1 DEF Mains, Spare
  <2>2. CASE pc' = "erase"
    <3>1. Making' /\ op' = t /\ pcb' = [pcb EXCEPT ![t] = tpcb] /\ tpcb' = pcb[t]
          /\ pcb \in [Kind -> Rsv]
      BY <1>3, <1>4, <1>15, <2>2 DEF Making, RamTypes
    <3>2. Spare' = tpcb
      BY <1>1, <3>1 DEF Spare
    <3>3. Mains' = [u \in Kind |-> IF u = t THEN pcb[t] ELSE pcb[u]]
      BY <1>1, <3>1 DEF Mains
    <3>4. QED BY <3>1, <3>2, <3>3
  <2>3. QED BY <1>15, <2>1, <2>2
<1>17. Covered(Mains)' /\ \A u \in Kind : ~Working(u)' => u # t
  BY <1>3, <1>11, <1>12, <1>15, <1>16 DEF Covered, Working
<1>18. Tails'
  <2>1. ASSUME NEW u \in Kind, u # t PROVE pcb'[u] = pcb[u] /\ next'[u] = next[u]
    BY <1>4, <1>15, <2>1 DEF RamTypes
  <2>2. QED BY <1>10, <1>14, <1>17, <2>1 DEF Tails
<1>19. pc' = "program" => Job(top)'
  <2> SUFFICES ASSUME pc' = "program" PROVE Job(top)'
    OBVIOUS
  <2>1. /\ how' = "append" /\ pcb' = pcb /\ next' = next /\ pg' = 0 /\ op' = t
        /\ keep'[t] /\ next[t] < PgsPerPCB /\ PgsPerPCB - next[t] >= SetPgs
    BY <1>3, <1>15 DEF Appends
  <2>2. next[t] \in Nat /\ Base' = next[t]
    <3>1. next[t] \in Nat
      BY <1>1, <1>4, Numbers DEF RamTypes
    <3>2. QED BY <2>1, <3>1 DEF Base
  <2>3. Partial(page', pcb[t], t, next[t], 0)
    BY <1>1, <1>14, <2>1, <2>2, Numbers DEF Partial
  <2>4. QED BY <2>1, <2>2, <2>3 DEF Job
<1>20. Up(o, top)'
  BY <1>8, <1>13, <1>16, <1>17, <1>19 DEF Up, Tells
<1>21. QED BY <1>9, <1>15, <1>18, <1>20 DEF Inv

LEMMA BlankPages ==
  ASSUME NEW x \in {Free, Junk}
  PROVE  /\ Blank(x) \in [PgOff -> Pages] /\ Blank(x)[0].k # "hdr"
         /\ \A j \in PgOff : Blank(x)[j] = x
BY Numbers, PageKinds DEF Blank, Pages

LEMMA InvErase ==
  ASSUME Inv, EraseOK
  PROVE  Inv'
<1>1. /\ pc = "erase" /\ page' = [page EXCEPT ![pcb[op]] = Blank(Free)]
      /\ bad' = bad \ {pcb[op]} /\ next' = [next EXCEPT ![op] = 0] /\ pc' = "program" /\ pg' = 0
      /\ UNCHANGED <<pcb, tpcb, age, gage, keep, first, alloc, rbn, bmf, ver, op, how, old, fails, offs>>
  BY DEF EraseOK
<1>2. RamTypes /\ JobTypes /\ FlashTypes /\ Lent /\ Tails /\ how = "make" /\ op \in Kind
  BY <1>1 DEF Inv, JobTypes
<1>3. PICK o, top : Up(o, top)
  BY <1>1 DEF Inv
<1>4. Making /\ Spare = pcb[op] /\ Mains' = Mains /\ Spare' = Spare
  BY <1>1, <1>2 DEF Making, Mains, Spare
<1>5. Stable(page, Mains, Spare, o, top)
  BY <1>3 DEF Up
<1>6. Spare \in Rsv /\ \A t \in Kind : Mains[t] \in Rsv /\ Mains[t] # Spare
  BY <1>5, KindIs DEF Stable, Roles
<1>7. page \in [Rsv -> [PgOff -> Pages]]
  BY <1>2 DEF FlashTypes, Flash
<1>8. page' \in Flash /\ page'[Spare] = Blank(Free) /\ \A b \in Rsv : b # Spare => page'[b] = page[b]
  BY <1>1, <1>4, <1>6, <1>7, BlankPages DEF Flash
<1>9. page'[Spare][0].k # "hdr" /\ \A j \in PgOff : page'[Spare][j] = Free
  BY <1>8, BlankPages
<1>10. Stable(page', Mains, Spare, o, top)
  <2>1. page \in Flash
    BY <1>2 DEF FlashTypes
  <2>2. QED BY <1>5, <1>8, <1>9, <2>1, StableUnused
<1>11. RamTypes' /\ JobTypes' /\ FlashTypes' /\ Lent'
  <2>1. RamTypes'
    BY <1>1, <1>2, Numbers DEF RamTypes
  <2>2. JobTypes' /\ FlashTypes' /\ Lent'
    BY <1>1, <1>2, <1>8, Numbers DEF JobTypes, FlashTypes, Lent
  <2>3. QED BY <2>1, <2>2
<1>12. Covered(Mains)'
  <2>1. \A t \in Kind : page'[Mains[t]][0].age <= age'[t]
    BY <1>1, <1>3, <1>6, <1>8 DEF Up, Covered
  <2>2. \A b \in Fixed : page'[b][0].k = "hdr" => page'[b][0].gage <= gage'
    BY <1>1, <1>3, <1>8, <1>9, FormatIs DEF Up, Covered
  <2>3. QED BY <1>4, <2>1, <2>2 DEF Covered
<1>13. \A t \in Kind : (~Working(t))' => t # op /\ ~Working(t)
  BY <1>1 DEF Working
<1>14. \A t \in Kind : t # op => pcb[t] # pcb[op] /\ pcb[t] \in Rsv
  BY <1>2, KindIs DEF Lent, Roles
<1>15. Tails'
  <2>1. ASSUME NEW t \in Kind, t # op
        PROVE  next'[t] = next[t] /\ page'[pcb[t]] = page[pcb[t]] /\ ~Working(t)
    BY <1>1, <1>2, <1>4, <1>8, <1>14, <2>1 DEF RamTypes, Working
  <2>2. QED BY <1>1, <1>2, <1>13, <2>1 DEF Tails
<1>16. ASSUME NEW t \in Kind, t # op PROVE Tells(page[Mains[t]][o[t]], t)'
  <2>1. Tells(page[Mains[t]][o[t]], t) /\ page'[Mains[t]] = page[Mains[t]]
    BY <1>3, <1>6, <1>8, <1>16 DEF Up, Working
  <2>2. QED BY <1>1, <1>4, <2>1 DEF Tells
<1>17. Job(top)'
  <2>1. Base' = 0
    BY <1>1, <1>2 DEF Base, RamTypes
  <2>2. Partial(page', pcb[op], op, 0, 0)
    <3>1. Aligned(0) /\ 0 + MetaPgs < PgsPerPCB
      BY Numbers DEF Aligned
    <3>2. QED BY <1>4, <1>9, <3>1, Numbers DEF Partial
  <2>3. QED BY <1>1, <2>1, <2>2 DEF Job
<1>18. Up(o, top)'
  BY <1>4, <1>10, <1>12, <1>13, <1>16, <1>17 DEF Up
<1>19. QED BY <1>1, <1>11, <1>15, <1>18 DEF Inv

\* The page to program next.
LEMMA SetPageIs ==
  ASSUME Inv
  PROVE  /\ pg = 0 => /\ SetPage \in Headers /\ SetPage.sig = op /\ SetPage.age = age[op] + 1
                      /\ SetPage.gage = gage + 1 /\ SetPage.tpcb = tpcb /\ Tells(SetPage, op)
         /\ pg > 0 /\ pg < MetaPgs => SetPage = Body
         /\ pg = MetaPgs => SetPage = Confirm
         /\ SetPage \in Pages /\ (SetPage = Confirm => pg = MetaPgs) /\ SetPage # Junk
<1>1. RamTypes /\ JobTypes /\ Lent /\ pg \in 0 .. MetaPgs /\ op \in Kind
  BY DEF Inv, JobTypes
<1>2. ASSUME pg = 0
      PROVE  /\ SetPage \in Headers /\ SetPage.sig = op /\ SetPage.age = age[op] + 1
             /\ SetPage.gage = gage + 1 /\ SetPage.tpcb = tpcb /\ Tells(SetPage, op)
             /\ SetPage.k = "hdr"
  <2>1. SetPage = [k |-> "hdr", sig |-> op, age |-> age[op] + 1, gage |-> gage + 1, tpcb |-> tpcb,
                   ver |-> ver[op], rbn |-> rbn[op], bmf |-> {}, alloc |-> alloc]
    BY <1>1, <1>2 DEF SetPage, Hdr, Unlocked, RamTypes
  <2>2. /\ age[op] + 1 \in Nat /\ gage + 1 \in Nat /\ tpcb \in Rsv /\ ver[op] \in 0 .. MaxVer
        /\ rbn[op] \in SUBSET Rsv /\ alloc \in SUBSET Rsv
    BY <1>1 DEF RamTypes
  <2>3. /\ Fixed \subseteq alloc /\ rbn[op] \subseteq alloc /\ rbn[op] \cap Fixed = {}
        /\ op = "L" => rbn[op] = {}
    BY <1>1, KindIs DEF Lent
  <2>4. SetPage \in Headers
    BY <1>1, <2>1, <2>2, <2>3 DEF Headers
  <2>5. QED BY <2>1, <2>4 DEF Tells
<1>3. pg > 0 /\ pg < MetaPgs => SetPage = Body
  BY <1>1, Numbers DEF SetPage
<1>4. pg = MetaPgs => SetPage = Confirm
  BY <1>1, Numbers DEF SetPage
<1>5. SetPage \in Pages /\ (SetPage = Confirm => pg = MetaPgs) /\ SetPage # Junk
  BY <1>1, <1>2, <1>3, <1>4, Numbers, PageKinds DEF Pages
<1>6. QED BY <1>2, <1>3, <1>4, <1>5

\* The page an update programs next lies behind what a mount needs.
LEMMA NextPage ==
  ASSUME Inv, pc = "program", NEW o, NEW top, Up(o, top)
  PROVE  /\ next[op] \in PgOff /\ Base \in Nat /\ next[op] = Base + pg
         /\ pg \in 0 .. MetaPgs /\ op \in Kind /\ pcb[op] \in Rsv /\ pcb[op] \in Fixed
         /\ page[pcb[op]][next[op]] = Free
         /\ how = "append" => /\ Mains = pcb /\ Spare = tpcb
                              /\ o[op] \in Nat /\ Base > o[op] + MetaPgs
         /\ how = "make" => Base = 0 /\ Mains[op] = tpcb /\ Spare = pcb[op]
         /\ how = "append" \/ how = "make"
<1>1. /\ RamTypes /\ JobTypes /\ FlashTypes /\ Lent /\ Job(top)
      /\ pg \in 0 .. MetaPgs /\ op \in Kind /\ how \in {"append", "make"}
  BY DEF Inv, Up, JobTypes
<1>2. next[op] \in Nat /\ next[op] = Base + pg
  BY <1>1, Numbers DEF RamTypes, Base
<1>3. Partial(page, pcb[op], op, Base, pg)
  BY <1>1 DEF Job
<1>4. Base \in Nat /\ next[op] \in PgOff
  BY <1>1, <1>2, <1>3, Numbers DEF Partial
<1>5. page[pcb[op]][next[op]] = Free
  BY <1>2, <1>3, <1>4, Numbers DEF Partial
<1>6. pcb[op] \in Rsv /\ pcb[op] \in Fixed
  BY <1>1, KindIs DEF Lent, Roles
<1>7. ASSUME how = "append"
      PROVE  Mains = pcb /\ Spare = tpcb /\ o[op] \in Nat /\ Base > o[op] + MetaPgs
  <2>1. Mains = pcb /\ Spare = tpcb
    BY <1>1, <1>7, MainsAre DEF Making
  <2>2. Good(page, pcb[op], op, o[op])
    BY <1>1, <2>1 DEF Up, Stable
  <2>3. o[op] \in Nat /\ o[op] + MetaPgs \in PgOff /\ page[pcb[op]][o[op] + MetaPgs] = Confirm
    BY <2>2, Numbers DEF Good
  <2>4. ~(Base <= o[op] + MetaPgs)
    BY <1>1, <1>3, <1>4, <2>3, Numbers, PageKinds DEF Partial
  <2>5. QED BY <1>4, <2>1, <2>3, <2>4, Numbers
<1>8. ASSUME how = "make" PROVE Base = 0 /\ Mains[op] = tpcb /\ Spare = pcb[op]
  BY <1>1, <1>8, MainsAre DEF Making, Job
<1>9. QED BY <1>1, <1>2, <1>4, <1>5, <1>6, <1>7, <1>8

\* One more page of the set, whole or torn, leaves what a mount finds as it was,
\* until the confirm page puts the new set in its place.
LEMMA ProgramFlash ==
  ASSUME Inv, pc = "program", NEW o, NEW top, Up(o, top), NEW x \in {Free, Junk, SetPage}
  PROVE  LET q == Programmed(page, pcb[op], next[op], x)
         IN  /\ q \in Flash
             /\ x # Confirm => Stable(q, Mains, Spare, o, top)
             /\ x # Confirm /\ how = "make" /\ (pg > 0 \/ x = SetPage) => Begun(q, Mains, Spare, top)
             /\ x = Confirm /\ how = "make" => Stable(q, pcb, tpcb, [o EXCEPT ![op] = Base], op)
             /\ x = Confirm /\ how = "append" => Stable(q, pcb, tpcb, [o EXCEPT ![op] = Base], top)
<1> DEFINE i == next[op]
           b == pcb[op]
           q == Programmed(page, b, i, x)
<1>1. /\ i \in PgOff /\ Base \in Nat /\ i = Base + pg
      /\ pg \in 0 .. MetaPgs /\ op \in Kind /\ b \in Rsv
      /\ page[b][i] = Free
      /\ how = "append" => /\ Mains = pcb /\ Spare = tpcb
                           /\ o[op] \in Nat /\ Base > o[op] + MetaPgs
      /\ how = "make" => Base = 0 /\ Mains[op] = tpcb /\ Spare = b
      /\ how = "append" \/ how = "make"
  BY NextPage
<1>2. /\ Stable(page, Mains, Spare, o, top) /\ Covered(Mains) /\ Job(top) /\ page \in Flash
      /\ RamTypes
  BY DEF Up, Inv, FlashTypes
<1>3. x \in Pages /\ (x = Confirm => x = SetPage /\ pg = MetaPgs)
  BY SetPageIs, PageKinds DEF Pages
<1>4. q \in Flash
  BY <1>1, <1>2, <1>3, ProgrammedIs
<1> HIDE DEF q
<1>5. CASE x # Confirm /\ how = "append"
  <2>1. i > o[op] + MetaPgs
    BY <1>1, <1>5, Numbers
  <2>2. Stable(q, Mains, Spare, o, top)
    BY <1>1, <1>2, <1>3, <1>5, <2>1, StableAppend DEF q
  <2>3. QED BY <1>1, <1>4, <1>5, <2>2, PageKinds DEF q
<1>6. CASE x # Confirm /\ how = "make"
  <2>1. CASE pg > 0
    <3>1. Begun(page, Mains, Spare, top)
      BY <1>2, <1>6, <2>1 DEF Job
    <3>2. i > 0
      BY <1>1, <2>1
    <3>3. Stable(q, Mains, Spare, o, top) /\ Begun(q, Mains, Spare, top)
      BY <1>1, <1>2, <1>3, <1>6, <3>1, <3>2, BegunMore DEF q
    <3>4. QED BY <1>4, <1>6, <3>3, PageKinds DEF q
  <2>2. CASE pg = 0 /\ x = SetPage
    <3>1. /\ x \in Headers /\ x.sig = op /\ x.age = age[op] + 1 /\ x.gage = gage + 1 /\ x.tpcb = tpcb
      BY <2>2, SetPageIs
    <3>2. i = 0 /\ NoConfirm(page, b)
      <4>1. i = 0
        BY <1>1, <1>6, <2>2
      <4>2. \A j \in PgOff : page[b][j] = Free
        BY <1>1, <1>2, <1>6, <2>2, Numbers DEF Job, Partial
      <4>3. QED BY <4>1, <4>2, PageKinds DEF NoConfirm
    <3>3. top \in Kind /\ Mains[top] \in Fixed /\ Mains[top] \in Rsv
      BY <1>2, KindIs DEF Stable, Roles
    <3>4. page[Mains[top]][0].k = "hdr" /\ page[Mains[op]][0].k = "hdr" /\ Mains[op] \in Rsv
      BY <1>1, <1>2, <3>3, KindIs DEF Stable, Good, IsHdr, Roles
    <3>5. x.gage > page[Mains[top]][0].gage
      <4>1. page[Mains[top]][0].gage <= gage
        BY <1>2, <3>3, <3>4 DEF Covered
      <4>2. page[Mains[top]][0].gage \in Nat /\ gage \in Nat
        BY <1>2, <3>3, <3>4, HdrTypes, Numbers DEF RamTypes
      <4>3. QED BY <3>1, <4>1, <4>2
    <3>6. x.age > page[Mains[op]][0].age
      <4>1. page[Mains[op]][0].age <= age[op]
        BY <1>1, <1>2 DEF Covered
      <4>2. page[Mains[op]][0].age \in Nat /\ age[op] \in Nat
        BY <1>1, <1>2, <3>4, HdrTypes, Numbers DEF RamTypes
      <4>3. QED BY <3>1, <4>1, <4>2
    <3>7. Stable(q, Mains, Spare, o, top) /\ Begun(q, Mains, Spare, top)
      BY <1>1, <1>2, <1>6, <3>1, <3>2, <3>5, <3>6, BegunFirst DEF q
    <3>8. QED BY <1>4, <1>6, <3>7, PageKinds DEF q
  <2>3. CASE pg = 0 /\ x # SetPage
    <3>1. i = 0 /\ 0 \in PgOff
      BY <1>1, <1>6, <2>3, Numbers
    <3>2. q[Spare][0].k # "hdr" /\ \A c \in Rsv : c # Spare => q[c] = page[c]
      BY <1>1, <1>2, <1>3, <1>6, <2>3, <3>1, ProgrammedIs, PageKinds DEF q
    <3>3. Stable(q, Mains, Spare, o, top)
      BY <1>2, <3>2, StableUnused
    <3>4. QED BY <1>4, <1>6, <2>3, <3>3, PageKinds DEF q
  <2>4. pg > 0 \/ pg = 0
    BY <1>1
  <2>5. QED BY <2>1, <2>2, <2>3, <2>4
<1>7. CASE x = Confirm
  <2>1. pg = MetaPgs /\ i = Base + MetaPgs /\ Partial(page, b, op, Base, MetaPgs) /\ pg > 0
    BY <1>1, <1>2, <1>3, <1>7, Numbers DEF Job
  <2>2. CASE how = "append"
    <3>1. Stable(q, Mains, Spare, [o EXCEPT ![op] = Base], top)
      BY <1>1, <1>2, <1>7, <2>1, <2>2, StableConfirm DEF q
    <3>2. QED BY <1>1, <1>4, <1>7, <2>2, <3>1 DEF q
  <2>3. CASE how = "make"
    <3>1. Begun(page, Mains, Spare, top) /\ Base = 0 /\ i = MetaPgs
      BY <1>1, <1>2, <2>1, <2>3, Numbers DEF Job
    <3>2. page[Spare][0].sig = op /\ Partial(page, Spare, op, 0, MetaPgs)
      BY <1>1, <2>1, <2>3, <3>1, Numbers DEF Partial, IsHdr
    <3>3. Stable(Programmed(page, Spare, MetaPgs, Confirm), [Mains EXCEPT ![op] = Spare], Mains[op],
                 [o EXCEPT ![op] = 0], op)
      BY <1>1, <1>2, <3>1, <3>2, StableRewritten
    <3>4. [Mains EXCEPT ![op] = Spare] = pcb
      BY <1>1, <1>2, <2>3, MainsAre DEF Making
    <3>5. Stable(q, pcb, tpcb, [o EXCEPT ![op] = Base], op)
      BY <1>1, <1>7, <2>3, <3>1, <3>3, <3>4 DEF q
    <3>6. QED BY <1>4, <1>7, <2>3, <3>5 DEF q
  <2>4. QED BY <1>1, <2>2, <2>3
<1>8. QED BY <1>1, <1>5, <1>6, <1>7

\* What a program leaves of the pages that are not programmed.
LEMMA ProgramPages ==
  ASSUME Inv, NoFaults, ProgramOK, NEW o, NEW top, Up(o, top)
  PROVE  /\ pc = "program" /\ page' \in Flash
         /\ page' = Programmed(page, pcb[op], next[op], SetPage)
         /\ page'[pcb[op]][next[op]] = SetPage
         /\ \A j \in PgOff : j # next[op] => page'[pcb[op]][j] = page[pcb[op]][j]
         /\ \A c \in Rsv : c # pcb[op] => page'[c] = page[c]
<1>1. pc = "program" /\ page' = Programmed(page, pcb[op], next[op], SetPage)
  BY DEF ProgramOK, Programmed
<1>2. pcb[op] \in Rsv /\ next[op] \in PgOff /\ SetPage \in Pages /\ page \in Flash
  BY <1>1, NextPage, SetPageIs DEF Inv, FlashTypes
<1>3. QED BY <1>1, <1>2, ProgrammedIs

\* A page of the set, not the last.
LEMMA InvProgramMore ==
  ASSUME Inv, NoFaults, ProgramOK, pg < MetaPgs
  PROVE  Inv'
<1>1. /\ pc = "program" /\ next' = [next EXCEPT ![op] = next[op] + 1] /\ pg' = pg + 1
      /\ IF pg = 0 THEN age' = [age EXCEPT ![op] = age[op] + 1] /\ gage' = gage + 1
         ELSE UNCHANGED <<age, gage>>
      /\ UNCHANGED <<pc, keep, bad, pcb, tpcb, first, alloc, rbn, bmf, ver, op, how, old, fails, offs>>
  BY DEF ProgramOK, TakeAges
<1>2. RamTypes /\ JobTypes /\ FlashTypes /\ Lent /\ Tails /\ op \in Kind
  BY <1>1 DEF Inv, JobTypes
<1>3. PICK o, top : Up(o, top)
  BY <1>1 DEF Inv
<1>4. /\ page' \in Flash
      /\ page'[pcb[op]][next[op]] = SetPage
      /\ \A j \in PgOff : j # next[op] => page'[pcb[op]][j] = page[pcb[op]][j]
      /\ \A c \in Rsv : c # pcb[op] => page'[c] = page[c]
      /\ page' = Programmed(page, pcb[op], next[op], SetPage)
  BY <1>3, ProgramPages
<1>5. /\ next[op] \in PgOff /\ Base \in Nat /\ next[op] = Base + pg
      /\ pg \in 0 .. MetaPgs /\ pcb[op] \in Rsv /\ pcb[op] \in Fixed
      /\ how = "append" => /\ Mains = pcb /\ Spare = tpcb
                           /\ o[op] \in Nat /\ Base > o[op] + MetaPgs
      /\ how = "make" => Base = 0 /\ Mains[op] = tpcb /\ Spare = pcb[op]
      /\ how = "append" \/ how = "make"
  BY <1>1, <1>3, NextPage
<1>6. Mains' = Mains /\ Spare' = Spare /\ Base' = Base
  <2>1. next'[op] = next[op] + 1
    BY <1>1, <1>2 DEF RamTypes
  <2>2. Base' = Base
    BY <1>1, <1>5, <2>1 DEF Base
  <2>3. QED BY <1>1, <2>2 DEF Mains, Spare, Making
<1>7. SetPage # Confirm
  BY <1>5, SetPageIs, Numbers
<1>8. Stable(page', Mains, Spare, o, top) /\ (how = "make" => Begun(page', Mains, Spare, top))
  BY <1>1, <1>3, <1>4, <1>7, ProgramFlash
<1>9. /\ age' \in [Kind -> Nat] /\ gage' \in Nat
      /\ \A t \in Kind : age[t] <= age'[t]
      /\ gage <= gage'
      /\ \A t \in Kind : age[t] \in Nat
      /\ age'[op] = IF pg = 0 THEN age[op] + 1 ELSE age[op]
      /\ gage' = IF pg = 0 THEN gage + 1 ELSE gage
  BY <1>1, <1>2, <1>5 DEF RamTypes
<1>10. next' \in [Kind -> 0 .. PgsPerPCB] /\ pg' \in 0 .. MetaPgs
  <2>1. next[op] + 1 \in 0 .. PgsPerPCB /\ pg + 1 \in 0 .. MetaPgs
    BY <1>5, Numbers
  <2>2. QED BY <1>1, <1>2, <2>1 DEF RamTypes
<1>11. RamTypes' /\ JobTypes' /\ FlashTypes' /\ Lent'
  BY <1>1, <1>2, <1>4, <1>9, <1>10 DEF RamTypes, JobTypes, FlashTypes, Lent
<1>12. Covered(Mains)'
  <2>1. ASSUME NEW t \in Kind PROVE page'[Mains[t]][0].age <= age'[t]
    <3>1. page'[Mains[t]][0] = page[Mains[t]][0]
      <4>1. Mains[t] \in Rsv /\ 0 \in PgOff
        BY <1>8, Numbers DEF Stable, Roles
      <4>2. CASE Mains[t] # pcb[op]
        BY <1>4, <4>1, <4>2
      <4>3. CASE Mains[t] = pcb[op]
        <5>1. how = "append"
          BY <1>5, <1>8, <4>3 DEF Stable, Roles, Kind
        <5>2. next[op] # 0
          BY <1>5, <5>1, Numbers
        <5>3. QED BY <1>4, <4>1, <4>3, <5>2
      <4>4. QED BY <4>2, <4>3
    <3>2. page[Mains[t]][0].age <= age[t] /\ page[Mains[t]][0].age \in Nat
      BY <1>2, <1>3, HdrTypes, Numbers DEF Up, Covered, Stable, Good, IsHdr, Roles, FlashTypes
    <3>3. QED BY <1>9, <3>1, <3>2
  <2>2. ASSUME NEW b \in Fixed, page'[b][0].k = "hdr" PROVE page'[b][0].gage <= gage'
    <3>1. b \in Rsv /\ 0 \in PgOff /\ page \in Flash
      BY <1>2, FormatIs, Numbers DEF FlashTypes
    <3>2. CASE page'[b][0] = page[b][0]
      <4>1. page[b][0].gage <= gage /\ page[b][0].gage \in Nat /\ gage \in Nat
        BY <1>2, <1>3, <2>2, <3>1, <3>2, HdrTypes DEF Up, Covered, RamTypes
      <4>2. QED BY <1>9, <3>2, <4>1
    <3>3. CASE page'[b][0] # page[b][0]
      <4>1. b = pcb[op] /\ next[op] = 0 /\ page'[b][0] = SetPage
        BY <1>4, <3>1, <3>3
      <4>2. pg = 0
        BY <1>5, <4>1
      <4>3. SetPage.gage = gage + 1 /\ gage \in Nat
        BY <1>2, <4>2, SetPageIs DEF RamTypes
      <4>4. QED BY <1>9, <4>1, <4>2, <4>3
    <3>4. QED BY <3>2, <3>3
  <2>3. QED BY <1>6, <2>1, <2>2 DEF Covered
<1>13. \A t \in Kind : (~Working(t))' => t # op /\ ~Working(t)
  BY <1>1 DEF Working
<1>14. \A t \in Kind : t # op => pcb[t] # pcb[op] /\ pcb[t] \in Rsv /\ Mains[t] = pcb[t]
  BY <1>2, KindIs, MainsAre DEF Lent, Roles
<1>15. ASSUME NEW t \in Kind, t # op
       PROVE  next'[t] = next[t] /\ page'[pcb[t]] = page[pcb[t]] /\ ~Working(t)
  BY <1>1, <1>2, <1>4, <1>14, <1>15 DEF RamTypes, Working
<1>16. Tails'
  BY <1>1, <1>2, <1>13, <1>15 DEF Tails
<1>17. ASSUME NEW t \in Kind, t # op PROVE Tells(page[Mains[t]][o[t]], t)'
  <2>1. Tells(page[Mains[t]][o[t]], t) /\ page'[Mains[t]] = page[Mains[t]]
    BY <1>3, <1>14, <1>15, <1>17 DEF Up
  <2>2. QED BY <1>1, <1>6, <2>1 DEF Tells
<1>18. Partial(page, pcb[op], op, Base, pg) /\ Base + MetaPgs < PgsPerPCB /\ Base \in PgOff
  BY <1>1, <1>3, <1>5, Numbers DEF Up, Job, Partial
<1>19. /\ IsHdr(page'[pcb[op]][Base], op)
       /\ page'[pcb[op]][0].age <= page'[pcb[op]][Base].age
       /\ page'[pcb[op]][Base].age <= age'[op]
       /\ page'[pcb[op]][Base].ver = ver[op] /\ page'[pcb[op]][Base].rbn = rbn[op]
       /\ op = "U" => page'[pcb[op]][Base].alloc = alloc
  <2>1. CASE pg = 0
    <3>1. /\ page'[pcb[op]][Base] = SetPage /\ SetPage.k = "hdr" /\ SetPage.sig = op
          /\ SetPage.age = age[op] + 1 /\ Tells(SetPage, op)
      BY <1>4, <1>5, <2>1, SetPageIs DEF Headers
    <3>2. age[op] \in Nat /\ age'[op] = age[op] + 1
      BY <1>2, <1>9, <2>1
    <3>3. /\ IsHdr(page'[pcb[op]][Base], op) /\ page'[pcb[op]][Base].age <= age'[op]
          /\ page'[pcb[op]][Base].ver = ver[op] /\ page'[pcb[op]][Base].rbn = rbn[op]
          /\ op = "U" => page'[pcb[op]][Base].alloc = alloc
      BY <3>1, <3>2 DEF IsHdr, Tells
    <3>4. CASE how = "make"
      <4>1. page'[pcb[op]][0] = SetPage
        BY <1>5, <3>1, <3>4
      <4>2. page'[pcb[op]][0].age <= page'[pcb[op]][Base].age
        BY <3>1, <3>2, <4>1
      <4>3. QED BY <3>3, <4>2
    <3>5. CASE how = "append"
      <4>1. pcb[op] = Mains[op] /\ Base # 0 /\ 0 \in PgOff
        BY <1>5, <3>5, Numbers
      <4>2. page'[pcb[op]][0] = page[pcb[op]][0]
        BY <1>4, <1>5, <2>1, <4>1
      <4>3. page[pcb[op]][0].age <= age[op] /\ page[pcb[op]][0].age \in Nat
        BY <1>2, <1>3, <4>1, HdrTypes DEF Up, Covered, Stable, Good, IsHdr, Roles, FlashTypes
      <4>4. page'[pcb[op]][0].age <= age[op] + 1
        BY <3>2, <4>2, <4>3
      <4>5. page'[pcb[op]][0].age <= page'[pcb[op]][Base].age
        BY <3>1, <4>4
      <4>6. QED BY <3>3, <4>5
    <3>6. QED BY <1>5, <3>4, <3>5
  <2>2. CASE pg # 0
    <3>1. Base # next[op] /\ next[op] # 0 /\ 0 \in PgOff
      BY <1>5, <2>2, Numbers
    <3>2. page'[pcb[op]][Base] = page[pcb[op]][Base] /\ page'[pcb[op]][0] = page[pcb[op]][0]
      BY <1>4, <1>18, <3>1
    <3>3. pg > 0 /\ age'[op] = age[op]
      BY <1>5, <1>9, <2>2
    <3>4. Tells(page[pcb[op]][Base], op) /\ page[pcb[op]][Base].age <= age[op]
      BY <1>1, <1>3, <3>3 DEF Up, Job
    <3>5. QED BY <1>18, <3>2, <3>3, <3>4 DEF Partial, Tells
  <2>3. QED BY <2>1, <2>2
<1>20. Job(top)'
  <2>1. ASSUME NEW j \in PgOff, Base <= j, j < Base + (pg + 1)
        PROVE  page'[pcb[op]][j] # Junk /\ page'[pcb[op]][j] # Confirm
    <3>1. SetPage # Junk
      BY SetPageIs
    <3>2. CASE j = next[op]
      BY <1>4, <1>7, <3>1, <3>2
    <3>3. CASE j # next[op]
      <4>1. j < Base + pg /\ page'[pcb[op]][j] = page[pcb[op]][j]
        BY <1>4, <1>5, <2>1, <3>3, Numbers
      <4>2. QED BY <1>18, <2>1, <4>1 DEF Partial
    <3>4. QED BY <3>2, <3>3
  <2>2. \A j \in PgOff : Base + (pg + 1) <= j => page'[pcb[op]][j] = Free
    BY <1>4, <1>5, <1>18, Numbers DEF Partial
  <2>3. Partial(page', pcb[op], op, Base, pg + 1)
    BY <1>18, <1>19, <2>1, <2>2 DEF Partial
  <2>4. QED BY <1>1, <1>5, <1>6, <1>8, <1>19, <2>3 DEF Job, Tells
<1>21. Up(o, top)'
  BY <1>6, <1>8, <1>12, <1>13, <1>17, <1>20 DEF Up
<1>22. QED BY <1>1, <1>11, <1>16, <1>21 DEF Inv

\* The confirm page: the set is the last one of its block.
LEMMA InvProgramLast ==
  ASSUME Inv, NoFaults, ProgramOK, ~(pg < MetaPgs)
  PROVE  Inv'
<1>1. /\ pc = "program" /\ next' = [next EXCEPT ![op] = next[op] + 1]
      /\ IF pg = 0 THEN age' = [age EXCEPT ![op] = age[op] + 1] /\ gage' = gage + 1
         ELSE UNCHANGED <<age, gage>>
      /\ UNCHANGED <<bad, pcb, tpcb, first, alloc, rbn, bmf, ver, op, how, old, fails, offs>>
  BY DEF ProgramOK, TakeAges
<1>2. RamTypes /\ JobTypes /\ FlashTypes /\ Lent /\ Tails /\ op \in Kind
  BY <1>1 DEF Inv, JobTypes
<1>3. PICK o, top : Up(o, top)
  BY <1>1 DEF Inv
<1>4. /\ page' \in Flash
      /\ page'[pcb[op]][next[op]] = SetPage
      /\ \A j \in PgOff : j # next[op] => page'[pcb[op]][j] = page[pcb[op]][j]
      /\ \A c \in Rsv : c # pcb[op] => page'[c] = page[c]
      /\ page' = Programmed(page, pcb[op], next[op], SetPage)
  BY <1>3, ProgramPages
<1>5. /\ next[op] \in PgOff /\ Base \in Nat /\ next[op] = Base + pg
      /\ pg \in 0 .. MetaPgs /\ pcb[op] \in Rsv /\ pcb[op] \in Fixed
      /\ how = "append" => Mains = pcb /\ Spare = tpcb
      /\ how = "make" => Base = 0 /\ Mains[op] = tpcb /\ Spare = pcb[op]
      /\ how = "append" \/ how = "make"
  BY <1>1, <1>3, NextPage
<1>6. /\ pg = MetaPgs /\ pg > 0 /\ SetPage = Confirm
      /\ UNCHANGED <<age, gage>> /\ next[op] = Base + MetaPgs /\ next[op] # 0
  BY <1>1, <1>5, SetPageIs, Numbers
<1>7. /\ pc' = "idle" /\ pg' = 0
      /\ keep' = IF how = "make" THEN [keep EXCEPT ![op] = TRUE] ELSE keep
  BY <1>2, <1>6 DEF ProgramOK, Finish, Remaking, JobTypes
<1>8. Mains' = pcb /\ Spare' = tpcb
  <2>1. ~Making' /\ pcb' = pcb /\ tpcb' = tpcb /\ pcb \in [Kind -> Rsv]
    BY <1>1, <1>2, <1>7 DEF Making, RamTypes
  <2>2. QED BY <2>1 DEF Mains, Spare
<1>9. PICK e, n : e = [o EXCEPT ![op] = Base] /\ Stable(page', pcb, tpcb, e, n)
  <2>1. Stable(page', pcb, tpcb, [o EXCEPT ![op] = Base], IF how = "make" THEN op ELSE top)
    BY <1>1, <1>3, <1>4, <1>5, <1>6, ProgramFlash
  <2>2. QED BY <2>1
<1>10. o \in [Kind -> Nat] /\ e[op] = Base /\ \A t \in Kind : t # op => e[t] = o[t]
  BY <1>2, <1>3, <1>5, <1>9 DEF Up, Stable
<1>11. next' \in [Kind -> 0 .. PgsPerPCB] /\ next'[op] = next[op] + 1
  <2>1. next[op] + 1 \in 0 .. PgsPerPCB
    BY <1>5, Numbers
  <2>2. QED BY <1>1, <1>2, <2>1 DEF RamTypes
<1>12. RamTypes' /\ JobTypes' /\ FlashTypes' /\ Lent'
  <2>1. keep' \in [Kind -> BOOLEAN]
    BY <1>2, <1>7 DEF RamTypes
  <2>2. RamTypes'
    BY <1>1, <1>2, <1>6, <1>11, <2>1 DEF RamTypes
  <2>3. JobTypes' /\ FlashTypes' /\ Lent'
    BY <1>1, <1>2, <1>4, <1>7, Numbers DEF JobTypes, FlashTypes, Lent
  <2>4. QED BY <2>2, <2>3
<1>13. /\ Job(top) /\ Partial(page, pcb[op], op, Base, MetaPgs) /\ Tells(page[pcb[op]][Base], op)
       /\ page[pcb[op]][Base].age <= age[op] /\ Base \in PgOff /\ Base # next[op]
  BY <1>1, <1>3, <1>5, <1>6, Numbers DEF Up, Job, Partial
<1>14. /\ page'[pcb[op]][Base] = page[pcb[op]][Base]
       /\ \A b \in Rsv : page'[b][0] = page[b][0]
  BY <1>4, <1>6, <1>13, Numbers
<1>15. \A t \in Kind : t # op => /\ pcb[t] # pcb[op] /\ pcb[t] \in Rsv /\ Mains[t] = pcb[t]
                                 /\ page'[pcb[t]] = page[pcb[t]] /\ ~Working(t)
  BY <1>2, <1>4, KindIs, MainsAre DEF Lent, Roles, Working
<1>16. Covered(Mains)'
  <2>1. ASSUME NEW t \in Kind PROVE page'[pcb[t]][0].age <= age'[t]
    <3>1. CASE t = op
      <4>1. page[pcb[op]][0].age <= page[pcb[op]][Base].age /\ page[pcb[op]][Base].age <= age[op]
        BY <1>5, <1>6, <1>13, Numbers DEF Partial
      <4>2. page'[pcb[op]][0].k = "hdr" /\ page[pcb[op]][Base].k = "hdr"
        BY <1>2, <1>9, <1>13, <1>6 DEF Stable, Good, IsHdr, Partial
      <4>3. page[pcb[op]][0].age \in Nat /\ page[pcb[op]][Base].age \in Nat /\ age[op] \in Nat
        BY <1>2, <1>5, <1>13, <1>14, <4>2, HdrTypes, Numbers DEF RamTypes, FlashTypes
      <4>4. page[pcb[op]][0].age <= age[op]
        BY <4>1, <4>3
      <4>5. QED BY <1>5, <1>6, <1>14, <3>1, <4>4
    <3>2. CASE t # op
      <4>1. page[Mains[t]][0].age <= age[t]
        BY <1>3 DEF Up, Covered
      <4>2. QED BY <1>6, <1>15, <3>2, <4>1
    <3>3. QED BY <3>1, <3>2
  <2>2. \A b \in Fixed : page'[b][0].k = "hdr" => page'[b][0].gage <= gage'
    BY <1>3, <1>6, <1>14, FormatIs DEF Up, Covered
  <2>3. QED BY <1>8, <2>1, <2>2 DEF Covered
<1>17. ASSUME NEW t \in Kind PROVE Tells(page[Mains[t]][e[t]], t)'
  <2>1. Tells(page'[pcb[t]][e[t]], t)
    <3>1. CASE t = op
      BY <1>10, <1>13, <1>14, <3>1
    <3>2. CASE t # op
      BY <1>3, <1>10, <1>15, <3>2 DEF Up
    <3>3. QED BY <3>1, <3>2
  <2>2. page'[pcb[t]][e[t]].ver = ver'[t] /\ page'[pcb[t]][e[t]].rbn = rbn'[t]
        /\ (t = "U" => page'[pcb[t]][e[t]].alloc = alloc')
    BY <1>1, <2>1 DEF Tells
  <2>3. QED BY <1>8, <2>2 DEF Tells
<1>18. Tails'
  <2>1. /\ next'[op] > 0 /\ Aligned(next'[op])
        /\ \A j \in PgOff : j >= next'[op] => page'[pcb[op]][j] = Free
    <3>1. next'[op] = Base + SetPgs /\ Aligned(Base)
      BY <1>5, <1>6, <1>11, <1>13, Numbers DEF Partial
    <3>2. Aligned(Base + SetPgs)
      BY <1>5, <3>1, NextMultiple, Numbers DEF Aligned
    <3>3. \A j \in PgOff : j >= next'[op] => j # next[op] /\ Base + MetaPgs <= j
      BY <1>5, <1>6, <1>11, Numbers
    <3>4. \A j \in PgOff : j >= next'[op] => page'[pcb[op]][j] = Free
      BY <1>4, <1>13, <3>3 DEF Partial
    <3>5. next'[op] > 0
      BY <1>5, <1>11, Numbers
    <3>6. QED BY <3>1, <3>2, <3>4, <3>5
  <2>2. ASSUME NEW t \in Kind, t # op PROVE next'[t] = next[t] /\ keep'[t] = keep[t]
    BY <1>1, <1>2, <1>7, <2>2 DEF RamTypes
  <2>3. ASSUME NEW t \in Kind
        PROVE  /\ next'[t] > 0
               /\ keep'[t] => /\ Aligned(next'[t])
                              /\ \A j \in PgOff : j >= next'[t] => page'[pcb[t]][j] = Free
    BY <1>2, <1>15, <2>1, <2>2 DEF Tails
  <2>4. QED BY <1>1, <2>3 DEF Tails
<1>19. Up(e, n)'
  <2>1. Stable(page', Mains', Spare', e, n)
    BY <1>8, <1>9
  <2>2. QED BY <1>7, <1>16, <1>17, <2>1 DEF Up
<1>20. QED BY <1>7, <1>12, <1>18, <1>19 DEF Inv

\* The power goes off: whatever was under way, a mount finds the tables again.
LEMMA InvPowerOff ==
  ASSUME Inv, PowerOff
  PROVE  Inv'
<1>1. /\ pc # "off" /\ offs < MaxOff /\ page' \in Torn /\ pc' = "off" /\ offs' = offs + 1
      /\ UNCHANGED <<pcb, tpcb, next, age, gage, keep, first, alloc, rbn, bmf, ver>>
      /\ UNCHANGED <<bad, op, how, old, pg, fails>>
  BY DEF PowerOff, ramvars
<1>2. RamTypes /\ JobTypes /\ FlashTypes /\ Lent /\ op \in Kind /\ page \in Flash
  BY DEF Inv, JobTypes, FlashTypes
<1>3. PICK o, top : Up(o, top)
  BY <1>1 DEF Inv
<1>4. Stable(page, Mains, Spare, o, top)
  BY <1>3 DEF Up
<1>5. page' \in Flash /\ \E m, s, e, n : Stable(page', m, s, e, n)
  <2>1. CASE pc = "idle"
    BY <1>1, <1>2, <1>4, <2>1 DEF Torn
  <2>2. CASE pc = "program"
    <3>1. PICK x \in {Free, Junk, SetPage} : page' = Programmed(page, pcb[op], next[op], x)
      BY <1>1, <2>2 DEF Torn, Programmed
    <3>2. /\ page' \in Flash
          /\ x # Confirm => Stable(page', Mains, Spare, o, top)
          /\ x = Confirm /\ how = "make" => Stable(page', pcb, tpcb, [o EXCEPT ![op] = Base], op)
          /\ x = Confirm /\ how = "append" => Stable(page', pcb, tpcb, [o EXCEPT ![op] = Base], top)
      BY <1>3, <2>2, <3>1, ProgramFlash
    <3>3. how = "make" \/ how = "append"
      BY <1>2 DEF JobTypes
    <3>4. QED BY <3>2, <3>3
  <2>3. CASE pc = "erase"
    <3>1. PICK p \in {page[pcb[op]], Blank(Free), Blank(Junk)} : page' = [page EXCEPT ![pcb[op]] = p]
      BY <1>1, <2>3 DEF Torn
    <3>2. pcb[op] = Spare /\ pcb[op] \in Rsv
      BY <1>2, <2>3 DEF Spare, Making, JobTypes, RamTypes
    <3>3. p \in [PgOff -> Pages] /\ (p = page[pcb[op]] \/ p[0].k # "hdr")
      BY <1>2, <3>1, <3>2, BlankPages DEF Flash
    <3>4. page' \in Flash /\ page'[Spare] = p /\ \A b \in Rsv : b # Spare => page'[b] = page[b]
      BY <1>2, <3>1, <3>2, <3>3 DEF Flash
    <3>5. CASE p = page[pcb[op]]
      <4>1. page' = page
        BY <1>2, <3>1, <3>2, <3>5 DEF Flash
      <4>2. Stable(page', Mains, Spare, o, top)
        BY <1>4, <4>1
      <4>3. QED BY <3>4, <4>2
    <3>6. CASE p[0].k # "hdr"
      <4>1. Stable(page', Mains, Spare, o, top)
        BY <1>2, <1>4, <3>4, <3>6, StableUnused
      <4>2. QED BY <3>4, <4>1
    <3>7. QED BY <3>3, <3>5, <3>6
  <2>4. QED BY <1>1, <1>2, <2>1, <2>2, <2>3 DEF JobTypes
<1>6. RamTypes' /\ Lent' /\ JobTypes'
  BY <1>1, <1>2 DEF RamTypes, Lent, JobTypes
<1>7. FlashTypes'
  <2>1. offs + 1 \in 0 .. MaxOff
    BY <1>1, <1>2, BoundAssumption DEF FlashTypes
  <2>2. QED BY <1>1, <1>2, <1>5, <2>1 DEF FlashTypes
<1>8. QED BY <1>1, <1>5, <1>6, <1>7 DEF Inv, Restorable

\* The greatest of three numbers.
LEMMA LastOfThree ==
  ASSUME NEW a \in Nat, NEW b \in Nat, NEW c \in Nat
  PROVE  Last({a, b, c}) \in Nat /\ a <= Last({a, b, c}) /\ b <= Last({a, b, c})
         /\ c <= Last({a, b, c})
<1> DEFINE S == {a, b, c}
<1>1. PICK x \in S : \A y \in S : y <= x
  <2>1. CASE b <= a /\ c <= a
    BY <2>1
  <2>2. CASE a <= b /\ c <= b
    BY <2>2
  <2>3. CASE a <= c /\ b <= c
    BY <2>3
  <2>4. QED BY <2>1, <2>2, <2>3
<1>2. S \in SUBSET Int
  OBVIOUS
<1>3. Last(S) = x
  BY <1>1, <1>2, LastIs
<1>4. x \in Nat /\ a <= x /\ b <= x /\ c <= x
  BY <1>1
<1>5. QED BY <1>3, <1>4

LEMMA HdrSays ==
  ASSUME NEW h \in Headers
  PROVE  /\ h.age \in Nat /\ h.gage \in Nat /\ h.ver \in 0 .. MaxVer
         /\ h.rbn \in SUBSET Rsv /\ h.alloc \in SUBSET Rsv
         /\ Fixed \subseteq h.alloc /\ h.rbn \subseteq h.alloc
         /\ h.rbn \cap Fixed = {} /\ (h.sig = "L" => h.rbn = {}) /\ h.bmf = {}
BY DEF Headers

\* What a mount of such a flash puts in RAM.
LEMMA MountIs ==
  ASSUME Inv, Mount, NEW m, NEW s, NEW o, NEW top, Stable(page, m, s, o, top)
  PROVE  /\ pcb' = m /\ tpcb' = s /\ pc' = "idle" /\ pg' = 0
         /\ next' = [t \in Kind |-> LastConfirmOff[m[t]] + 1]
         /\ age' = [t \in Kind |-> page[m[t]][o[t]].age]
         /\ gage' = Last({page[Newest(Kind, "gage")][0].gage,
                          page[m["U"]][o["U"]].gage, page[m["L"]][o["L"]].gage})
         /\ keep' = [t \in Kind |-> FALSE] /\ first' = [t \in Kind |-> 0]
         /\ alloc' = page[m["U"]][o["U"]].alloc
         /\ rbn' = [t \in Kind |-> page[m[t]][o[t]].rbn]
         /\ ver' = [t \in Kind |-> page[m[t]][o[t]].ver]
         /\ bmf' = page[m["U"]][o["U"]].bmf
         /\ UNCHANGED <<page, bad, op, how, old, fails, offs>>
<1>1. page \in Flash /\ bad = {}
  BY DEF Inv, FlashTypes
<1> DEFINE hd == [t \in Kind |-> page[m[t]][o[t]]]
           v == [ok |-> TRUE, spare |-> s, blk |-> m, hdr |-> hd]
<1>2. View = v
  BY <1>1, ViewIs
<1>3. v.ok /\ v.spare = s /\ v.blk = m /\ v.hdr = hd
  OBVIOUS
<1> HIDE DEF v, hd
<1>4. /\ pcb' = m /\ tpcb' = s /\ pc' = "idle" /\ pg' = 0
      /\ next' = [t \in Kind |-> LastConfirmOff[m[t]] + 1]
      /\ age' = [t \in Kind |-> hd[t].age]
      /\ gage' = Last({page[Newest(Kind, "gage")][0].gage, hd["U"].gage, hd["L"].gage})
      /\ keep' = [t \in Kind |-> FALSE] /\ first' = [t \in Kind |-> 0]
      /\ alloc' = hd["U"].alloc
      /\ rbn' = [t \in Kind |-> hd[t].rbn] /\ ver' = [t \in Kind |-> hd[t].ver]
      /\ bmf' = hd["U"].bmf
      /\ UNCHANGED <<page, bad, op, how, old, fails, offs>>
  BY <1>2, <1>3, Zenon DEF Mount, flash
<1>5. \A t \in Kind : hd[t] = page[m[t]][o[t]]
  BY DEF hd
<1>6. QED BY <1>4, <1>5, KindIs

LEMMA InvMount ==
  ASSUME Inv, Mount
  PROVE  Inv'
<1>1. PICK m, s, o, top : Stable(page, m, s, o, top)
  BY DEF Inv, Mount, Restorable
<1>2. /\ pcb' = m /\ tpcb' = s /\ pc' = "idle" /\ pg' = 0
      /\ next' = [t \in Kind |-> LastConfirmOff[m[t]] + 1]
      /\ age' = [t \in Kind |-> page[m[t]][o[t]].age]
      /\ gage' = Last({page[Newest(Kind, "gage")][0].gage,
                       page[m["U"]][o["U"]].gage, page[m["L"]][o["L"]].gage})
      /\ keep' = [t \in Kind |-> FALSE] /\ first' = [t \in Kind |-> 0]
      /\ alloc' = page[m["U"]][o["U"]].alloc
      /\ rbn' = [t \in Kind |-> page[m[t]][o[t]].rbn]
      /\ ver' = [t \in Kind |-> page[m[t]][o[t]].ver]
      /\ bmf' = page[m["U"]][o["U"]].bmf
      /\ UNCHANGED <<page, bad, op, how, old, fails, offs>>
  BY <1>1, MountIs
<1>3. page \in Flash /\ bad = {} /\ JobTypes /\ FlashTypes
  BY DEF Inv, FlashTypes
<1>4. Roles(m, s) /\ m \in [Kind -> Rsv] /\ s \in Rsv /\ o \in [Kind -> Nat] /\ top \in Kind
  BY <1>1 DEF Stable, Roles
<1>5. ASSUME NEW t \in Kind
      PROVE  /\ page[m[t]][o[t]] \in Headers /\ page[m[t]][o[t]].sig = t
             /\ page[m[t]][0] \in Headers /\ page[m[t]][0].age <= page[m[t]][o[t]].age
             /\ LastConfirmOff[m[t]] + 1 \in 0 .. PgsPerPCB /\ LastConfirmOff[m[t]] + 1 > 0
  <2>1. Good(page, m[t], t, o[t]) /\ m[t] \in Rsv
    BY <1>1, <1>4 DEF Stable
  <2>2. o[t] \in PgOff /\ 0 \in PgOff
    BY <2>1, Numbers DEF Good
  <2>3. page[m[t]][o[t]] \in Headers /\ page[m[t]][0] \in Headers
    BY <1>3, <2>1, <2>2, HdrTypes DEF Good, IsHdr
  <2>4. /\ LastConfirmOff[m[t]] \in -1 .. (PgsPerPCB - 1)
        /\ LastConfirmOff[m[t]] >= o[t] + MetaPgs
    BY <2>1, ValidIs, ConfirmScan
  <2>5. QED BY <2>1, <2>2, <2>3, <2>4, Numbers DEF Good, IsHdr
<1>6. ASSUME NEW t \in Kind
      PROVE  LET h == page[m[t]][o[t]]
             IN  /\ h.age \in Nat /\ h.gage \in Nat /\ h.ver \in 0 .. MaxVer
                 /\ h.rbn \in SUBSET Rsv /\ h.alloc \in SUBSET Rsv
                 /\ Fixed \subseteq h.alloc /\ h.rbn \subseteq h.alloc
                 /\ h.rbn \cap Fixed = {} /\ (t = "L" => h.rbn = {}) /\ h.bmf = {}
  <2>1. page[m[t]][o[t]] \in Headers /\ page[m[t]][o[t]].sig = t
    BY <1>5
  <2>2. QED BY <2>1, HdrSays
<1>7. /\ page[Newest(Kind, "gage")][0].gage \in Nat
      /\ \A b \in Fixed : page[b][0].k = "hdr" => page[b][0].gage <= page[Newest(Kind, "gage")][0].gage
  <2>1. Newest(Kind, "gage") = IF Begun(page, m, s, top) THEN s ELSE m[top]
    BY <1>1, <1>3, NewestGage
  <2>2. 0 \in PgOff /\ page[m[top]][0].k = "hdr"
    BY <1>1, <1>4, Numbers DEF Stable, Good, IsHdr
  <2>3. /\ page[m[top]][0].gage \in Nat
        /\ page[s][0].k = "hdr" => page[s][0].gage \in Nat
        /\ \A t \in Kind : page[m[t]][0].gage \in Nat
    BY <1>3, <1>4, <1>5, <2>2, HdrTypes DEF Headers
  <2>4. \A t \in Kind : page[m[t]][0].gage <= page[m[top]][0].gage
    BY <1>1, <2>3 DEF Stable
  <2>5. CASE Begun(page, m, s, top)
    <3>1. page[s][0].gage > page[m[top]][0].gage /\ page[s][0].k = "hdr"
      BY <2>5 DEF Begun
    <3>2. \A t \in Kind : page[m[t]][0].gage <= page[s][0].gage
      BY <2>3, <2>4, <3>1
    <3>3. QED BY <1>4, <2>1, <2>3, <2>5, <3>1, <3>2, KindIs DEF Roles
  <2>6. CASE ~Begun(page, m, s, top)
    <3>1. page[s][0].k = "hdr" => page[s][0].gage <= page[m[top]][0].gage
      BY <1>1, <2>3, <2>6 DEF Stable, SpareIs, Unused, Retired
    <3>2. QED BY <1>4, <2>1, <2>3, <2>4, <2>6, <3>1, KindIs DEF Roles
  <2>7. QED BY <2>5, <2>6
<1>8. gage' \in Nat /\ page[Newest(Kind, "gage")][0].gage <= gage'
  BY <1>2, <1>6, <1>7, LastOfThree, KindIs
<1>9. RamTypes' /\ JobTypes' /\ FlashTypes' /\ Lent'
  <2>1. RamTypes'
    BY <1>2, <1>4, <1>5, <1>6, <1>8, KindIs DEF RamTypes
  <2>2. JobTypes' /\ FlashTypes'
    BY <1>2, <1>3, Numbers DEF JobTypes, FlashTypes
  <2>3. Lent'
    BY <1>2, <1>4, <1>6, KindIs DEF Lent
  <2>4. QED BY <2>1, <2>2, <2>3
<1>10. Mains' = m /\ Spare' = s
  <2>1. ~Making' /\ pcb' = m /\ tpcb' = s
    BY <1>2 DEF Making
  <2>2. QED BY <1>4, <2>1 DEF Mains, Spare
<1>11. Covered(Mains)'
  <2>1. \A t \in Kind : page'[m[t]][0].age <= age'[t]
    BY <1>2, <1>5
  <2>2. ASSUME NEW b \in Fixed, page'[b][0].k = "hdr" PROVE page'[b][0].gage <= gage'
    <3>1. /\ page[b][0].gage <= page[Newest(Kind, "gage")][0].gage
          /\ page[b][0].gage \in Nat
      BY <1>2, <1>3, <1>7, <2>2, HdrTypes, FormatIs, Numbers
    <3>2. QED BY <1>2, <1>7, <1>8, <3>1
  <2>3. QED BY <1>10, <2>1, <2>2 DEF Covered
<1>12. \A t \in Kind : Tells(page[Mains[t]][o[t]], t)'
  BY <1>2, <1>10, KindIs DEF Tells
<1>13. Tails'
  BY <1>2, <1>5 DEF Tails
<1>14. Up(o, top)'
  BY <1>1, <1>2, <1>10, <1>11, <1>12 DEF Up
<1>15. QED BY <1>2, <1>9, <1>13, <1>14 DEF Inv

LEMMA InvNext ==
  ASSUME Inv, NoFaults, [Next]_vars
  PROVE  Inv'
<1>1. ASSUME NEW t \in Tables, NEW R \in SUBSET Rsv, Begin(t, R) PROVE Inv'
  BY <1>1, InvBegin
<1>2. CASE EraseOK
  BY <1>2, InvErase
<1>3. CASE ProgramOK
  BY <1>3, InvProgramMore, InvProgramLast
<1>4. CASE EraseFails \/ ProgramFails
  BY <1>4 DEF EraseFails, ProgramFails, NoFaults, Inv, FlashTypes
<1>5. CASE Retire
  BY <1>5 DEF Retire, Inv, JobTypes
<1>6. CASE PowerOff
  BY <1>6, InvPowerOff
<1>7. CASE Mount
  BY <1>7, InvMount
<1>8. CASE UNCHANGED vars
  <2>1. /\ UNCHANGED <<page, bad, pcb, tpcb, next, age, gage, keep, first, alloc, rbn, bmf, ver>>
        /\ UNCHANGED <<pc, op, how, old, pg, fails, offs>>
    BY <1>8 DEF vars, flash, ramvars, job
  <2>2. RamTypes' /\ JobTypes' /\ FlashTypes' /\ Lent'
    BY <2>1 DEF Inv, RamTypes, JobTypes, FlashTypes, Lent
  <2>3. Restorable' <=> Restorable
    BY <2>1 DEF Restorable
  <2>4. Tails' <=> Tails
    BY <2>1 DEF Tails, Working
  <2>5. Mains' = Mains /\ Spare' = Spare /\ Base' = Base
    BY <2>1 DEF Mains, Spare, Making, Base
  <2>6. ASSUME NEW o, NEW top, Up(o, top) PROVE Up(o, top)'
    BY <2>1, <2>5, <2>6 DEF Up, Covered, Working, Tells, Job
  <2>7. QED BY <2>1, <2>2, <2>3, <2>4, <2>6 DEF Inv
<1>9. QED BY <1>1, <1>2, <1>3, <1>4, <1>5, <1>6, <1>7, <1>8 DEF Next

LEMMA InvAlways ==
  ASSUME NoFaults
  PROVE  Spec => []Inv
<1>1. Inv /\ [Next]_vars => Inv'
  BY InvNext
<1>2. QED BY <1>1, InvInit, PTL DEF Spec

\* What the invariant says of the flash, whether or not the power is on.
LEMMA InvFlash ==
  ASSUME Inv
  PROVE  page \in Flash /\ bad = {} /\ \E m, s, o, top : Stable(page, m, s, o, top)
BY DEF Inv, FlashTypes, Up, Restorable

LEMMA InvTypes == Inv => TypeOK
<1> SUFFICES ASSUME Inv PROVE TypeOK OBVIOUS
<1>1. RamTypes /\ JobTypes /\ FlashTypes /\ fails \in 0 .. MaxFail
  BY BoundAssumption DEF Inv, FlashTypes
<1>2. DOMAIN page = Rsv /\ \A b \in Rsv : DOMAIN page[b] = PgOff
  BY <1>1 DEF FlashTypes, Flash
<1>3. bmf \subseteq [sbn : Rsv, rbn : Rsv]
  BY <1>1 DEF RamTypes
<1>4. QED BY <1>1, <1>2, <1>3 DEF TypeOK, RamTypes, JobTypes, FlashTypes

LEMMA InvLent == Inv => LiveBlocksAllocated
<1> SUFFICES ASSUME Inv PROVE LiveBlocksAllocated OBVIOUS
<1>1. Lent /\ bmf = {}
  BY DEF Inv, RamTypes
<1>2. Lost = {} /\ {m.rbn : m \in bmf} = {}
  BY <1>1 DEF Lost
<1>3. PCBs = Fixed /\ pcb["U"] # pcb["L"] /\ tpcb \notin {pcb["U"], pcb["L"]}
  BY <1>1 DEF PCBs, Lent, Roles
<1>4. QED BY <1>1, <1>2, <1>3 DEF LiveBlocksAllocated, Lent

LEMMA InvErased == Inv => ProgramsErasedPages
<1> SUFFICES ASSUME Inv, pc = "program" PROVE page[pcb[op]][next[op]] = Free
  BY DEF ProgramsErasedPages
<1>1. PICK o, top : Up(o, top)
  BY DEF Inv
<1>2. QED BY <1>1, NextPage

LEMMA InvMountable == Inv => AlwaysMountable
<1> SUFFICES ASSUME Inv PROVE View.ok
  BY DEF AlwaysMountable
<1>1. PICK m, s, o, top : Stable(page, m, s, o, top)
  BY InvFlash
<1>2. View = [ok |-> TRUE, spare |-> s, blk |-> m, hdr |-> [t \in Kind |-> page[m[t]][o[t]]]]
  BY <1>1, InvFlash, ViewIs
<1>3. QED BY <1>2

LEMMA InvRestores == Inv => RestRestores
<1> SUFFICES ASSUME Inv, pc = "idle"
             PROVE  /\ View.ok /\ View.blk = pcb /\ View.spare = tpcb
                    /\ \A t \in Kind : View.hdr[t].ver = ver[t] /\ View.hdr[t].rbn = rbn[t]
                    /\ View.hdr["U"].alloc = alloc /\ View.hdr["U"].bmf = bmf
  BY DEF RestRestores
<1>1. PICK o, top : Up(o, top)
  BY DEF Inv
<1>2. Mains = pcb /\ Spare = tpcb
  BY MainsAre DEF Inv, JobTypes, Making
<1>3. /\ Stable(page, pcb, tpcb, o, top)
      /\ \A t \in Kind : Tells(page[pcb[t]][o[t]], t)
  BY <1>1, <1>2 DEF Up, Working
<1>4. View = [ok |-> TRUE, spare |-> tpcb, blk |-> pcb,
              hdr |-> [t \in Kind |-> page[pcb[t]][o[t]]]]
  BY <1>3, InvFlash, ViewIs
<1>5. /\ View.ok /\ View.spare = tpcb /\ View.blk = pcb
      /\ \A t \in Kind : View.hdr[t] = page[pcb[t]][o[t]]
  BY <1>4
<1>6. View.hdr["U"].bmf = {} /\ bmf = {}
  <2>1. Good(page, pcb["U"], "U", o["U"]) /\ pcb["U"] \in Rsv /\ page \in Flash
    BY <1>3, InvFlash, KindIs DEF Stable, Roles
  <2>2. o["U"] \in PgOff
    BY <2>1, Numbers DEF Good
  <2>3. page[pcb["U"]][o["U"]] \in Headers
    BY <2>1, <2>2, HdrTypes DEF Good, IsHdr
  <2>4. QED BY <1>5, <2>3, HdrSays, KindIs DEF Inv, RamTypes
<1>7. QED BY <1>3, <1>5, <1>6, KindIs DEF Tells

LEMMA InvUnique == Inv => NewestIsUnique
<1> SUFFICES ASSUME Inv, NEW t \in Kind, NEW b \in HdrBlks({t}), NEW c \in HdrBlks({t}),
                    b # c, page[b][0].age = page[c][0].age
             PROVE  FALSE
  BY DEF NewestIsUnique
<1>1. PICK m, s, o, top : Stable(page, m, s, o, top)
  BY InvFlash
<1>2. /\ \A d \in HdrBlks({t}) : d = m[t] \/ (d = s /\ IsHdr(page[s][0], t))
  BY <1>1, InvFlash, HdrBlksAre
<1>3. IsHdr(page[s][0], t) /\ page[s][0].age = page[m[t]][0].age
  BY <1>2
<1>4. page[s][0].age \in Nat
  BY <1>1, <1>3, InvFlash, HdrTypes, Numbers DEF IsHdr, Stable, Roles
<1>5. page[s][0].age < page[m[t]][0].age \/ page[s][0].age > page[m[t]][0].age
  BY <1>1, <1>3 DEF Stable, SpareIs, Unused, Retired, Begun, IsHdr
<1>6. QED BY <1>3, <1>4, <1>5

-----------------------------------------------------------------------------
(***************************************************************************)
(* The theorems.                                                           *)
(***************************************************************************)
\* Every variable keeps its type: an update never runs past the last page of its
\* block, and a mount takes from the flash only what belongs in RAM.
THEOREM TypeCorrect ==
  ASSUME NoFaults
  PROVE  Spec => []TypeOK
BY InvAlways, InvTypes, PTL

\* The reservoir never lends a block twice: the blocks of the store and the
\* replacements of the UPCB are different blocks, all marked in the bit map
\* that _GetFreeRB searches.  No PCB is replaced under NoFaults (bmf = {}).
THEOREM LentOnce ==
  ASSUME NoFaults
  PROVE  Spec => []LiveBlocksAllocated
BY InvAlways, InvLent, PTL

\* _UpdateMetaData programs erased pages only, whatever a torn update left
\* behind the last whole set.
THEOREM ErasedFirst ==
  ASSUME NoFaults
  PROVE  Spec => []ProgramsErasedPages
BY InvAlways, InvErased, PTL

\* Wherever the power goes off in an update, _Mount finds a whole set of each
\* table and the spare.
THEOREM MountNeverFails ==
  ASSUME NoFaults
  PROVE  Spec => []AlwaysMountable
BY InvAlways, InvMountable, PTL

\* At rest _Mount would restore what RAM holds.
THEOREM MountRestores ==
  ASSUME NoFaults
  PROVE  Spec => []RestRestores
BY InvAlways, InvRestores, PTL

\* _ScanReservoir never has to choose between two blocks of the same age.
THEOREM NewestDecided ==
  ASSUME NoFaults
  PROVE  Spec => []NewestIsUnique
BY InvAlways, InvUnique, PTL

(***************************************************************************)
(* PcbStore implements DurableMeta.  The invariant says which meta set of  *)
(* each table a mount loads, so what DurableMeta calls the disk is the     *)
(* version in that set.  Only the program of a confirm page moves it, and  *)
(* that program is the last of the update.                                 *)
(***************************************************************************)
\* A mount loads the version in the last set of each table's block.
Loads ==
  \A m, s, o, top : page \in Flash /\ bad = {} /\ Stable(page, m, s, o, top)
                      => Versions(View) = [t \in Kind |-> page[m[t]][o[t]].ver]

LEMMA LoadsAlways == Loads
<1> SUFFICES ASSUME NEW m, NEW s, NEW o, NEW top,
                    page \in Flash, bad = {}, Stable(page, m, s, o, top)
             PROVE  Versions(View) = [t \in Kind |-> page[m[t]][o[t]].ver]
  BY DEF Loads
<1>1. View = [ok |-> TRUE, spare |-> s, blk |-> m, hdr |-> [t \in Kind |-> page[m[t]][o[t]]]]
  BY ViewIs
<1>2. View.ok /\ \A t \in Kind : View.hdr[t] = page[m[t]][o[t]]
  BY <1>1
<1> DEFINE v == View
<1> HIDE DEF v
<1>3. v.ok /\ \A t \in Kind : v.hdr[t] = page[m[t]][o[t]]
  BY <1>2 DEF v
<1>4. Versions(v) = [t \in Kind |-> page[m[t]][o[t]].ver]
  BY <1>3 DEF Versions
<1>5. QED BY <1>4 DEF v

InvR == Inv /\ disk = Versions(View)

LEMMA InvRInit == InitR => InvR
BY InvInit DEF InitR, InvR

LEMMA InvRNext ==
  ASSUME InvR, NoFaults, [NextR]_<<vars, disk>>
  PROVE  InvR' /\ [Next]_vars
<1>1. CASE NextR
  BY <1>1, InvNext DEF InvR, NextR
<1>2. CASE UNCHANGED <<vars, disk>>
  <2>1. View' = View
    BY <1>2 DEF vars, flash, ramvars, job, View, HdrBlks, LocateNewest, Locate, LoadAfter, Loaded,
                Newest, ValidOff, LastConfirmOff, WholeSet, BelongsTo
  <2>2. QED BY <1>2, <2>1, InvNext DEF InvR, vars
<1>3. QED BY <1>1, <1>2

\* What a program leaves of the sets a mount loads: all of them, unless it is
\* the confirm page.
LEMMA ProgramReads ==
  ASSUME Inv, pc = "program", NEW o, NEW top, Up(o, top), NEW x \in {Free, Junk, SetPage}
  PROVE  LET q == Programmed(page, pcb[op], next[op], x)
         IN  /\ \A t \in Kind : q[Mains[t]][o[t]] = page[Mains[t]][o[t]]
             /\ \A t \in Kind : t # op => q[pcb[t]] = page[Mains[t]]
             /\ x = Confirm => q[pcb[op]][Base].ver = ver[op]
<1> DEFINE i == next[op]
           b == pcb[op]
           q == Programmed(page, b, i, x)
<1>1. /\ i \in PgOff /\ Base \in Nat /\ i = Base + pg
      /\ pg \in 0 .. MetaPgs /\ op \in Kind /\ b \in Rsv
      /\ how = "append" => Mains = pcb /\ o[op] \in Nat /\ Base > o[op] + MetaPgs
      /\ how = "make" => Spare = b
      /\ how = "append" \/ how = "make"
  BY NextPage
<1>2. /\ Stable(page, Mains, Spare, o, top) /\ Job(top) /\ page \in Flash /\ RamTypes /\ Lent
  BY DEF Up, Inv, FlashTypes
<1>3. x \in Pages /\ (x = Confirm => pg = MetaPgs)
  BY SetPageIs, PageKinds DEF Pages
<1>4. /\ \A j \in PgOff : j # i => q[b][j] = page[b][j]
      /\ \A c \in Rsv : c # b => q[c] = page[c]
  BY <1>1, <1>2, <1>3, ProgrammedIs
<1> HIDE DEF q
<1>5. \A t \in Kind : t # op => pcb[t] # b /\ pcb[t] \in Rsv /\ Mains[t] = pcb[t]
  BY <1>1, <1>2, KindIs, MainsAre DEF Lent, Roles
<1>6. q[Mains[op]][o[op]] = page[Mains[op]][o[op]]
  <2>1. CASE how = "append"
    <3>1. Good(page, b, op, o[op])
      BY <1>1, <1>2, <2>1 DEF Stable
    <3>2. o[op] \in PgOff /\ o[op] # i
      BY <1>1, <2>1, <3>1, Numbers DEF Good
    <3>3. QED BY <1>1, <1>4, <2>1, <3>2
  <2>2. CASE how = "make"
    <3>1. Mains[op] # b /\ Mains[op] \in Rsv
      BY <1>1, <1>2, <2>2, KindIs DEF Stable, Roles
    <3>2. QED BY <1>4, <3>1
  <2>3. QED BY <1>1, <2>1, <2>2
<1>7. ASSUME x = Confirm PROVE q[b][Base].ver = ver[op]
  <2>1. pg > 0 /\ Base # i /\ Base \in PgOff
    BY <1>1, <1>3, <1>7, Numbers
  <2>2. Tells(page[b][Base], op)
    BY <1>2, <2>1 DEF Job
  <2>3. QED BY <1>4, <2>1, <2>2 DEF Tells
<1>8. QED BY <1>4, <1>5, <1>6, <1>7 DEF q

\* The steps of the store as steps of DurableMeta.
LEMMA StepBegin ==
  ASSUME InvR, InvR', NoFaults, NEW t \in Tables, NEW R \in SUBSET Rsv, Begin(t, R)
  PROVE  Store!Begin(t)
<1>1. /\ pc = "idle" /\ t \in Kind /\ page' \in Flash /\ bad' = bad
      /\ \A b \in Fixed : page'[b] = page[b]
      /\ \A b \in Rsv \ Fixed : page[b][0].k # "hdr" => page'[b][0].k # "hdr"
      /\ ver' = [ver EXCEPT ![t] = ver[t] + 1] /\ op' = t /\ pc' \in {"erase", "program"}
  BY BeginCommon DEF InvR, Begin
<1>2. PICK o, top : Up(o, top)
  BY <1>1 DEF InvR, Inv
<1>3. Stable(page, Mains, Spare, o, top) /\ page \in Flash /\ bad = {}
  BY <1>2 DEF Up, InvR, Inv, FlashTypes
<1>4. \A b \in Rsv \ Fixed : page'[b][0].k # "hdr"
  BY <1>1, <1>3 DEF Stable
<1>5. PICK m, s : m = Mains /\ s = Spare
  OBVIOUS
<1>6. Stable(page, m, s, o, top) /\ Stable(page', m, s, o, top)
  BY <1>1, <1>3, <1>4, <1>5, StableElsewhere
<1>7. Loads /\ Loads'
  BY LoadsAlways, PTL
<1>8. /\ Versions(View) = [u \in Kind |-> page[m[u]][o[u]].ver]
      /\ Versions(View)' = [u \in Kind |-> page'[m[u]][o[u]].ver]
  BY <1>1, <1>3, <1>6, <1>7 DEF Loads
<1>9. \A u \in Kind : page'[m[u]] = page[m[u]]
  BY <1>1, <1>6, KindIs DEF Stable, Roles
<1>10. disk' = disk
  BY <1>8, <1>9 DEF InvR
<1>11. QED BY <1>1, <1>10 DEF Store!Begin

LEMMA StepErase ==
  ASSUME InvR, InvR', EraseOK
  PROVE  UNCHANGED Store!vars
<1>1. /\ pc = "erase" /\ page' = [page EXCEPT ![pcb[op]] = Blank(Free)] /\ pc' = "program"
      /\ UNCHANGED <<ver, op>>
  BY DEF EraseOK
<1>2. PICK o, top : Up(o, top)
  BY <1>1 DEF InvR, Inv
<1>3. PICK o1, top1 : Up(o1, top1)'
  BY <1>1 DEF InvR, Inv
<1>4. /\ RamTypes /\ JobTypes /\ page \in Flash /\ bad = {} /\ page' \in Flash /\ bad' = {}
      /\ Stable(page, Mains, Spare, o, top)
  BY <1>2 DEF Up, InvR, Inv, FlashTypes
<1>5. PICK m, s : m = Mains /\ s = Spare
  OBVIOUS
<1>6. s = pcb[op]
  BY <1>1, <1>4, <1>5 DEF Spare, Making, JobTypes
<1>7. Stable(page, m, s, o, top) /\ s \in Rsv
  BY <1>4, <1>5 DEF Stable, Roles
<1>8. page'[s] = Blank(Free) /\ \A b \in Rsv : b # s => page'[b] = page[b]
  BY <1>1, <1>4, <1>6, <1>7 DEF Flash
<1>9. Stable(page', m, s, o, top)
  BY <1>4, <1>7, <1>8, BlankPages, StableUnused
<1>10. Loads /\ Loads'
  BY LoadsAlways, PTL
<1>11. /\ Versions(View) = [u \in Kind |-> page[m[u]][o[u]].ver]
       /\ Versions(View)' = [u \in Kind |-> page'[m[u]][o[u]].ver]
  BY <1>4, <1>7, <1>9, <1>10 DEF Loads
<1>12. \A u \in Kind : page'[m[u]] = page[m[u]]
  BY <1>7, <1>8, KindIs DEF Stable, Roles
<1>13. disk' = disk
  BY <1>11, <1>12 DEF InvR
<1>14. QED BY <1>1, <1>13 DEF Store!vars

\* A program, whole or torn, that is not of a confirm page.
LEMMA DiskKept ==
  ASSUME InvR, InvR', pc = "program", NEW x \in {Free, Junk, SetPage}, x # Confirm,
         page' = Programmed(page, pcb[op], next[op], x)
  PROVE  disk' = disk
<1>1. PICK o, top : Up(o, top)
  BY DEF InvR, Inv
<1>2. /\ page \in Flash /\ bad = {} /\ page' \in Flash /\ bad' = {}
      /\ Stable(page, Mains, Spare, o, top)
  BY <1>1 DEF Up, InvR, Inv, FlashTypes
<1>3. PICK m, s : m = Mains /\ s = Spare
  OBVIOUS
<1>4. Stable(page, m, s, o, top) /\ Stable(page', m, s, o, top)
  BY <1>1, <1>2, <1>3, ProgramFlash DEF InvR
<1>5. \A u \in Kind : page'[m[u]][o[u]] = page[m[u]][o[u]]
  BY <1>1, <1>3, ProgramReads DEF InvR
<1>6. Loads /\ Loads'
  BY LoadsAlways, PTL
<1>7. /\ Versions(View) = [u \in Kind |-> page[m[u]][o[u]].ver]
      /\ Versions(View)' = [u \in Kind |-> page'[m[u]][o[u]].ver]
  BY <1>2, <1>4, <1>6 DEF Loads
<1>8. QED BY <1>5, <1>7 DEF InvR

\* The program of a confirm page.
LEMMA DiskMoves ==
  ASSUME InvR, InvR', pc = "program", pg = MetaPgs,
         page' = Programmed(page, pcb[op], next[op], Confirm)
  PROVE  disk' = [disk EXCEPT ![op] = ver[op]]
<1>1. PICK o, top : Up(o, top)
  BY DEF InvR, Inv
<1>2. /\ page \in Flash /\ bad = {} /\ page' \in Flash /\ bad' = {}
      /\ Stable(page, Mains, Spare, o, top) /\ op \in Kind
      /\ how = "append" \/ how = "make"
  BY <1>1 DEF Up, InvR, Inv, FlashTypes, JobTypes
<1>3. SetPage = Confirm /\ Base \in Nat
  BY <1>1, SetPageIs, NextPage DEF InvR
<1>4. PICK m, s, k, j, e : /\ m = Mains /\ s = Spare /\ k = pcb /\ j = tpcb
                           /\ e = [o EXCEPT ![op] = Base]
  OBVIOUS
<1>5. \E n : Stable(page', k, j, e, n)
  BY <1>1, <1>2, <1>3, <1>4, ProgramFlash DEF InvR
<1>6. Stable(page, m, s, o, top) /\ o \in [Kind -> Nat]
  BY <1>2, <1>4 DEF Stable
<1>7. Loads /\ Loads'
  BY LoadsAlways, PTL
<1>8. /\ Versions(View) = [u \in Kind |-> page[m[u]][o[u]].ver]
      /\ Versions(View)' = [u \in Kind |-> page'[k[u]][e[u]].ver]
  BY <1>2, <1>5, <1>6, <1>7 DEF Loads
<1>9. page'[k[op]][e[op]].ver = ver[op]
  BY <1>1, <1>2, <1>3, <1>4, <1>6, ProgramReads DEF InvR
<1>10. ASSUME NEW u \in Kind, u # op PROVE page'[k[u]][e[u]] = page[m[u]][o[u]]
  <2>1. page'[k[u]] = page[m[u]]
    BY <1>1, <1>3, <1>4, <1>10, ProgramReads DEF InvR
  <2>2. e[u] = o[u]
    BY <1>2, <1>4, <1>6, <1>10
  <2>3. QED BY <2>1, <2>2
<1>11. disk = [u \in Kind |-> page[m[u]][o[u]].ver] /\ disk' = [u \in Kind |-> page'[k[u]][e[u]].ver]
  BY <1>8 DEF InvR
<1>12. QED BY <1>2, <1>9, <1>10, <1>11

LEMMA StepProgram ==
  ASSUME InvR, InvR', NoFaults, ProgramOK
  PROVE  Store!Return \/ UNCHANGED Store!vars
<1>1. /\ pc = "program" /\ page' = Programmed(page, pcb[op], next[op], SetPage)
      /\ UNCHANGED <<ver, op>> /\ pg \in 0 .. MetaPgs /\ how \in {"append", "make"}
  BY DEF ProgramOK, Programmed, InvR, Inv, JobTypes
<1>2. CASE pg < MetaPgs
  <2>1. SetPage # Confirm
    BY <1>1, <1>2, SetPageIs, Numbers DEF InvR
  <2>2. disk' = disk
    BY <1>1, <2>1, DiskKept
  <2>3. pc' = pc
    BY <1>2 DEF ProgramOK
  <2>4. QED BY <1>1, <2>2, <2>3 DEF Store!vars
<1>3. CASE ~(pg < MetaPgs)
  <2>1. pg = MetaPgs /\ SetPage = Confirm
    BY <1>1, <1>3, SetPageIs, Numbers DEF InvR
  <2>2. disk' = [disk EXCEPT ![op] = ver[op]]
    BY <1>1, <2>1, DiskMoves
  <2>3. pc' = "idle"
    BY <1>1, <1>3 DEF ProgramOK, Remaking, Finish
  <2>4. op # "none"
    BY KindIs DEF InvR, Inv, JobTypes
  <2>5. QED BY <1>1, <2>2, <2>3, <2>4 DEF Store!Return
<1>4. QED BY <1>2, <1>3

LEMMA StepPowerOff ==
  ASSUME InvR, InvR', PowerOff
  PROVE  Store!PowerLoss
<1>1. /\ pc # "off" /\ page' \in Torn /\ pc' = "off" /\ ver' = ver /\ op' = op
  BY DEF PowerOff, ramvars
<1>2. /\ RamTypes /\ JobTypes /\ page \in Flash /\ bad = {} /\ page' \in Flash /\ bad' = {}
      /\ op \in Kind /\ pc \in {"idle", "erase", "program"}
  BY <1>1 DEF InvR, Inv, FlashTypes, JobTypes
<1>3. disk' = disk \/ (pc = "program" /\ disk' = [disk EXCEPT ![op] = ver[op]])
  <2>1. CASE pc = "idle"
    <3>1. page' = page /\ bad' = bad
      BY <1>1, <1>2, <2>1 DEF Torn
    <3>2. View' = View
      BY <3>1 DEF View, HdrBlks, LocateNewest, Locate, LoadAfter, Loaded,
                  Newest, ValidOff, LastConfirmOff, WholeSet, BelongsTo
    <3>3. QED BY <3>2 DEF InvR
  <2>2. CASE pc = "program"
    <3>1. PICK x \in {Free, Junk, SetPage} : page' = Programmed(page, pcb[op], next[op], x)
      BY <1>1, <2>2 DEF Torn, Programmed
    <3>2. x = Confirm => pg = MetaPgs
      BY <3>1, SetPageIs, PageKinds DEF InvR
    <3>3. QED BY <2>2, <3>1, <3>2, DiskKept, DiskMoves
  <2>3. CASE pc = "erase"
    <3>1. PICK p \in {page[pcb[op]], Blank(Free), Blank(Junk)} : page' = [page EXCEPT ![pcb[op]] = p]
      BY <1>1, <2>3 DEF Torn
    <3>2. PICK o, top : Up(o, top)
      BY <1>1 DEF InvR, Inv
    <3>3. PICK m, s : m = Mains /\ s = Spare
      OBVIOUS
    <3>4. s = pcb[op] /\ s \in Rsv
      BY <1>2, <2>3, <3>3 DEF Spare, Making, JobTypes, RamTypes
    <3>5. Stable(page, m, s, o, top)
      BY <3>2, <3>3 DEF Up
    <3>6. page'[s] = p /\ \A b \in Rsv : b # s => page'[b] = page[b]
      BY <1>2, <3>1, <3>4 DEF Flash
    <3>7. Stable(page', m, s, o, top)
      <4>1. CASE p = page[pcb[op]]
        <5>1. page' = page
          BY <1>2, <3>1, <3>4, <4>1 DEF Flash
        <5>2. QED BY <3>5, <5>1
      <4>2. CASE p # page[pcb[op]]
        <5>1. p[0].k # "hdr"
          BY <3>1, <4>2, BlankPages
        <5>2. QED BY <1>2, <3>5, <3>6, <5>1, StableUnused
      <4>3. QED BY <4>1, <4>2
    <3>8. Loads /\ Loads'
      BY LoadsAlways, PTL
    <3>9. /\ Versions(View) = [u \in Kind |-> page[m[u]][o[u]].ver]
          /\ Versions(View)' = [u \in Kind |-> page'[m[u]][o[u]].ver]
      BY <1>2, <3>5, <3>7, <3>8 DEF Loads
    <3>10. \A u \in Kind : page'[m[u]] = page[m[u]]
      BY <3>5, <3>6, KindIs DEF Stable, Roles
    <3>11. QED BY <3>9, <3>10 DEF InvR
  <2>4. QED BY <1>2, <2>1, <2>2, <2>3
<1>4. op # "none"
  BY <1>2, KindIs
<1>5. QED BY <1>1, <1>2, <1>3, <1>4 DEF Store!PowerLoss

LEMMA StepMount ==
  ASSUME InvR, Mount
  PROVE  InvR' => Store!Mount
<1>1. View.ok
  BY InvMountable DEF InvR, AlwaysMountable
<1> DEFINE v == View
<1> HIDE DEF v
<1>2. /\ pc = "off" /\ pc' = "idle" /\ ver' = [t \in Kind |-> v.hdr[t].ver]
      /\ page' = page /\ bad' = bad /\ op' = op
  BY <1>1 DEF Mount, flash, v
<1>3. View' = View
  BY <1>2 DEF View, HdrBlks, LocateNewest, Locate, LoadAfter, Loaded,
              Newest, ValidOff, LastConfirmOff, WholeSet, BelongsTo
<1>4. Versions(v) = [t \in Kind |-> v.hdr[t].ver]
  BY <1>1 DEF Versions, v
<1>5. disk = ver' /\ (InvR' => disk' = disk)
  BY <1>2, <1>3, <1>4 DEF InvR, v
<1>6. QED BY <1>2, <1>5 DEF Store!Mount

LEMMA StepStore ==
  ASSUME InvR, InvR', NoFaults, [NextR]_<<vars, disk>>
  PROVE  [Store!Next]_(Store!vars)
<1>1. ASSUME NEW t \in Tables, NEW R \in SUBSET Rsv, Begin(t, R) PROVE Store!Next
  <2>1. t \in Store!Kind
    BY TablesAssumption DEF Store!Kind, Kind
  <2>2. QED BY <1>1, <2>1, StepBegin DEF Store!Next
<1>2. CASE EraseOK
  BY <1>2, StepErase
<1>3. CASE ProgramOK
  BY <1>3, StepProgram DEF Store!Next
<1>4. CASE EraseFails \/ ProgramFails
  BY <1>4 DEF EraseFails, ProgramFails, NoFaults, InvR, Inv, FlashTypes
<1>5. CASE Retire
  BY <1>5 DEF Retire, InvR, Inv, JobTypes
<1>6. CASE PowerOff
  BY <1>6, StepPowerOff DEF Store!Next
<1>7. CASE Mount
  BY <1>7, StepMount DEF Store!Next
<1>8. CASE UNCHANGED <<vars, disk>>
  BY <1>8 DEF vars, ramvars, job, Store!vars
<1>9. QED BY <1>1, <1>2, <1>3, <1>4, <1>5, <1>6, <1>7, <1>8 DEF NextR, Next

LEMMA InitStore ==
  ASSUME InitR
  PROVE  Store!Init
<1>1. InvR /\ Inv /\ pc = "idle" /\ ver = [k \in Kind |-> 0]
  BY InvRInit, InvInit DEF InitR, Init
<1>2. RestRestores
  BY <1>1, InvRestores
<1>3. View.ok /\ \A t \in Kind : View.hdr[t].ver = 0
  BY <1>1, <1>2 DEF RestRestores
<1> DEFINE v == View
<1> HIDE DEF v
<1>4. Versions(v) = [k \in Kind |-> 0]
  BY <1>3 DEF Versions, v
<1>5. disk = ver
  BY <1>1, <1>4 DEF InvR, v
<1>6. QED BY <1>1, <1>5 DEF Store!Init, Store!Kind, Kind

\* An update of a table that returned is what every later mount loads; one the
\* power cut short left the version before it or its own, whole, and did not
\* touch the other table (_UpdateUPCB, _UpdateLPCB, _Mount).
THEOREM Durable ==
  ASSUME NoFaults
  PROVE  SpecR => ImplementsDurableMeta
<1>1. InvR /\ [NextR]_<<vars, disk>> => InvR'
  BY InvRNext
<1>2. InvR /\ InvR' /\ [NextR]_<<vars, disk>> => [Store!Next]_(Store!vars)
  BY StepStore
<1>3. InitR => InvR /\ Store!Init
  BY InvRInit, InitStore
<1>4. QED BY <1>1, <1>2, <1>3, PTL DEF SpecR, ImplementsDurableMeta, Store!Spec
=============================================================================
