------------------------------ MODULE PcbStore ------------------------------
(***************************************************************************)
(* The on-flash store of the Bad Block Manager's meta-data, one die        *)
(* (FSR_BML_BadBlkMgr.c, FSR_BML_BBMMount.c).                              *)
(*                                                                         *)
(* The store lives in three blocks of the reservoir: the UPCB (table of    *)
(* unlocked blocks), the LPCB (table of locked-tight blocks) and the TPCB  *)
(* (a spare that takes the next rewrite).  One copy of a table is a meta   *)
(* set: MetaPgs data pages, the first of which carries the header with its *)
(* ages, then an all-zero confirm page.  A set is appended to its block;   *)
(* when the block is full, or was last written before the power went down, *)
(* the set goes to the TPCB and the two blocks swap roles.  A block that   *)
(* fails to program or to erase is replaced from the reservoir.            *)
(*                                                                         *)
(* Every page program and block erase is a step, and the power may go off  *)
(* before, after or in the middle of any of them.  Mount reads the flash   *)
(* back and nothing else.                                                  *)
(***************************************************************************)
EXTENDS Integers, FiniteSets, FiniteSetsExt

CONSTANTS
  Rsv,         \* reserved blocks a PCB may occupy
  Format,      \* [U |-> b, L |-> b, T |-> b]: blocks _Format gave to the PCBs
  HybridRsv,   \* TRUE: _GetFreeRB scans upwards; FALSE: downwards
  MetaPgs,     \* BML_NUM_OF_META_PGS, data pages of a meta set
  PgsPerPCB,   \* pages in a PCB block
  Tables,      \* tables the environment updates, a subset of Kind
  Remaps,      \* tables whose updates may bring in a replacement block
  TornWrites,  \* TRUE: power may go off at any time; FALSE: only at rest
  MaxBMFs,     \* Block Map Fields that fit in the table (nNumOfBMFs)
  MaxVer, MaxFail, MaxOff   \* bounds on updates, failures and power losses

Kind == {"U", "L"}
SetPgs == MetaPgs + 1

ASSUME RsvAssumption == Rsv \subseteq Nat /\ IsFiniteSet(Rsv)
ASSUME FormatAssumption ==
  /\ Format \in [{"U", "L", "T"} -> Rsv]
  /\ \A x, y \in {"U", "L", "T"} : x # y => Format[x] # Format[y]
ASSUME PageAssumption ==
  MetaPgs \in Nat \ {0} /\ PgsPerPCB \in Nat /\ MetaPgs < PgsPerPCB
ASSUME TablesAssumption == Tables \subseteq Kind /\ Remaps \subseteq Kind
ASSUME BMFAssumption == MaxBMFs \in Nat
ASSUME BoundAssumption == MaxVer \in Nat /\ MaxFail \in Nat /\ MaxOff \in Nat

VARIABLES
  page,     \* flash: page[b][i]
  bad,      \* flash: blocks that carry a bad mark
  pcb,      \* nUPCBSbn, nLPCBSbn
  tpcb,     \* nTPCBSbn
  next,     \* nNextUPCBPgOff, nNextLPCBPgOff
  age,      \* nUPcbAge, nLPcbAge
  gage,     \* nGlobalPCBAge
  keep,     \* bKeepUPCB, bKeepLPCB
  first,    \* nFirstUpdateUPCB, nFirstUpdateLPCB
  alloc,    \* pBABitMap: reserved blocks in use
  rbn,      \* rbn[k]: replacement blocks of user blocks, by the BMFs of table k
  bmf,      \* the BMFs of replaced PCBs
  ver,      \* ver[k]: version of table k in RAM
  pc,       \* where the update stands
  op,       \* table being updated
  how,      \* "append", "make" (rewrite on the spare), or the same on a block
            \* from the reservoir after a failure: "reappend", "remake"
  old,      \* nOldPcb, the block a remake replaces
  pg,       \* page of the meta set to program next
  fails, offs   \* counters for the bounds

flash == <<page, bad>>
ramvars == <<pcb, tpcb, next, age, gage, keep, first, alloc, rbn, bmf, ver>>
job == <<pc, op, how, old, pg>>
vars == <<flash, ramvars, job, fails, offs>>

PgOff == 0 .. (PgsPerPCB - 1)
Free == [k |-> "free"]
Junk == [k |-> "junk"]         \* uncorrectable, bad-marked or user data
Body == [k |-> "body"]
Confirm == [k |-> "confirm"]

\* A BMF goes into the table its nSbn belongs to.  A PCB is a block of no
\* partition (_LookUpPartAttr), so its BMF goes into the UPCB.
Unlocked(t) == IF t = "U" THEN bmf ELSE {}
HdrOldBitMap(t, a, g) ==                                               \* mutant
  [k |-> "hdr", sig |-> t, age |-> a, gage |-> g, tpcb |-> tpcb,
   ver |-> ver[t], rbn |-> rbn[t], bmf |-> Unlocked(t), alloc |-> alloc \ rbn[t]]
Hdr(t, a, g) ==
  [k |-> "hdr", sig |-> t, age |-> a, gage |-> g, tpcb |-> tpcb,
   ver |-> ver[t], rbn |-> rbn[t], bmf |-> Unlocked(t), alloc |-> alloc]
Blank(p) == [i \in PgOff |-> p]
-----------------------------------------------------------------------------
(***************************************************************************)
(* Reading the flash back.                                                 *)
(***************************************************************************)
\* _ScanReservoir looks at page 0 of the blocks that carry no bad mark.
HdrBlks(T) == {b \in Rsv \ bad : page[b][0].k = "hdr" /\ page[b][0].sig \in T}

\* The block whose header has the highest field f (the age within a table, the
\* global age over both), the lowest block among equals.
Newest(T, f) ==
  CHOOSE b \in HdrBlks(T) :
    \A c \in HdrBlks(T) :
      \/ page[c][0][f] < page[b][0][f]
      \/ page[c][0][f] = page[b][0][f] /\ b <= c

FirstNotLast(S) == IF S = {} THEN -1 ELSE Min(S)                        \* mutant
Last(S) == IF S = {} THEN -1 ELSE Max(S)

\* Where the scan for the latest confirm page stops: the first programmed
\* page, from the end, among those a confirm page may occupy.
LastConfirmOff[b \in Rsv] ==
  Last({i \in PgOff : (i + 1) % SetPgs = 0 /\ page[b][i] # Free})

\* _FindValidMetaData: offset of the last meta set, at or below that page,
\* that reads back whole; -1 if there is none.
WholeSet(b, i) == /\ page[b][i + MetaPgs] = Confirm
                  /\ \A j \in i .. (i + MetaPgs - 1) : page[b][j] # Junk
ValidOff[b \in Rsv] ==
  Last({i \in 0 .. (LastConfirmOff[b] - MetaPgs) : WholeSet(b, i)})

\* _Mount for table t: the block and the offset to load from, and the block
\* that ends up as the spare.  The last set of the spare counts only when it
\* belongs to the table asked for.
Place(b, i, s) == [blk |-> b, off |-> i, spare |-> s]
BelongsTo(b, i, T) == i >= 0 /\ page[b][i].k = "hdr" /\ page[b][i].sig \in T
Locate == [q \in [tab : Kind, cur : Rsv, spare : Rsv] |->
  IF ValidOff[q.cur] >= 0 THEN Place(q.cur, ValidOff[q.cur], q.spare)
  ELSE Place(q.spare, IF BelongsTo(q.spare, ValidOff[q.spare], {q.tab})
                      THEN ValidOff[q.spare] ELSE -1, q.cur)]

\* What a mount of the present flash would load: the LPCB is looked for first
\* and what it leaves as the spare is the spare of the UPCB.
LocateNewest(t, s) == Locate[[tab |-> t, cur |-> Newest({t}, "age"), spare |-> s]]
Places == [blk : Rsv, off : -1 .. (PgsPerPCB - 1), spare : Rsv]
NotFound == [ok |-> FALSE]
Loaded == [p \in [Kind -> Places] |->
  IF \A t \in Kind : BelongsTo(p[t].blk, p[t].off, Kind)
  THEN [ok |-> TRUE, spare |-> p["U"].spare, blk |-> [t \in Kind |-> p[t].blk],
        hdr |-> [t \in Kind |-> page[p[t].blk][p[t].off]]]
  ELSE NotFound]
LoadAfter[l \in Places] ==
  Loaded[[t \in Kind |-> IF t = "L" THEN l ELSE LocateNewest("U", l.spare)]]
View ==
  IF HdrBlks({"U"}) = {} \/ HdrBlks({"L"}) = {} THEN NotFound
  ELSE LoadAfter[LocateNewest("L", page[Newest(Kind, "gage")][0].tpcb)]
-----------------------------------------------------------------------------
(***************************************************************************)
(* Initial state: the volume was formatted and then mounted.               *)
(***************************************************************************)
FormatHdr(t, g) ==
  [k |-> "hdr", sig |-> t, age |-> 1, gage |-> g, tpcb |-> Format.T,
   ver |-> 0, rbn |-> {}, bmf |-> {}, alloc |-> {Format[x] : x \in DOMAIN Format}]
FormatSet(h) == [i \in PgOff |-> IF i = 0 THEN h
                                 ELSE IF i < MetaPgs THEN Body
                                 ELSE IF i = MetaPgs THEN Confirm ELSE Free]

Init ==
  /\ page = [b \in Rsv |-> IF b = Format.L THEN FormatSet(FormatHdr("L", 1))
                           ELSE IF b = Format.U THEN FormatSet(FormatHdr("U", 2))
                           ELSE Blank(Free)]
  /\ bad = {}
  /\ pcb = [k \in Kind |-> Format[k]] /\ tpcb = Format.T
  /\ next = [k \in Kind |-> SetPgs]
  /\ age = [k \in Kind |-> 1] /\ gage = 2
  /\ keep = [k \in Kind |-> FALSE] /\ first = [k \in Kind |-> 0]
  /\ alloc = {Format[x] : x \in DOMAIN Format}
  /\ rbn = [k \in Kind |-> {}] /\ bmf = {} /\ ver = [k \in Kind |-> 0]
  /\ pc = "idle" /\ op = "U" /\ how = "append" /\ old = Format.U /\ pg = 0
  /\ fails = 0 /\ offs = 0
-----------------------------------------------------------------------------
(***************************************************************************)
(* Updating a table.                                                       *)
(***************************************************************************)
\* _GetFreeRB: the first block whose allocation bit is clear, in scan order.
FirstFreeOrSpare(b) ==                                                 \* mutant
  /\ b \in (Rsv \ alloc) \cup {tpcb}
  /\ \A c \in Rsv \ alloc : IF HybridRsv THEN b <= c ELSE c <= b
FirstFree(b) == /\ b \in Rsv \ alloc
                /\ \A c \in Rsv \ alloc : IF HybridRsv THEN b <= c ELSE c <= b

\* _RegBMF: there is room in the table (nNumOfBMFs counts the BMFs of both
\* tables), and the BMF of block s is made to name r.  When s had one already,
\* the block it named so far gets a BMF of its own, unless it has one.
BMFRoom == Cardinality(bmf) + Cardinality(rbn["U"]) + Cardinality(rbn["L"]) < MaxBMFs
RegBMF(s, r) ==
  LET was == {m.rbn : m \in {n \in bmf : n.sbn = s}} \ {n.sbn : n \in bmf}
  IN  bmf' = {m \in bmf : m.sbn # s} \cup [sbn : {s} \cup was, rbn : {r}]

\* The room test of _UpdateUPCB and _UpdateLPCB, on the flags of this update.
AppendsNoRoomTest(t, kp) == next[t] > 0 /\ kp[t]                       \* mutant
AppendsAfterMount(t, kp) == PgsPerPCB - next[t] >= SetPgs /\ next[t] > 0 \* mutant
Appends(t, kp) == /\ next[t] < PgsPerPCB /\ PgsPerPCB - next[t] >= SetPgs
                  /\ next[t] > 0
                  /\ kp[t]

\* A rewrite goes to the spare, unless the block has nothing written in it yet.
StayInPlace(t) == UNCHANGED <<pcb, tpcb>> /\ next' = [next EXCEPT ![t] = 0] \* mutant
SwapRoles(t) ==
  \/ /\ next[t] # 0 /\ next' = [next EXCEPT ![t] = 0]
     /\ pcb' = [pcb EXCEPT ![t] = tpcb] /\ tpcb' = pcb[t]
  \/ next[t] = 0 /\ UNCHANGED <<pcb, tpcb, next>>

\* An update starts.  R holds the replacement block that HandleBadBlk took
\* from the reservoir and filled with the data of the bad block, if any.  With
\* the table full it is lost: no BMF names it and the update goes on.
\* On the first update after a mount _UpdateUPCB and _UpdateLPCB both clear
\* bKeepUPCB.
Begin(t, R) ==
  LET kp == IF first[t] = 0 THEN [keep EXCEPT !["U"] = FALSE] ELSE keep
  IN  /\ pc = "idle" /\ ver[t] < MaxVer
      /\ R = {} \/ \E b \in Rsv : FirstFree(b) /\ R = {b} /\ t \in Remaps
      /\ page' = [b \in Rsv |-> IF b \in R THEN Blank(Junk) ELSE page[b]]
      /\ alloc' = alloc \cup R
      /\ rbn' = IF BMFRoom THEN [rbn EXCEPT ![t] = @ \cup R] ELSE rbn
      /\ ver' = [ver EXCEPT ![t] = @ + 1]
      /\ keep' = kp
      /\ first' = [first EXCEPT ![t] = 1]
      /\ op' = t /\ pg' = 0
      /\ \/ /\ Appends(t, kp)
            /\ pc' = "program" /\ how' = "append"
            /\ UNCHANGED <<pcb, tpcb, next>>
         \/ /\ ~Appends(t, kp) /\ pc' = "erase" /\ how' = "make"
            /\ SwapRoles(t)
      /\ UNCHANGED <<bad, age, gage, bmf, old, fails, offs>>

\* The update is written; a rewrite makes the block the one to append to.
Finish == /\ pc' = "idle" /\ pg' = 0
          /\ keep' = IF how = "make" THEN [keep EXCEPT ![op] = TRUE] ELSE keep

Remaking == how \in {"remake", "reappend"}

\* _AllocPCB: the table moves to a block of the reservoir.
AllocPCB(b) == /\ FirstFree(b)
               /\ pcb' = [pcb EXCEPT ![op] = b] /\ alloc' = alloc \cup {b}

\* A write or erase failed: _AllocPCB takes another block and _RegBMF names it
\* as the replacement of the one that failed.  The loop after a failed append
\* replaces the block that failed last; the loop after a failed rewrite always
\* names the first one (nCurPCBSbn).  Without a free block, or with the table
\* full, the update ends in a critical error.
Failed == IF how = "remake" THEN old ELSE pcb[op]
Relocate ==
  /\ pg' = 0
  /\ \/ \E b \in Rsv :
          /\ AllocPCB(b)
          /\ \/ /\ BMFRoom
                /\ RegBMF(Failed, b) /\ old' = Failed
                /\ pc' = "erase"
                /\ how' = IF how \in {"append", "reappend"} THEN "reappend" ELSE "remake"
             \/ /\ ~BMFRoom
                /\ pc' = "dead" /\ UNCHANGED <<old, bmf, how>>
     \/ /\ Rsv \subseteq alloc
        /\ pc' = "dead" /\ UNCHANGED <<old, pcb, alloc, bmf, how>>

\* _MakeUPCB, _MakeLPCB: erase the block ...
EraseOK ==
  /\ pc = "erase"
  /\ page' = [page EXCEPT ![pcb[op]] = Blank(Free)]
  /\ bad' = bad \ {pcb[op]}
  /\ next' = [next EXCEPT ![op] = 0]
  /\ pc' = "program" /\ pg' = 0
  /\ UNCHANGED <<pcb, tpcb, age, gage, keep, first, alloc, rbn, bmf, ver,
                 op, how, old, fails, offs>>

EraseFails ==
  /\ pc = "erase" /\ fails < MaxFail
  /\ fails' = fails + 1
  /\ \E p \in {page[pcb[op]], Blank(Junk)} : page' = [page EXCEPT ![pcb[op]] = p]
  /\ IF Remaking
     THEN pc' = "retire" /\ pg' = -1 /\ UNCHANGED <<old, pcb, alloc, bmf, how>>
     ELSE Relocate
  /\ UNCHANGED <<bad, tpcb, next, age, gage, keep, first, rbn, ver, op, offs>>

\* ... and _UpdateMetaData: program the pages of the set in order.  _MakePCH
\* takes new ages for the header, whether or not the page is written.
SetPage == IF pg = 0 THEN Hdr(op, age[op] + 1, gage + 1)
           ELSE IF pg < MetaPgs THEN Body ELSE Confirm
TakeNoAges == UNCHANGED <<age, gage>>                                  \* mutant
TakeAges == IF pg = 0
            THEN age' = [age EXCEPT ![op] = @ + 1] /\ gage' = gage + 1
            ELSE UNCHANGED <<age, gage>>

ProgramOK ==
  /\ pc = "program"
  /\ page' = [page EXCEPT ![pcb[op]][next[op]] = SetPage]
  /\ TakeAges
  /\ next' = [next EXCEPT ![op] = @ + 1]
  /\ IF pg < MetaPgs
     THEN pg' = pg + 1 /\ UNCHANGED <<pc, keep>>
     ELSE IF Remaking THEN pc' = "retire" /\ pg' = 0 /\ UNCHANGED keep
     ELSE Finish
  /\ UNCHANGED <<bad, pcb, tpcb, first, alloc, rbn, bmf, ver, op, how, old,
                 fails, offs>>

ProgramFails ==
  /\ pc = "program" /\ fails < MaxFail
  /\ fails' = fails + 1
  /\ \E p \in {Junk, SetPage} : page' = [page EXCEPT ![pcb[op]][next[op]] = p]
  /\ TakeAges
  /\ IF Remaking
     THEN pc' = "retire" /\ pg' = -1 /\ UNCHANGED <<old, pcb, alloc, bmf, how>>
     ELSE Relocate
  /\ UNCHANGED <<bad, tpcb, next, keep, first, rbn, ver, op, offs>>

\* _MakeBadBlk and _DeletePcb destroy the replaced block, whether the set was
\* written to the new block (pg = 0) or not (pg = -1).  Errors of these
\* programs are ignored.
Retire ==
  /\ pc = "retire"
  /\ \/ /\ page' = [page EXCEPT ![old] = [@ EXCEPT ![0] = Junk, ![1] = Junk]]
        /\ bad' = bad \cup {old}
        /\ UNCHANGED fails
     \/ fails < MaxFail /\ fails' = fails + 1 /\ UNCHANGED flash
  /\ IF pg = 0
     THEN /\ pc' = "idle" /\ pg' = 0
          /\ keep' = IF how = "remake" THEN [keep EXCEPT ![op] = TRUE] ELSE keep
          /\ UNCHANGED <<old, pcb, alloc, bmf, how>>
     ELSE Relocate /\ UNCHANGED keep
  /\ UNCHANGED <<tpcb, next, age, gage, first, rbn, ver, op, offs>>
-----------------------------------------------------------------------------
(***************************************************************************)
(* Power.                                                                  *)
(***************************************************************************)
\* What a program or an erase may leave behind when the power goes off in it.
Torn == IF pc = "program"
        THEN {[page EXCEPT ![pcb[op]][next[op]] = p] : p \in {Free, Junk, SetPage}}
        ELSE IF pc = "erase"
        THEN {[page EXCEPT ![pcb[op]] = p] :
                p \in {page[pcb[op]], Blank(Free), Blank(Junk)}}
        ELSE {page}

PowerOff ==
  /\ pc # "off" /\ offs < MaxOff
  /\ pc = "idle" \/ TornWrites
  /\ page' \in Torn
  /\ pc' = "off" /\ offs' = offs + 1
  /\ UNCHANGED <<bad, ramvars, op, how, old, pg, fails>>

\* FSR_BBM_Mount: RAM is rebuilt from flash.  The bit map comes from the UPCB.
Mount ==
  /\ pc = "off"
  /\ \E v \in {View} :
       IF v.ok
       THEN /\ pcb' = v.blk /\ tpcb' = v.spare
            /\ next' = [t \in Kind |-> LastConfirmOff[v.blk[t]] + 1]
            /\ age' = [t \in Kind |-> v.hdr[t].age]
            /\ gage' = Last({page[Newest(Kind, "gage")][0].gage, v.hdr["U"].gage, v.hdr["L"].gage})
            /\ keep' = [t \in Kind |-> FALSE] /\ first' = [t \in Kind |-> 0]
            /\ alloc' = v.hdr["U"].alloc
            /\ rbn' = [t \in Kind |-> v.hdr[t].rbn] /\ bmf' = v.hdr["U"].bmf
            /\ ver' = [t \in Kind |-> v.hdr[t].ver]
            /\ pc' = "idle"
       ELSE pc' = "dead" /\ UNCHANGED ramvars
  /\ pg' = 0
  /\ UNCHANGED <<flash, op, how, old, fails, offs>>

Next == \/ \E t \in Tables, R \in SUBSET Rsv : Begin(t, R)
        \/ EraseOK \/ EraseFails \/ ProgramOK \/ ProgramFails \/ Retire
        \/ PowerOff \/ Mount

Spec == Init /\ [][Next]_vars
-----------------------------------------------------------------------------
TypeOK ==
  /\ bad \subseteq Rsv /\ alloc \subseteq Rsv
  /\ pcb \in [Kind -> Rsv] /\ tpcb \in Rsv /\ old \in Rsv
  /\ next \in [Kind -> 0 .. PgsPerPCB]
  /\ age \in [Kind -> Nat] /\ gage \in Nat
  /\ keep \in [Kind -> BOOLEAN] /\ first \in [Kind -> {0, 1}]
  /\ rbn \in [Kind -> SUBSET Rsv] /\ bmf \subseteq [sbn : Rsv, rbn : Rsv]
  /\ ver \in [Kind -> 0 .. MaxVer]
  /\ pc \in {"idle", "erase", "program", "retire", "off", "dead"}
  /\ op \in Kind /\ how \in {"append", "make", "reappend", "remake"}
  /\ pg \in -1 .. MetaPgs
  /\ fails \in 0 .. MaxFail /\ offs \in 0 .. MaxOff
  /\ DOMAIN page = Rsv /\ \A b \in Rsv : DOMAIN page[b] = PgOff

Mounted == pc \notin {"off", "dead"}

\* The reservoir never lends a block twice: the three PCBs, the replacement
\* blocks of both tables and the PCBs that were replaced are different blocks,
\* and the bit map that _GetFreeRB searches marks each of them, and each block
\* a BMF names, as in use.
PCBs == {pcb["U"], pcb["L"], tpcb}
Lost == {m.sbn : m \in bmf}
LiveBlocksAllocated ==
  Mounted => /\ pcb["U"] # pcb["L"] /\ tpcb \notin {pcb["U"], pcb["L"]}
             /\ rbn["U"] \cap rbn["L"] = {}
             /\ PCBs \cap (rbn["U"] \cup rbn["L"]) = {}
             /\ Lost \cap (PCBs \cup rbn["U"] \cup rbn["L"]) = {}
             /\ PCBs \cup rbn["U"] \cup rbn["L"] \cup Lost \cup {m.rbn : m \in bmf}
                  \subseteq alloc

\* A page is programmed once between erases: what an interrupted update left
\* behind the last whole set is never written over.
ProgramsErasedPages ==
  pc = "program" => page[pcb[op]][next[op]] = Free

\* Whenever the power goes off, a mount finds a whole set of each table.
AlwaysMountable == View.ok

\* At rest, a mount of the flash would restore what RAM holds: the blocks and
\* their roles, the version of each table and its replacement blocks, the BMFs
\* of replaced PCBs and the bit map of the reservoir.
RestRestores ==
  pc = "idle" => \E v \in {View} :
                   /\ v.ok /\ v.blk = pcb /\ v.spare = tpcb
                   /\ \A t \in Kind : v.hdr[t].ver = ver[t] /\ v.hdr[t].rbn = rbn[t]
                   /\ v.hdr["U"].alloc = alloc /\ v.hdr["U"].bmf = bmf

\* An update that gives up on its first failed program or erase, because no
\* block is free or the table of BMFs is full, has swapped roles in RAM for
\* nothing, but not on flash: a mount finds both tables, the other one as it
\* was and this one before the update or, if all of its set was programmed,
\* after it.
GivesUpWhole ==
  pc = "dead" /\ how \in {"append", "make"} =>
    \E v \in {View} : /\ v.ok
                      /\ \A t \in Kind \ {op} : v.hdr[t].ver = ver[t]
                      /\ v.hdr[op].ver \in {ver[op] - 1, ver[op]}

\* The block that a mount takes for a table is not a tie between two blocks:
\* no two usable blocks of one table start with the same, highest age.
NewestIsUnique ==
  \A t \in Kind : \A b, c \in HdrBlks({t}) :
    b # c /\ page[b][0].age = page[c][0].age
      => \E d \in HdrBlks({t}) : page[d][0].age > page[b][0].age
=============================================================================
