---------------------------- MODULE EraseRefresh ----------------------------
(***************************************************************************)
(* Erase refresh and bad block replacement on one die with one plane       *)
(* (FSR_BML_BadBlkMgr.c).                                                  *)
(*                                                                         *)
(* A block whose data was found disturbed by reads is rewritten in place:  *)
(* copy it to the REF block, note COPIED in the Erase Refresh List (ERL)   *)
(* on flash, erase it, copy it back, take it off the list on flash.  Any   *)
(* erase or program may fail; FSR_BBM_HandleBadBlk then replaces the block *)
(* by a reserved one.  The power may go off between any two operations of  *)
(* the flash, or in the middle of one; the next open takes the refresh up  *)
(* where the list on flash says it was.                                    *)
(*                                                                         *)
(* The tables on flash are written in one step here: what PcbStore shows   *)
(* of _UpdateUPCB when its own blocks do not fail.                         *)
(***************************************************************************)
EXTENDS EraseRefreshList

CONSTANTS
  User,        \* user blocks (Sbn), all of them unlocked or in Tight
  Rsv,         \* blocks of the reservoir, those of the PCBs left out
  REF0,        \* the reserved block that holds the copy at first
  Tight,       \* user blocks of a locked-tight partition
  HybridRsv,   \* TRUE: _GetFreeRB scans upwards; FALSE: downwards
  MaxBMF,      \* entries the Block Map Field table takes
  Partial,     \* FSR_BML_MAX_PROCESSABLE_ERL_CNT
  Opens,       \* how FSR_BML_Open is called: "partial", "all", "skip"
  MaxDisturb, MaxEraseFail, MaxProgFail, MaxOff   \* bounds

Blk == User \cup Rsv
Erased == 0
Junk == -1     \* uncorrectable, half written or bad-marked
NoRbn == 0

ASSUME BlockAssumption ==
  /\ User \subseteq Nat \ {0} /\ Rsv \subseteq Nat \ {0} /\ User \cap Rsv = {}
  /\ User # {} /\ REF0 \in Rsv /\ Tight \subseteq User /\ NoSbn \notin Blk
ASSUME LimitAssumption ==
  /\ MaxBMF \in Nat /\ Partial \in Nat /\ HybridRsv \in BOOLEAN
  /\ Opens \subseteq {"partial", "all", "skip"}
ASSUME CountAssumption ==
  /\ MaxDisturb \in Nat /\ MaxEraseFail \in Nat
  /\ MaxProgFail \in Nat /\ MaxOff \in Nat

VARIABLES
  data,     \* flash: data[p] is the user block whose data p holds, or Erased
  want,     \* user blocks that hold data the user has not erased
  disk,     \* flash: the tables a mount would load
  erl, inRAM,            \* *pstERL, nERLCntInRAM
  bmf, rb, ref,          \* pstBMF, pBABitMap, nREFSbn
  pc, who,               \* the next operation, and for whom
  idx, osbn, org,        \* nIdx, nOrgSbn, nOrgPbn
  todo, done, re,        \* nCnt, nProcessedCnt, nBBMRe
  hb,                    \* the call of FSR_BBM_HandleBadBlk under way
  disturbs, efails, pfails, offs   \* counters for the bounds

tables == <<erl, bmf, rb, ref>>
ram == <<tables, inRAM>>
loop == <<idx, osbn, org, todo, done, re>>
bounds == <<disturbs, efails, pfails, offs>>
vars == <<data, want, disk, ram, pc, who, loop, hb, bounds>>

Trans(x) == IF bmf[x] = NoRbn THEN x ELSE bmf[x]     \* _TransSbn2Pbn
AnySbn == CHOOSE s \in User : TRUE                  \* a local out of use
NoCall == [sbn |-> AnySbn, why |-> "erase", bad |-> AnySbn, ret |-> "run"]

Init ==
  /\ data = [p \in Blk |-> IF p \in User THEN p ELSE Erased]
  /\ want = User
  /\ erl = EmptyERL /\ inRAM = 0
  /\ bmf = [x \in Blk |-> NoRbn] /\ rb = {REF0} /\ ref = REF0
  /\ disk = [erl |-> erl, bmf |-> bmf, rb |-> rb, ref |-> ref]
  /\ pc = "run" /\ who = "user"
  /\ idx = 0 /\ osbn = AnySbn /\ org = AnySbn /\ todo = 0 /\ done = 0 /\ re = "ok"
  /\ hb = NoCall
  /\ disturbs = 0 /\ efails = 0 /\ pfails = 0 /\ offs = 0
-----------------------------------------------------------------------------
(***************************************************************************)
(* Operations of the flash.                                                *)
(***************************************************************************)
ErasesBlk(p) == data' = [data EXCEPT ![p] = Erased] /\ UNCHANGED bounds
CopiesTo(d, p) == data' = [data EXCEPT ![p] = d] /\ UNCHANGED bounds
EraseFails(p) ==
  /\ efails < MaxEraseFail /\ efails' = efails + 1
  /\ data' \in {data, [data EXCEPT ![p] = Junk]}
  /\ UNCHANGED <<disturbs, pfails, offs>>
ProgramFails(p) ==
  /\ pfails < MaxProgFail /\ pfails' = pfails + 1
  /\ data' = [data EXCEPT ![p] = Junk]
  /\ UNCHANGED <<disturbs, efails, offs>>

\* _UpdateUPCB, as PcbStore does it.
StoreTables == disk' = [erl |-> erl', bmf |-> bmf', rb |-> rb', ref |-> ref']

\* The call returns, and with it its locals end.
Return(p) == /\ pc' = p /\ who' = "user" /\ hb' = NoCall
             /\ idx' = 0 /\ osbn' = AnySbn /\ org' = AnySbn
             /\ todo' = 0 /\ done' = 0
-----------------------------------------------------------------------------
(***************************************************************************)
(* FSR_BBM_HandleBadBlk, and what its caller does with the answer.         *)
(***************************************************************************)
Call(s, why, ret) ==
  pc' = "hbTake" /\ hb' = [sbn |-> s, why |-> why, bad |-> s, ret |-> ret]

FirstFreeOrREF(b) == /\ b \in (Rsv \ rb) \cup {ref}                    \* mutant
                     /\ \A c \in Rsv \ rb : IF HybridRsv THEN b <= c ELSE c <= b
FirstFree(b) == /\ b \in Rsv \ rb
                /\ \A c \in Rsv \ rb : IF HybridRsv THEN b <= c ELSE c <= b

\* _RegBMF.  A block replaced for the second time leaves an entry of its own.
BMFs == {x \in Blk : bmf[x] # NoRbn}
RegBMFSwapped(s, r) == [bmf EXCEPT ![r] = s]                           \* mutant
RegBMF(s, r) ==
  IF Cardinality(BMFs) >= MaxBMF THEN bmf
  ELSE IF bmf[s] \in Rsv /\ bmf[bmf[s]] = NoRbn
       THEN [bmf EXCEPT ![s] = r, ![bmf[s]] = r]
       ELSE [bmf EXCEPT ![s] = r]

\* _GetRepBlk finds a block and it is registered.  After a write error the
\* block is erased first (_CopyBlk; the callers here have no pages to keep)
\* and the bad block leaves the ERL.
HbTake ==
  /\ pc = "hbTake"
  /\ \E f \in Rsv :
       /\ FirstFree(f)
       /\ rb' = rb \cup {f}
       /\ \/ /\ IF hb.why = "write"
                THEN ErasesBlk(f) /\ erl' = DeleteERL(erl, Trans(hb.sbn))
                ELSE UNCHANGED <<data, bounds, erl>>
             /\ bmf' = RegBMF(hb.sbn, f)
             /\ hb' = [hb EXCEPT !.bad = Trans(hb.sbn)]
             /\ pc' = "hbStore"
          \/ \* the new block cannot be erased: it is marked, the next is tried
             /\ hb.why = "write" /\ EraseFails(f) /\ data'[f] = Junk
             /\ UNCHANGED <<pc, erl, bmf, hb>>
  /\ UNCHANGED <<want, disk, inRAM, ref, who, loop>>

\* No reserved block is left.  The refresh goes on with the next entry.  A
\* user's call returns the error.  FSR_BML_Open reports the error of
\* FSR_BBM_ChkRefreshBlk, except for the last erase: that one becomes
\* FSR_BML_CRITICAL_ERROR, which the open takes no notice of.
HbNoRsv ==
  /\ pc = "hbTake" /\ Rsv \subseteq rb
  /\ \/ /\ who \in {"open", "run"} /\ re' = "no_rsv"
        /\ IF hb.ret = "eraseREFLast"
           THEN Return(IF who = "open" THEN "failed" ELSE "run")
           ELSE /\ pc' = "next" /\ idx' = idx + 1 /\ hb' = NoCall
                /\ UNCHANGED <<who, osbn, org, todo, done>>
     \/ /\ who = "chk" /\ UNCHANGED re
        /\ Return(IF hb.ret = "eraseREFLast" THEN "run" ELSE "failed")
     \/ who = "user" /\ Return("run") /\ UNCHANGED re
  /\ UNCHANGED <<data, want, disk, ram, bounds>>

HbStore ==
  /\ pc = "hbStore" /\ pc' = "hbMark"
  /\ UNCHANGED tables /\ StoreTables
  /\ UNCHANGED <<data, want, inRAM, who, loop, hb, bounds>>

\* _MakeBadBlk; then the caller looks up where its block is now.
HbMarkOldBlock ==                                                      \* mutant
  /\ pc = "hbMark" /\ pc' = hb.ret /\ hb' = NoCall
  /\ data' = [data EXCEPT ![hb.bad] = Junk]
  /\ UNCHANGED <<want, disk, ram, who, loop, bounds>>
HbMark ==
  /\ pc = "hbMark" /\ pc' = hb.ret /\ hb' = NoCall
  /\ data' = [data EXCEPT ![hb.bad] = Junk]
  /\ IF hb.sbn = ref THEN ref' = Trans(ref) /\ UNCHANGED org
                     ELSE org' = Trans(hb.sbn) /\ UNCHANGED ref
  /\ UNCHANGED <<want, disk, erl, inRAM, bmf, rb, who, idx, osbn, todo, done,
                 re, bounds>>
-----------------------------------------------------------------------------
(***************************************************************************)
(* FSR_BBM_RefreshByErase.                                                 *)
(***************************************************************************)
StartRefresh(w, n) ==
  /\ pc' = "next" /\ who' = w
  /\ idx' = 0 /\ todo' = n /\ done' = 0 /\ re' = "ok"
  /\ UNCHANGED <<osbn, org>>

EntriesFromStart == {i \in Slot : erl.slot[i] # Hole}                    \* mutant
Entries == {i \in Slot : i >= idx /\ erl.slot[i] # Hole}
Outcome == IF who = "open" /\ re = "no_rsv" THEN "failed" ELSE "run"
LoopEnds == done >= todo \/ Entries = {}

NextEntry ==
  /\ pc = "next" /\ ~LoopEnds
  /\ \E i \in Entries : LET s == erl.slot[i].sbn IN
       /\ \A j \in Entries : i <= j
       /\ \/ /\ s \in User \ Tight
             /\ idx' = i /\ osbn' = s /\ org' = Trans(s) /\ pc' = "eraseREF"
             /\ UNCHANGED <<ram, disk>>
          \/ \* locked tight, or not a block: the entry goes
             /\ s \notin User \ Tight
             /\ idx' = i + 1 /\ erl' = DropERL(erl, i)
             /\ UNCHANGED <<inRAM, bmf, rb, ref>> /\ StoreTables
             /\ UNCHANGED <<osbn, org, pc>>
  /\ UNCHANGED <<data, want, who, todo, done, re, hb, bounds>>

EndLoop ==
  /\ pc = "next" /\ LoopEnds
  /\ \/ /\ done > 0 /\ pc' = "eraseREFLast"
        /\ UNCHANGED <<who, idx, osbn, org, todo, done, hb>>
     \/ done = 0 /\ Return(Outcome)
  /\ UNCHANGED <<data, want, disk, ram, re, bounds>>

\* Step 1.  An error left over from an earlier entry ends this one, but only
\* after the erase.
EraseREF ==
  /\ pc = "eraseREF"
  /\ \/ /\ ErasesBlk(ref)
        /\ IF re = "ok" THEN pc' = "copyOut" /\ UNCHANGED idx
                        ELSE pc' = "next" /\ idx' = idx + 1
        /\ UNCHANGED hb
     \/ /\ EraseFails(ref) /\ Call(ref, "erase", "eraseREF") /\ UNCHANGED idx
  /\ UNCHANGED <<want, disk, ram, who, osbn, org, todo, done, re>>

\* Step 2.  A page that cannot be corrected takes the block off the list.
CopyOut ==
  /\ pc = "copyOut"
  /\ \/ /\ data[org] # Junk /\ CopiesTo(data[org], ref)
        /\ erl' = [erl EXCEPT !.slot[idx].info = "copied"]
        /\ pc' = "storeCopied" /\ UNCHANGED <<done, hb>>
     \/ /\ CopiesTo(Junk, ref)
        /\ erl' = DropERL(erl, idx)
        /\ pc' = "storeDone" /\ done' = done + 1 /\ UNCHANGED hb
     \/ /\ ProgramFails(ref) /\ Call(ref, "write", "eraseREFAgain")
        /\ UNCHANGED <<erl, done>>
  /\ UNCHANGED <<want, disk, inRAM, bmf, rb, ref, who, idx, osbn, org, todo, re>>

EraseREFAgain ==
  /\ pc = "eraseREFAgain"
  /\ \/ ErasesBlk(ref) /\ pc' = "eraseREF" /\ UNCHANGED hb
     \/ EraseFails(ref) /\ Call(ref, "write", "eraseREFAgain")
  /\ UNCHANGED <<want, disk, ram, who, loop>>

\* Step 3.
StoreCopiedLater ==                                                    \* mutant
  /\ pc = "storeCopied" /\ pc' = "eraseOrg"
  /\ UNCHANGED <<data, want, disk, ram, who, loop, hb, bounds>>
StoreCopied ==
  /\ pc = "storeCopied" /\ pc' = "eraseOrg"
  /\ UNCHANGED tables /\ StoreTables
  /\ UNCHANGED <<data, want, inRAM, who, loop, hb, bounds>>

\* Step 4, and the first step of FSR_BBM_ChkRefreshBlk.
EraseOrg ==
  /\ pc = "eraseOrg"
  /\ \/ ErasesBlk(org) /\ pc' = "copyBack" /\ UNCHANGED hb
     \/ EraseFails(org) /\ Call(osbn, "erase", "eraseOrg")
  /\ UNCHANGED <<want, disk, ram, who, loop>>

\* Step 5.  When the copy back fails RefreshByErase reports the physical block
\* as the bad Sbn, ChkRefreshBlk the block of the list.
Culprit == IF who = "chk" THEN osbn ELSE org
CopyBack ==
  /\ pc = "copyBack"
  /\ \/ CopiesTo(data[ref], org) /\ pc' = "remove" /\ UNCHANGED hb
     \/ ProgramFails(org) /\ Call(Culprit, "write", "eraseNew")
  /\ UNCHANGED <<want, disk, ram, who, loop>>

EraseNew ==
  /\ pc = "eraseNew"
  /\ \/ ErasesBlk(org) /\ pc' = "copyBack" /\ UNCHANGED hb
     \/ EraseFails(org) /\ Call(Culprit, "write", "eraseNew")
  /\ UNCHANGED <<want, disk, ram, who, loop>>

\* Step 6.
AfterStore == IF who = "chk" THEN "eraseREFLast" ELSE "next"
Remove ==
  /\ pc = "remove" /\ pc' = AfterStore
  /\ erl' = DropERL(erl, idx)
  /\ UNCHANGED <<inRAM, bmf, rb, ref>> /\ StoreTables
  /\ done' = done + 1 /\ idx' = idx + 1
  /\ UNCHANGED <<data, want, who, osbn, org, todo, re, hb, bounds>>

StoreDone ==
  /\ pc = "storeDone" /\ pc' = AfterStore
  /\ UNCHANGED tables /\ StoreTables
  /\ idx' = idx + 1
  /\ UNCHANGED <<data, want, inRAM, who, osbn, org, todo, done, re, hb, bounds>>

\* Step 7, and the last step of FSR_BBM_ChkRefreshBlk.
LastREF == IF who = "chk" THEN Trans(ref) ELSE ref
EraseREFLast ==
  /\ pc = "eraseREFLast"
  /\ \/ /\ ErasesBlk(LastREF)
        /\ Return(IF who = "chk" THEN "refresh" ELSE Outcome)
     \/ /\ EraseFails(LastREF) /\ Call(ref, "erase", "eraseREFLast")
        /\ UNCHANGED <<who, idx, osbn, org, todo, done>>
  /\ UNCHANGED <<want, disk, ram, re>>
-----------------------------------------------------------------------------
(***************************************************************************)
(* FSR_BML_Open.                                                           *)
(***************************************************************************)
\* FSR_BBM_ChkRefreshBlk, up to its first erase, or past it when no entry of
\* the list was caught between its two copies.
OpenVolume ==
  /\ pc = "open"
  /\ \/ /\ Opens \ {"skip"} # {}
        /\ \E i \in Copied(erl) :
             /\ \A j \in Copied(erl) : i <= j
             /\ idx' = i /\ osbn' = erl.slot[i].sbn /\ org' = Trans(erl.slot[i].sbn)
        /\ pc' = "eraseOrg" /\ who' = "chk"
     \/ /\ Opens \ {"skip"} # {} /\ Copied(erl) = {}
        /\ pc' = "refresh" /\ UNCHANGED <<who, idx, osbn, org>>
     \/ /\ "skip" \in Opens
        /\ pc' = "run" /\ UNCHANGED <<who, idx, osbn, org>>
  /\ UNCHANGED <<data, want, disk, ram, todo, done, re, hb, bounds>>

RefreshOnOpen ==
  /\ pc = "refresh"
  /\ \/ "all" \in Opens /\ StartRefresh("open", erl.cnt)
     \/ /\ "partial" \in Opens
        /\ StartRefresh("open", IF erl.cnt > Partial THEN Partial ELSE erl.cnt)
  /\ UNCHANGED <<data, want, disk, ram, hb, bounds>>

Mount ==
  /\ pc = "off" /\ pc' = "open"
  /\ erl' = disk.erl /\ bmf' = disk.bmf /\ rb' = disk.rb /\ ref' = disk.ref
  /\ inRAM' = 0
  /\ UNCHANGED <<data, want, disk, who, loop, hb, bounds>>
-----------------------------------------------------------------------------
(***************************************************************************)
(* The volume in use.                                                      *)
(***************************************************************************)
\* A read found block s disturbed.
Disturb(s) ==
  /\ pc = "run" /\ disturbs < MaxDisturb /\ disturbs' = disturbs + 1
  /\ erl' = UpdateERL(erl, s)
  /\ inRAM' = IF Adds(erl, s) THEN inRAM + 1 ELSE inRAM
  /\ UNCHANGED <<data, want, disk, bmf, rb, ref, pc, who, loop, hb, efails,
                 pfails, offs>>

\* BML_FLAG_ERL_PROGRAM at the end of that read.
ProgramERL ==
  /\ pc = "run" /\ inRAM > 0 /\ inRAM' = 0
  /\ UNCHANGED tables /\ StoreTables
  /\ UNCHANGED <<data, want, pc, who, loop, hb, bounds>>

\* FSR_BML_FLAG_FORCED_ERASE_REFRESH: all blocks, right after the read.
RefreshAll ==
  /\ pc = "run" /\ inRAM = 0 /\ erl.cnt > 0
  /\ StartRefresh("run", erl.cnt)
  /\ UNCHANGED <<data, want, disk, ram, hb, bounds>>

\* The user's refresh call handles one block at a time.
RefreshOne ==
  /\ pc = "run" /\ erl.cnt > 0
  /\ StartRefresh("run", 1)
  /\ UNCHANGED <<data, want, disk, ram, hb, bounds>>

\* The user erases block s, and may write it again.
UserErase(s) ==
  /\ pc = "run"
  /\ want' = want \ {s}
  /\ erl' = DeleteERL(erl, s)
  /\ org' = Trans(s) /\ osbn' = s
  /\ pc' = "userErase" /\ who' = "user"
  /\ UNCHANGED <<data, disk, inRAM, bmf, rb, ref, idx, todo, done, re, hb, bounds>>

DoUserErase ==
  /\ pc = "userErase"
  /\ \/ ErasesBlk(org) /\ Return("run")
     \/ /\ EraseFails(org) /\ Call(osbn, "erase", "userReErase")
        /\ UNCHANGED <<who, idx, osbn, org, todo, done>>
  /\ UNCHANGED <<want, disk, ram, re>>

\* _HandlePrevErErr erases the new block once, and the caller once more.
UserReErase ==
  /\ pc = "userReErase"
  /\ \/ /\ ErasesBlk(org) /\ pc' = "userErase"
        /\ UNCHANGED <<who, hb, idx, osbn, org, todo, done>>
     \/ EraseFails(org) /\ Return("run")
  /\ UNCHANGED <<want, disk, ram, re>>

UserWrite(s) ==
  /\ pc = "run" /\ s \notin want /\ data[Trans(s)] = Erased
  /\ org' = Trans(s) /\ osbn' = s
  /\ pc' = "userWrite" /\ who' = "user"
  /\ UNCHANGED <<data, want, disk, ram, idx, todo, done, re, hb, bounds>>

DoUserWrite ==
  /\ pc = "userWrite"
  /\ \/ CopiesTo(osbn, org) /\ want' = want \cup {osbn} /\ Return("run")
     \/ /\ ProgramFails(org) /\ Call(osbn, "write", "userWrite")
        /\ UNCHANGED <<want, who, idx, osbn, org, todo, done>>
  /\ UNCHANGED <<disk, ram, re>>
-----------------------------------------------------------------------------
(***************************************************************************)
(* Power.                                                                  *)
(***************************************************************************)
\* The block an erase or a program is working on.
Busy == CASE pc \in {"eraseREF", "eraseREFAgain", "copyOut"} -> {ref}
          [] pc \in {"eraseOrg", "copyBack", "eraseNew", "userErase", "userReErase",
                    "userWrite"} -> {org}
          [] pc = "eraseREFLast" -> {LastREF}
          [] pc = "hbTake" /\ hb.why = "write" -> {f \in Rsv : FirstFree(f)}
          [] pc = "hbMark" -> {hb.bad}
          [] OTHER -> {}

PowerOff ==
  /\ pc # "off" /\ offs < MaxOff /\ offs' = offs + 1
  /\ data' \in {data} \cup {[data EXCEPT ![p] = Junk] : p \in Busy}
  /\ Return("off") /\ re' = "ok"
  /\ UNCHANGED <<want, disk, ram, disturbs, efails, pfails>>

\* A call into BML goes on to its next operation of the flash.
Step == \/ HbTake \/ HbNoRsv \/ HbStore \/ HbMark
        \/ NextEntry \/ EndLoop \/ EraseREF \/ CopyOut \/ EraseREFAgain
        \/ StoreCopied \/ EraseOrg \/ CopyBack \/ EraseNew \/ Remove
        \/ StoreDone \/ EraseREFLast
        \/ OpenVolume \/ RefreshOnOpen
        \/ DoUserErase \/ UserReErase \/ DoUserWrite
Use == \/ \E s \in User : Disturb(s) \/ UserErase(s) \/ UserWrite(s)
       \/ ProgramERL \/ RefreshAll \/ RefreshOne
Next == Step \/ Use \/ PowerOff \/ Mount

Spec == Init /\ [][Next]_vars

\* Every call runs in its caller's thread and no operation of the flash takes
\* forever; nothing makes a caller come back, or the power.
FairSpec == Spec /\ WF_vars(Step)
-----------------------------------------------------------------------------
Pcs == {"run", "off", "open", "refresh", "failed", "next", "eraseREF", "copyOut",
        "eraseREFAgain", "storeCopied", "eraseOrg", "copyBack", "eraseNew",
        "remove", "storeDone", "eraseREFLast", "hbTake", "hbStore", "hbMark",
        "userErase", "userReErase", "userWrite"}
Rets == {"run", "eraseREF", "eraseREFAgain", "eraseOrg", "eraseNew",
         "eraseREFLast", "userReErase", "userWrite"}
ERLs == [slot : [Cell -> [sbn : User \cup {NoSbn}, info : Info]], cnt : Nat]
Tables == [erl : ERLs, bmf : [Blk -> Rsv \cup {NoRbn}], rb : SUBSET Rsv, ref : Rsv]

TypeOK ==
  /\ data \in [Blk -> User \cup {Erased, Junk}] /\ want \in SUBSET User
  /\ disk \in Tables
  /\ [erl |-> erl, bmf |-> bmf, rb |-> rb, ref |-> ref] \in Tables
  /\ inRAM \in Nat
  /\ pc \in Pcs /\ who \in {"chk", "open", "run", "user"}
  /\ idx \in Nat /\ osbn \in User /\ org \in Blk
  /\ todo \in Nat /\ done \in Nat /\ re \in {"ok", "no_rsv"}
  /\ hb \in [sbn : Blk, why : {"erase", "write"}, bad : Blk, ret : Rets]

\* No two user blocks share a reserved block, none has the REF block, and
\* every block in use is marked in the bit map: in RAM, and in the tables a
\* mount would load.
Exclusive(b, r, f) ==
  /\ f \in r
  /\ \A x \in Blk : b[x] # NoRbn => b[x] \in r
  /\ \A s \in User : b[s] # f
  /\ \A s, t \in User : s # t /\ b[s] # NoRbn => b[s] # b[t]
NoSharedBlock == Exclusive(bmf, rb, ref) /\ Exclusive(disk.bmf, disk.rb, disk.ref)

\* The power may go off now: the tables on flash lead to the data of every
\* block the user has not erased, in its own place or, when the list on flash
\* says so, in the REF block.
HomeOnDisk(s) == IF disk.bmf[s] = NoRbn THEN s ELSE disk.bmf[s]
DataSafe ==
  \A s \in want :
    \/ data[HomeOnDisk(s)] = s
    \/ /\ Copied(disk.erl) # {} /\ disk.erl.slot[FirstCopied(disk.erl)].sbn = s
       /\ data[disk.ref] = s

\* When the volume is in use, every block reads back what the user wrote.
AtRestReadable == pc = "run" /\ re = "ok" => \A s \in want : data[Trans(s)] = s

\* nCnt is right, in RAM and on flash, whenever FSR_BBM_UpdateERL or
\* _UpdateUPCB may be called.
ERLCountMatches == CountMatches(erl) /\ CountMatches(disk.erl)

\* The cell after the end of astERBlkInfo is never written.
ERLInBounds == erl.slot[MaxItem] = Hole

\* Every call comes to an end, whatever fails on the way: the loops that take
\* another reserved block until one works, and the loop over the list, which
\* other calls pack and shorten while it runs.
InCall == pc \notin {"run", "failed", "off"}
CallsReturn == InCall ~> ~InCall

\* No block is listed twice.
ListedOnce == \A i, j \in Slot :
  i # j /\ erl.slot[i].sbn # NoSbn => erl.slot[i].sbn # erl.slot[j].sbn
=============================================================================
