------------------------- MODULE EraseRefreshProofs -------------------------
(***************************************************************************)
(* Proofs about EraseRefresh, for every number of blocks, every reservoir  *)
(* and any number of faults and power losses: the variables keep their     *)
(* types, and the reservoir never lends a block twice.  And, when no       *)
(* program fails and the reservoir has a block for every failed erase      *)
(* (Careful): no user data is lost by a refresh.                           *)
(***************************************************************************)
EXTENDS EraseRefresh, TLAPS, FiniteSetTheorems, WellFoundedInduction

(***************************************************************************)
(* The operations of the list keep its type.                               *)
(***************************************************************************)
LEMMA HoleType == Hole \in [sbn : User \cup {NoSbn}, info : Info]
BY DEF Hole, Item, Info

\* Emptying a slot keeps the type of a list, whatever the index.
Entry == [sbn : User \cup {NoSbn}, info : Info]

\* A list is its slots and its count.
LEMMA ListType ==
  ASSUME NEW f \in [Cell -> Entry], NEW n \in Nat
  PROVE  [slot |-> f, cnt |-> n] \in ERLs
BY DEF ERLs, Entry

LEMMA ListParts ==
  ASSUME NEW e \in ERLs
  PROVE  e.slot \in [Cell -> Entry] /\ e.cnt \in Nat
BY DEF ERLs, Entry

LEMMA DropERLType ==
  ASSUME NEW e \in ERLs, NEW i
  PROVE  DropERL(e, i) \in ERLs
<1>1. [e.slot EXCEPT ![i] = Hole] \in [Cell -> Entry]
  BY ListParts, HoleType DEF Entry
<1>2. (e.cnt - 1) % 65536 \in Nat
  BY ListParts
<1>3. QED BY <1>1, <1>2, ListType DEF DropERL

\* Listing a block keeps the type: the count is below MaxItem when it grows.
LEMMA UpdateERLType ==
  ASSUME NEW e \in ERLs, NEW s \in User
  PROVE  UpdateERL(e, s) \in ERLs
<1>1. Item(s, "updated") \in Entry
  BY DEF Item, Info, Entry
<1>2. CASE Adds(e, s)
  <2>1. e.cnt + 1 \in Nat
    BY <1>2, ListParts DEF Adds
  <2>2. [e.slot EXCEPT ![LastERL(e)] = Item(s, "updated")] \in [Cell -> Entry]
    BY <1>1, ListParts
  <2>3. QED BY <1>2, <2>1, <2>2, ListType DEF UpdateERL
<1>3. CASE ~Adds(e, s)
  BY <1>3 DEF UpdateERL
<1>4. QED BY <1>2, <1>3

\* Packing only moves entries that are there.
LEMMA PackERLType ==
  ASSUME NEW e \in ERLs
  PROVE  PackERL(e) \in ERLs
<1>1. Used(e) \subseteq Cell
  BY MaxItemAssumption DEF Used, Slot, Cell
<1>2. ASSUME NEW i \in Cell PROVE Packed(e, i) \in Entry
  <2>1. CASE \E j \in Used(e) : Rank(e, j) = i
    <3>1. (CHOOSE j \in Used(e) : Rank(e, j) = i) \in Cell
      BY <2>1, <1>1
    <3>2. QED BY <2>1, <3>1, ListParts DEF Packed
  <2>2. CASE ~\E j \in Used(e) : Rank(e, j) = i
    BY <2>2, <1>2, HoleType, ListParts DEF Packed, Entry
  <2>3. QED BY <2>1, <2>2
<1>3. [i \in Cell |-> Packed(e, i)] \in [Cell -> Entry]
  BY <1>2
<1>4. QED BY <1>3, ListParts, ListType DEF PackERL

LEMMA DeleteERLType ==
  ASSUME NEW e \in ERLs, NEW s
  PROVE  DeleteERL(e, s) \in ERLs
<1> DEFINE F == {i \in Slot : i < e.cnt /\ e.slot[i].sbn = s}
           d == IF F = {} THEN e ELSE DropERL(e, Min(F))
<1>1. DeleteERL(e, s) = IF d.cnt = 0 THEN d ELSE PackERL(d)
  BY DEF DeleteERL
<1>2. d \in ERLs
  BY DropERLType
<1> HIDE DEF d
<1>3. QED BY <1>1, <1>2, PackERLType
-----------------------------------------------------------------------------
(***************************************************************************)
(* Type correctness.                                                       *)
(***************************************************************************)
BMFTables == [Blk -> Rsv \cup {NoRbn}]
Whos == {"chk", "open", "run", "user"}
Calls == [sbn : Blk, why : {"erase", "write"}, bad : Blk, ret : Rets]

\* The invariant, with the tables in RAM taken apart.
RamType == erl \in ERLs /\ bmf \in BMFTables /\ rb \in SUBSET Rsv /\ ref \in Rsv
FlashType == data \in [Blk -> User \cup {Erased, Junk}] /\ disk \in Tables
LocalType ==
  /\ want \in SUBSET User /\ inRAM \in Nat /\ pc \in Pcs /\ who \in Whos
  /\ idx \in Nat /\ osbn \in User /\ org \in Blk
  /\ todo \in Nat /\ done \in Nat /\ re \in {"ok", "no_rsv"} /\ hb \in Calls
Types == RamType /\ FlashType /\ LocalType

LEMMA TypeParts == TypeOK <=> Types
BY DEF TypeOK, Types, RamType, FlashType, LocalType, Tables, BMFTables, Whos, Calls

LEMMA BlockTypes == /\ User \subseteq Blk /\ Rsv \subseteq Blk
                    /\ AnySbn \in User /\ NoSbn \notin User
                    /\ 0 \notin Blk
BY BlockAssumption DEF Blk, AnySbn

LEMMA NoCallType == NoCall \in Calls
BY BlockTypes DEF NoCall, Calls, Rets

LEMMA TransType ==
  ASSUME RamType, NEW x \in Blk
  PROVE  Trans(x) \in Blk
BY BlockTypes DEF Trans, RamType, BMFTables

LEMMA StoreType ==
  ASSUME RamType', StoreTables
  PROVE  disk' \in Tables
BY DEF RamType, StoreTables, Tables, BMFTables

\* What the operations of the flash do to it.
LEMMA EraseType ==
  ASSUME FlashType, NEW p, ErasesBlk(p) \/ EraseFails(p) \/ ProgramFails(p)
  PROVE  data' \in [Blk -> User \cup {Erased, Junk}]
BY DEF FlashType, ErasesBlk, EraseFails, ProgramFails

LEMMA CopyType ==
  ASSUME FlashType, NEW p, NEW d \in User \cup {Erased, Junk}, CopiesTo(d, p)
  PROVE  data' \in [Blk -> User \cup {Erased, Junk}]
BY DEF FlashType, CopiesTo

\* A call returns.
LEMMA ReturnType ==
  ASSUME NEW p \in Pcs, Return(p)
  PROVE  /\ pc' \in Pcs /\ who' \in Whos /\ idx' \in Nat /\ osbn' \in User
         /\ org' \in Blk /\ todo' \in Nat /\ done' \in Nat /\ hb' \in Calls
BY BlockTypes, NoCallType DEF Return, Whos

LEMMA CallType ==
  ASSUME NEW x \in Blk, NEW w \in {"erase", "write"}, NEW r \in Rets, Call(x, w, r)
  PROVE  pc' \in Pcs /\ hb' \in Calls
BY DEF Call, Calls, Pcs

LEMMA TypeInit == Init => Types
<1> SUFFICES ASSUME Init PROVE Types OBVIOUS
<1>1. EmptyERL \in ERLs
  BY HoleType, ListType DEF EmptyERL, Entry
<1>2. RamType
  BY <1>1, BlockAssumption DEF Init, RamType, BMFTables
<1>3. FlashType
  <2>1. disk \in Tables
    BY <1>2 DEF Init, RamType, Tables, BMFTables
  <2>2. QED BY <2>1, BlockTypes DEF Init, FlashType
<1>4. LocalType
  BY BlockTypes, NoCallType DEF Init, LocalType, Pcs, Whos
<1>5. QED BY <1>2, <1>3, <1>4 DEF Types

LEMMA RegBMFType ==
  ASSUME RamType, NEW x, NEW f \in Rsv
  PROVE  RegBMF(x, f) \in BMFTables
BY DEF RamType, RegBMF, BMFTables

LEMMA TypeHandleBadBlk ==
  ASSUME Types, HbTake \/ HbNoRsv \/ HbStore \/ HbMark
  PROVE  Types'
<1> USE DEF Types
<1>1. CASE HbTake
  <2>1. PICK f \in Rsv :
           /\ rb' = rb \cup {f}
           /\ \/ /\ IF hb.why = "write"
                   THEN ErasesBlk(f) /\ erl' = DeleteERL(erl, Trans(hb.sbn))
                   ELSE UNCHANGED <<data, bounds, erl>>
                 /\ bmf' = RegBMF(hb.sbn, f)
                 /\ hb' = [hb EXCEPT !.bad = Trans(hb.sbn)]
                 /\ pc' = "hbStore"
              \/ /\ hb.why = "write" /\ EraseFails(f) /\ data'[f] = Junk
                 /\ UNCHANGED <<pc, erl, bmf, hb>>
    BY <1>1 DEF HbTake
  <2>2. UNCHANGED <<want, disk, inRAM, ref, who, loop>>
    BY <1>1 DEF HbTake
  <2>3. data' \in [Blk -> User \cup {Erased, Junk}]
    BY <2>1, EraseType DEF FlashType
  <2>4. erl' \in ERLs
    BY <2>1, DeleteERLType DEF RamType
  <2>5. bmf' \in BMFTables
    BY <2>1, RegBMFType DEF RamType
  <2>6. hb' \in Calls /\ pc' \in Pcs
    BY <2>1, TransType DEF LocalType, Calls, Pcs
  <2>7. QED BY <2>1, <2>2, <2>3, <2>4, <2>5, <2>6
            DEF RamType, FlashType, LocalType, loop
<1>2. CASE HbNoRsv
  <2>1. UNCHANGED <<data, want, disk, ram>>
    BY <1>2 DEF HbNoRsv
  <2>2. LocalType'
    BY <1>2, <2>1, ReturnType, NoCallType
    DEF HbNoRsv, LocalType, ram, tables, Pcs
  <2>3. QED BY <2>1, <2>2 DEF RamType, FlashType, ram, tables
<1>3. CASE HbStore
  <2>1. RamType' /\ disk' \in Tables
    BY <1>3, StoreType DEF HbStore, RamType, tables
  <2>2. QED BY <1>3, <2>1 DEF HbStore, FlashType, LocalType, loop, Pcs
<1>4. CASE HbMark
  <2>1. data' \in [Blk -> User \cup {Erased, Junk}]
    BY <1>4 DEF HbMark, FlashType
  <2>2. ref' \in Rsv
    BY <1>4, BlockTypes DEF HbMark, RamType, BMFTables, Trans
  <2>3. org' \in Blk
    BY <1>4, TransType DEF HbMark, LocalType, Calls
  <2>4. pc' \in Pcs /\ hb' \in Calls
    BY <1>4, NoCallType DEF HbMark, LocalType, Calls, Pcs, Rets
  <2>5. QED BY <1>4, <2>1, <2>2, <2>3, <2>4
            DEF HbMark, RamType, FlashType, LocalType
<1>5. QED BY <1>1, <1>2, <1>3, <1>4

\* The list loses one entry and the tables go to flash.
LEMMA DropStoreType ==
  ASSUME Types, NEW i, erl' = DropERL(erl, i), UNCHANGED <<bmf, rb, ref>>, StoreTables
  PROVE  RamType' /\ disk' \in Tables
<1>1. RamType'
  BY DropERLType DEF Types, RamType
<1>2. QED BY <1>1, StoreType

\* RAM and flash keep their types when a step leaves the tables alone.
LEMMA SameTables ==
  ASSUME Types, UNCHANGED <<erl, bmf, rb, ref, disk>>,
         data' \in [Blk -> User \cup {Erased, Junk}]
  PROVE  RamType' /\ FlashType'
BY DEF Types, RamType, FlashType

LEMMA TypeRefresh ==
  ASSUME Types,
         \/ NextEntry \/ EndLoop \/ EraseREF \/ CopyOut \/ EraseREFAgain
         \/ StoreCopied
  PROVE  Types'
<1> USE DEF Types
<1>0. /\ data \in [Blk -> User \cup {Erased, Junk}] /\ org \in Blk /\ ref \in Blk
      /\ osbn \in Blk /\ Types
  BY BlockTypes DEF FlashType, LocalType, RamType
<1>1. CASE NextEntry
  <2>1. PICK i \in Entries :
          LET s == erl.slot[i].sbn IN
          \/ /\ s \in User \ Tight
             /\ idx' = i /\ osbn' = s /\ org' = Trans(s) /\ pc' = "eraseREF"
             /\ UNCHANGED <<ram, disk>>
          \/ /\ idx' = i + 1 /\ erl' = DropERL(erl, i)
             /\ UNCHANGED <<inRAM, bmf, rb, ref>> /\ StoreTables
             /\ UNCHANGED <<osbn, org, pc>>
    BY <1>1 DEF NextEntry
  <2>2. i \in Nat
    BY MaxItemAssumption DEF Entries, Slot
  <2>3. UNCHANGED <<data, want, who, todo, done, re, hb>>
    BY <1>1 DEF NextEntry
  <2>4. CASE /\ erl.slot[i].sbn \in User \ Tight
             /\ idx' = i /\ osbn' = erl.slot[i].sbn
             /\ org' = Trans(erl.slot[i].sbn) /\ pc' = "eraseREF"
             /\ UNCHANGED <<ram, disk>>
    <3>1. org' \in Blk
      BY <2>4, TransType, BlockTypes
    <3>2. RamType' /\ FlashType'
      BY <1>0, <2>3, <2>4, SameTables DEF ram, tables
    <3>3. QED BY <2>2, <2>3, <2>4, <3>1, <3>2 DEF LocalType, ram, Pcs
  <2>5. CASE /\ idx' = i + 1 /\ erl' = DropERL(erl, i)
             /\ UNCHANGED <<inRAM, bmf, rb, ref>> /\ StoreTables
             /\ UNCHANGED <<osbn, org, pc>>
    <3>1. RamType' /\ disk' \in Tables
      BY <2>5, DropStoreType
    <3>2. QED BY <2>2, <2>3, <2>5, <3>1 DEF FlashType, LocalType
  <2>6. QED BY <2>1, <2>4, <2>5
<1>2. CASE EndLoop
  <2>1. Outcome \in Pcs
    BY DEF Outcome, Pcs
  <2>2. RamType' /\ FlashType'
    BY <1>0, <1>2, SameTables DEF EndLoop, ram, tables
  <2>3. LocalType'
    BY <1>2, <2>1, ReturnType DEF EndLoop, LocalType, ram, Pcs
  <2>4. QED BY <2>2, <2>3
<1>3. CASE EraseREF
  <2>1. RamType' /\ FlashType'
    BY <1>0, <1>3, EraseType, SameTables DEF EraseREF, ram, tables
  <2>2. pc' \in Pcs /\ hb' \in Calls /\ idx' \in Nat
    BY <1>0, <1>3, CallType DEF EraseREF, LocalType, Pcs, Rets
  <2>3. QED BY <1>3, <2>1, <2>2 DEF EraseREF, LocalType, ram
<1>4. CASE CopyOut
  <2>1. data' \in [Blk -> User \cup {Erased, Junk}]
    <3>1. data[org] \in User \cup {Erased, Junk} /\ Junk \in User \cup {Erased, Junk}
      BY <1>0
    <3>2. QED BY <1>0, <1>4, <3>1, CopyType, EraseType DEF CopyOut
  <2>2. [erl EXCEPT !.slot[idx].info = "copied"] \in ERLs
    BY DEF RamType, ERLs, Info
  <2>3. erl' \in ERLs
    BY <1>4, <2>2, DropERLType DEF CopyOut, RamType
  <2>4. pc' \in Pcs /\ hb' \in Calls /\ done' \in Nat
    BY <1>0, <1>4, CallType DEF CopyOut, LocalType, Pcs, Rets
  <2>5. QED BY <1>4, <2>1, <2>3, <2>4 DEF CopyOut, RamType, FlashType, LocalType
<1>5. CASE EraseREFAgain
  <2>1. RamType' /\ FlashType'
    BY <1>0, <1>5, EraseType, SameTables DEF EraseREFAgain, ram, tables
  <2>2. pc' \in Pcs /\ hb' \in Calls
    BY <1>0, <1>5, CallType DEF EraseREFAgain, LocalType, Pcs, Rets
  <2>3. QED BY <1>5, <2>1, <2>2 DEF EraseREFAgain, LocalType, ram, loop
<1>6. CASE StoreCopied
  <2>1. RamType' /\ disk' \in Tables
    BY <1>6, StoreType DEF StoreCopied, RamType, tables
  <2>2. QED BY <1>6, <2>1 DEF StoreCopied, FlashType, LocalType, loop, Pcs
<1>7. QED BY <1>1, <1>2, <1>3, <1>4, <1>5, <1>6

LEMMA TypeCopyBack ==
  ASSUME Types,
         \/ EraseOrg \/ CopyBack \/ EraseNew \/ Remove \/ StoreDone
         \/ EraseREFLast
  PROVE  Types'
<1> USE DEF Types
<1>0. /\ data \in [Blk -> User \cup {Erased, Junk}] /\ org \in Blk /\ ref \in Blk
      /\ osbn \in Blk /\ Types
  BY BlockTypes DEF FlashType, LocalType, RamType
<1>1. Culprit \in Blk
  BY <1>0 DEF Culprit
<1>2. AfterStore \in Pcs
  BY DEF AfterStore, Pcs
<1>3. CASE EraseOrg
  <2>1. RamType' /\ FlashType'
    BY <1>0, <1>3, EraseType, SameTables DEF EraseOrg, ram, tables
  <2>2. pc' \in Pcs /\ hb' \in Calls
    BY <1>0, <1>3, CallType DEF EraseOrg, LocalType, Pcs, Rets
  <2>3. QED BY <1>3, <2>1, <2>2 DEF EraseOrg, LocalType, ram, loop
<1>4. CASE CopyBack
  <2>1. data' \in [Blk -> User \cup {Erased, Junk}]
    <3>1. data[ref] \in User \cup {Erased, Junk}
      BY <1>0
    <3>2. QED BY <1>0, <1>4, <3>1, CopyType, EraseType DEF CopyBack
  <2>2. RamType' /\ FlashType'
    BY <1>0, <1>4, <2>1, SameTables DEF CopyBack, ram, tables
  <2>3. pc' \in Pcs /\ hb' \in Calls
    BY <1>1, <1>4, CallType DEF CopyBack, LocalType, Pcs, Rets
  <2>4. QED BY <1>4, <2>2, <2>3 DEF CopyBack, LocalType, ram, loop
<1>5. CASE EraseNew
  <2>1. RamType' /\ FlashType'
    BY <1>0, <1>5, EraseType, SameTables DEF EraseNew, ram, tables
  <2>2. pc' \in Pcs /\ hb' \in Calls
    BY <1>1, <1>5, CallType DEF EraseNew, LocalType, Pcs, Rets
  <2>3. QED BY <1>5, <2>1, <2>2 DEF EraseNew, LocalType, ram, loop
<1>6. CASE Remove
  <2>1. RamType' /\ disk' \in Tables
    BY <1>6, DropStoreType DEF Remove
  <2>2. QED BY <1>2, <1>6, <2>1 DEF Remove, FlashType, LocalType
<1>7. CASE StoreDone
  <2>1. RamType' /\ disk' \in Tables
    BY <1>7, StoreType DEF StoreDone, RamType, tables
  <2>2. QED BY <1>2, <1>7, <2>1 DEF StoreDone, FlashType, LocalType
<1>8. CASE EraseREFLast
  <2>1. RamType' /\ FlashType'
    BY <1>0, <1>8, EraseType, SameTables DEF EraseREFLast, ram, tables
  <2>2. (IF who = "chk" THEN "refresh" ELSE Outcome) \in Pcs
    BY DEF Outcome, Pcs
  <2>3. LocalType'
    BY <1>0, <1>8, <2>2, ReturnType, CallType DEF EraseREFLast, LocalType, ram, Rets
  <2>4. QED BY <2>1, <2>3
<1>9. QED BY <1>3, <1>4, <1>5, <1>6, <1>7, <1>8

LEMMA TypeOpen ==
  ASSUME Types, OpenVolume \/ RefreshOnOpen \/ Mount \/ PowerOff
  PROVE  Types'
<1> USE DEF Types
<1>0. data \in [Blk -> User \cup {Erased, Junk}]
  BY DEF FlashType
<1>1. CASE OpenVolume
  <2>1. ASSUME NEW i \in Copied(erl)
        PROVE  i \in Nat /\ erl.slot[i].sbn \in User /\ Trans(erl.slot[i].sbn) \in Blk
    <3>1. i \in Slot /\ i \in Cell /\ erl.slot[i].sbn # NoSbn
      BY MaxItemAssumption DEF Copied, Used, Slot, Cell
    <3>2. erl.slot[i].sbn \in User
      BY <3>1 DEF RamType, ERLs
    <3>3. QED BY <3>1, <3>2, TransType, BlockTypes, MaxItemAssumption DEF Slot
  <2>2. RamType' /\ FlashType'
    BY <1>0, <1>1, SameTables DEF OpenVolume, ram, tables
  <2>3. LocalType'
    BY <1>1, <2>1 DEF OpenVolume, LocalType, ram, Pcs, Whos
  <2>4. QED BY <2>2, <2>3
<1>2. CASE RefreshOnOpen
  <2>1. RamType' /\ FlashType'
    BY <1>0, <1>2, SameTables DEF RefreshOnOpen, ram, tables
  <2>2. erl.cnt \in Nat
    BY DEF RamType, ERLs
  <2>3. QED BY <1>2, <2>1, <2>2, LimitAssumption
            DEF RefreshOnOpen, StartRefresh, LocalType, ram, Pcs, Whos
<1>3. CASE Mount
  <2>1. RamType'
    BY <1>3 DEF Mount, FlashType, Tables, RamType, BMFTables
  <2>2. QED BY <1>3, <2>1 DEF Mount, FlashType, LocalType, loop, Pcs
<1>4. CASE PowerOff
  <2>1. data' \in [Blk -> User \cup {Erased, Junk}]
    BY <1>0, <1>4 DEF PowerOff
  <2>2. RamType' /\ FlashType'
    BY <1>4, <2>1, SameTables DEF PowerOff, ram, tables
  <2>3. LocalType'
    BY <1>4, ReturnType DEF PowerOff, LocalType, ram, Pcs
  <2>4. QED BY <2>2, <2>3
<1>5. QED BY <1>1, <1>2, <1>3, <1>4

LEMMA TypeUse ==
  ASSUME Types, DoUserErase \/ UserReErase \/ DoUserWrite \/ Use
  PROVE  Types'
<1> USE DEF Types
<1>0. /\ data \in [Blk -> User \cup {Erased, Junk}] /\ org \in Blk /\ osbn \in User
      /\ osbn \in Blk
  BY BlockTypes DEF FlashType, LocalType
<1>1. CASE DoUserErase \/ UserReErase
  <2>1. RamType' /\ FlashType'
    BY <1>0, <1>1, EraseType, SameTables DEF DoUserErase, UserReErase, ram, tables
  <2>2. LocalType'
    BY <1>0, <1>1, ReturnType, CallType
    DEF DoUserErase, UserReErase, LocalType, ram, Pcs, Rets
  <2>3. QED BY <2>1, <2>2
<1>2. CASE DoUserWrite
  <2>1. data' \in [Blk -> User \cup {Erased, Junk}]
    BY <1>0, <1>2, CopyType, EraseType DEF DoUserWrite
  <2>2. RamType' /\ FlashType'
    BY <1>2, <2>1, SameTables DEF DoUserWrite, ram, tables
  <2>3. LocalType'
    BY <1>0, <1>2, ReturnType, CallType DEF DoUserWrite, LocalType, ram, Pcs, Rets
  <2>4. QED BY <2>2, <2>3
<1>3. ASSUME NEW s \in User, Disturb(s) PROVE Types'
  <2>1. RamType' /\ FlashType'
    BY <1>3, UpdateERLType DEF Disturb, RamType, FlashType
  <2>2. QED BY <1>3, <2>1 DEF Disturb, LocalType, loop
<1>4. ASSUME NEW s \in User, UserErase(s) PROVE Types'
  <2>1. RamType' /\ FlashType'
    BY <1>4, DeleteERLType DEF UserErase, RamType, FlashType
  <2>2. org' \in Blk
    BY <1>4, TransType, BlockTypes DEF UserErase
  <2>3. QED BY <1>4, <2>1, <2>2 DEF UserErase, LocalType, Pcs, Whos
<1>5. ASSUME NEW s \in User, UserWrite(s) PROVE Types'
  <2>1. RamType' /\ FlashType'
    BY <1>0, <1>5, SameTables DEF UserWrite, ram, tables
  <2>2. org' \in Blk
    BY <1>5, TransType, BlockTypes DEF UserWrite
  <2>3. QED BY <1>5, <2>1, <2>2 DEF UserWrite, LocalType, ram, Pcs, Whos
<1>6. CASE ProgramERL
  <2>1. RamType' /\ disk' \in Tables
    BY <1>6, StoreType DEF ProgramERL, RamType, tables
  <2>2. QED BY <1>6, <2>1 DEF ProgramERL, FlashType, LocalType, loop
<1>7. CASE RefreshAll \/ RefreshOne
  <2>1. RamType' /\ FlashType'
    BY <1>0, <1>7, SameTables DEF RefreshAll, RefreshOne, ram, tables
  <2>2. erl.cnt \in Nat
    BY DEF RamType, ERLs
  <2>3. QED BY <1>7, <2>1, <2>2
            DEF RefreshAll, RefreshOne, StartRefresh, LocalType, ram, Pcs, Whos
<1>8. QED BY <1>1, <1>2, <1>3, <1>4, <1>5, <1>6, <1>7 DEF Use

LEMMA TypeStep == Types /\ [Next]_vars => Types'
<1> SUFFICES ASSUME Types, [Next]_vars PROVE Types' OBVIOUS
<1>1. CASE UNCHANGED vars
  BY <1>1 DEF vars, ram, tables, loop, Types, RamType, FlashType, LocalType
<1>2. CASE Step
  BY <1>2, TypeHandleBadBlk, TypeRefresh, TypeCopyBack, TypeOpen, TypeUse DEF Step
<1>3. CASE Use
  BY <1>3, TypeUse
<1>4. CASE PowerOff \/ Mount
  BY <1>4, TypeOpen
<1>5. QED BY <1>1, <1>2, <1>3, <1>4 DEF Next

LEMMA TypesAlways == Spec => []Types
BY TypeInit, TypeStep, PTL DEF Spec

\* The variables keep their types: every address the code computes is a block
\* of the die, and a replacement always lies in the reservoir.
THEOREM TypeCorrect == Spec => []TypeOK
BY TypesAlways, TypeParts, PTL

-----------------------------------------------------------------------------
(***************************************************************************)
(* NoSharedBlock alone is not inductive: what a replaced block leaves in   *)
(* the Block Map Field table says where an old address leads.  The set F   *)
(* holds the blocks that are or were the REF block and those that stand    *)
(* for them; the table never leads into F from outside or out of it, so no *)
(* user block ever reaches it.                                             *)
(***************************************************************************)
Family(b, r, f, F) ==
  /\ f \in F /\ F \subseteq r
  /\ \A x \in Blk : b[x] # NoRbn => b[x] \in r /\ (x \in F <=> b[x] \in F)
  /\ \A x \in Rsv : b[x] # NoRbn => x \in r
  /\ \A s, t \in User : s # t /\ b[s] # NoRbn => b[s] # b[t]

HbPcs == {"hbTake", "hbStore", "hbMark"}
RamFamily(F) ==
  /\ Family(bmf, rb, ref, F)
  /\ org \in (User \cup rb) \ F
  /\ pc \in HbPcs => hb.sbn = ref \/ hb.sbn \in (User \cup rb) \ F
DiskFamily(F) == Family(disk.bmf, disk.rb, disk.ref, F)
FamilyInv == /\ \E F \in SUBSET Rsv : RamFamily(F)
             /\ \E F \in SUBSET Rsv : DiskFamily(F)
             /\ pc = "off" => org \in User

\* A new block for x joins F exactly when x is in F.
Joined(F, x, f) == IF x \in F THEN F \cup {f} ELSE F

LEMMA FamilyTake ==
  ASSUME RamType, NEW F \in SUBSET Rsv, Family(bmf, rb, ref, F),
         NEW x \in User \cup rb, NEW f \in Rsv \ rb
  PROVE  Family(RegBMF(x, f), rb \cup {f}, ref, Joined(F, x, f))
<1> DEFINE N == RegBMF(x, f)
           G == Joined(F, x, f)
<1>0. x \in Blk /\ x # f /\ f \notin F /\ NoRbn \notin Blk /\ rb \subseteq Blk
  BY BlockTypes, BlockAssumption DEF RamType, Family, NoRbn
<1>1. ASSUME NEW y \in Blk
      PROVE  \/ N[y] = bmf[y]
             \/ N[y] = f /\ (y = x \/ (y = bmf[x] /\ bmf[x] \in Rsv))
  <2>1. bmf \in BMFTables
    BY DEF RamType
  <2>2. CASE N = bmf
    BY <2>2
  <2>3. CASE N = [bmf EXCEPT ![x] = f, ![bmf[x]] = f] /\ bmf[x] \in Rsv
    BY <1>0, <2>1, <2>3 DEF BMFTables
  <2>4. CASE N = [bmf EXCEPT ![x] = f]
    BY <1>0, <2>1, <2>4 DEF BMFTables
  <2>5. QED BY <2>2, <2>3, <2>4 DEF RegBMF
<1>2. bmf[x] # NoRbn => bmf[x] \in rb /\ (x \in F <=> bmf[x] \in F)
  BY <1>0 DEF Family
<1>3. bmf[x] \in Rsv => bmf[x] \in rb /\ (x \in F <=> bmf[x] \in F)
  BY <1>0, <1>2, BlockTypes DEF NoRbn
<1> HIDE DEF N
<1>4. ref \in G /\ G \subseteq rb \cup {f}
  BY DEF Family, Joined
<1>5. ASSUME NEW y \in Blk, N[y] # NoRbn
      PROVE  N[y] \in rb \cup {f} /\ (y \in G <=> N[y] \in G)
  <2>1. CASE N[y] = bmf[y]
    <3>1. bmf[y] \in rb /\ (y \in F <=> bmf[y] \in F)
      BY <1>5, <2>1 DEF Family
    <3>2. bmf[y] # f
      BY <3>1
    <3>3. y # f
      BY <1>5, <2>1 DEF Family
    <3>4. QED BY <2>1, <3>1, <3>2, <3>3 DEF Joined
  <2>2. CASE N[y] = f /\ y = x
    BY <1>0, <2>2 DEF Joined
  <2>3. CASE N[y] = f /\ y = bmf[x] /\ bmf[x] \in Rsv
    BY <1>0, <1>3, <2>3 DEF Joined
  <2>4. QED BY <1>1, <2>1, <2>2, <2>3
<1>6. ASSUME NEW y \in Rsv, N[y] # NoRbn
      PROVE  y \in rb \cup {f}
  <2>1. y \in Blk
    BY BlockTypes
  <2>2. CASE N[y] = bmf[y]
    BY <1>6, <2>2 DEF Family
  <2>3. CASE y = x \/ (y = bmf[x] /\ bmf[x] \in Rsv)
    BY <1>3, <2>3, BlockAssumption
  <2>4. QED BY <1>1, <2>1, <2>2, <2>3
<1>7. ASSUME NEW s \in User, NEW t \in User, s # t, N[s] # NoRbn
      PROVE  N[s] # N[t]
  <2>1. s \in Blk /\ t \in Blk /\ s \notin Rsv /\ t \notin Rsv
    BY BlockTypes, BlockAssumption
  <2>2. N[s] = bmf[s] \/ (N[s] = f /\ s = x)
    <3>1. N[s] = bmf[s] \/ (N[s] = f /\ (s = x \/ (s = bmf[x] /\ bmf[x] \in Rsv)))
      BY <1>1, <2>1
    <3>2. QED BY <2>1, <3>1
  <2>3. N[t] = bmf[t] \/ (N[t] = f /\ t = x)
    <3>1. N[t] = bmf[t] \/ (N[t] = f /\ (t = x \/ (t = bmf[x] /\ bmf[x] \in Rsv)))
      BY <1>1, <2>1
    <3>2. QED BY <2>1, <3>1
  <2>4. bmf[s] # f /\ bmf[t] # f
    BY <1>0, <2>1 DEF Family, NoRbn, Blk
  <2>5. QED BY <1>7, <2>2, <2>3, <2>4 DEF Family
<1>8. QED BY <1>4, <1>5, <1>6, <1>7 DEF Family, N

\* A block set aside and not registered changes nothing.
LEMMA FamilyWaste ==
  ASSUME NEW F, Family(bmf, rb, ref, F), NEW f
  PROVE  Family(bmf, rb \cup {f}, ref, F)
BY DEF Family

\* Following the table from a block outside F stays outside F.
LEMMA FamilyTrans ==
  ASSUME RamType, NEW F \in SUBSET Rsv, Family(bmf, rb, ref, F),
         NEW x \in (User \cup rb) \ F
  PROVE  Trans(x) \in (User \cup rb) \ F
BY BlockTypes DEF Family, Trans, RamType

LEMMA UserOutside ==
  ASSUME NEW F \in SUBSET Rsv, NEW s \in User
  PROVE  s \in (User \cup rb) \ F
BY BlockAssumption

\* The steps that leave the Block Map Fields, the bit map and the REF block
\* alone: org and the block given to HandleBadBlk stay outside F, and what
\* such a step stores is the family in RAM.
LEMMA FamilyKept ==
  ASSUME Types, FamilyInv, UNCHANGED <<bmf, rb, ref>>, UNCHANGED disk \/ StoreTables,
         \/ org' = org /\ pc' # "off"
         \/ org' \in User
         \/ pc' # "off" /\ \E s \in User : org' = Trans(s),
         pc' \in HbPcs => \/ hb'.sbn \in {ref, org} \cup User
                          \/ pc \in HbPcs /\ hb'.sbn = hb.sbn
  PROVE  FamilyInv'
<1>1. PICK F \in SUBSET Rsv : RamFamily(F)
  BY DEF FamilyInv
<1>2. org' \in (User \cup rb) \ F
  BY <1>1, UserOutside, FamilyTrans DEF RamFamily, Types
<1>3. pc' \in HbPcs => hb'.sbn = ref \/ hb'.sbn \in (User \cup rb) \ F
  BY <1>1, UserOutside DEF RamFamily
<1>4. RamFamily(F)'
  BY <1>1, <1>2, <1>3 DEF RamFamily, Family
<1>5. \E G \in SUBSET Rsv : DiskFamily(G)'
  <2>1. CASE UNCHANGED disk
    BY <2>1 DEF FamilyInv, DiskFamily
  <2>2. CASE StoreTables
    BY <1>1, <2>2 DEF StoreTables, DiskFamily, RamFamily, Family
  <2>3. QED BY <2>1, <2>2
<1>6. QED BY <1>4, <1>5 DEF FamilyInv

LEMMA FamilyInit == Init => FamilyInv
<1> SUFFICES ASSUME Init PROVE FamilyInv OBVIOUS
<1>1. Family(bmf, rb, ref, {REF0})
  BY BlockTypes DEF Init, Family
<1>2. {REF0} \in SUBSET Rsv
  BY BlockAssumption
<1>3. RamFamily({REF0})
  BY <1>1, BlockTypes, BlockAssumption DEF Init, RamFamily, HbPcs
<1>4. DiskFamily({REF0})
  BY <1>1 DEF Init, DiskFamily
<1>5. QED BY <1>2, <1>3, <1>4 DEF FamilyInv, Init

LEMMA FamilyHbTake ==
  ASSUME Types, FamilyInv, HbTake
  PROVE  FamilyInv'
<1>1. PICK F \in SUBSET Rsv : RamFamily(F)
  BY DEF FamilyInv
<1>2. PICK f \in Rsv :
         /\ FirstFree(f)
         /\ rb' = rb \cup {f}
         /\ \/ bmf' = RegBMF(hb.sbn, f) /\ hb' = [hb EXCEPT !.bad = Trans(hb.sbn)]
            \/ UNCHANGED <<bmf, hb>>
  BY DEF HbTake
<1>3. f \in Rsv \ rb
  BY <1>2 DEF FirstFree
<1>4. UNCHANGED <<disk, ref, org>> /\ pc' # "off" /\ pc = "hbTake"
  BY DEF HbTake, loop
<1>5. hb'.sbn = hb.sbn
  BY <1>2 DEF Types, LocalType, Calls
<1>6. hb.sbn = ref \/ hb.sbn \in (User \cup rb) \ F
  BY <1>1, <1>4 DEF RamFamily, HbPcs
<1>7. \E G \in SUBSET Rsv : RamFamily(G)'
  <2>1. CASE bmf' = RegBMF(hb.sbn, f)
    <3> DEFINE G == Joined(F, hb.sbn, f)
    <3>1. hb.sbn \in User \cup rb
      BY <1>1, <1>6 DEF RamFamily, Family
    <3>2. Family(bmf', rb', ref', G)
      BY <1>1, <1>2, <1>3, <1>4, <2>1, <3>1, FamilyTake DEF Types, RamFamily
    <3>3. G \in SUBSET Rsv
      BY <1>3 DEF Joined
    <3>4. f \notin User
      BY BlockAssumption
    <3>5. org' \in (User \cup rb') \ G
      BY <1>1, <1>2, <1>3, <1>4, <3>4 DEF RamFamily, Joined
    <3>6. hb'.sbn = ref' \/ hb'.sbn \in (User \cup rb') \ G
      BY <1>2, <1>3, <1>4, <1>5, <1>6, <3>4 DEF Joined
    <3>7. QED BY <3>2, <3>3, <3>5, <3>6 DEF RamFamily, Family
  <2>2. CASE UNCHANGED bmf
    <3>1. Family(bmf', rb', ref', F)
      BY <1>1, <1>2, <1>4, <2>2, FamilyWaste DEF RamFamily
    <3>2. QED BY <1>1, <1>2, <1>4, <1>5, <1>6, <3>1 DEF RamFamily, Family
  <2>3. QED BY <1>2, <2>1, <2>2
<1>8. QED BY <1>4, <1>7 DEF FamilyInv, DiskFamily

LEMMA FamilyHbMark ==
  ASSUME Types, FamilyInv, HbMark
  PROVE  FamilyInv'
<1>1. PICK F \in SUBSET Rsv : RamFamily(F)
  BY DEF FamilyInv
<1>2. UNCHANGED <<disk, bmf, rb>> /\ pc = "hbMark"
  BY DEF HbMark
<1>3. pc' \notin HbPcs /\ pc' # "off"
  BY DEF HbMark, Types, LocalType, Calls, Rets, HbPcs
<1>4. Family(bmf, rb, ref', F) /\ org' \in (User \cup rb) \ F
  <2>1. CASE hb.sbn = ref
    <3>1. ref' = Trans(ref) /\ org' = org
      BY <2>1 DEF HbMark
    <3>2. Trans(ref) \in F
      BY <1>1, BlockTypes DEF RamFamily, Family, Trans, Types, RamType
    <3>3. QED BY <1>1, <3>1, <3>2 DEF RamFamily, Family
  <2>2. CASE hb.sbn # ref
    <3>1. org' = Trans(hb.sbn) /\ ref' = ref
      BY <2>2 DEF HbMark
    <3>2. hb.sbn \in (User \cup rb) \ F
      BY <1>1, <1>2, <2>2 DEF RamFamily, HbPcs
    <3>3. QED BY <1>1, <3>1, <3>2, FamilyTrans DEF RamFamily, Types
  <2>3. QED BY <2>1, <2>2
<1>5. RamFamily(F)'
  BY <1>2, <1>3, <1>4 DEF RamFamily, Family
<1>6. QED BY <1>2, <1>3, <1>5 DEF FamilyInv, DiskFamily

LEMMA FamilyMount ==
  ASSUME Types, FamilyInv, Mount
  PROVE  FamilyInv'
<1>1. PICK F \in SUBSET Rsv : DiskFamily(F)
  BY DEF FamilyInv
<1>2. org' \in User /\ pc' = "open" /\ UNCHANGED disk
  BY DEF FamilyInv, Mount, loop
<1>3. Family(bmf', rb', ref', F)
  BY <1>1 DEF DiskFamily, Mount
<1>4. RamFamily(F)'
  BY <1>2, <1>3, BlockAssumption DEF RamFamily, Family, HbPcs
<1>5. QED BY <1>1, <1>2, <1>4 DEF FamilyInv, DiskFamily

LEMMA FamilyOtherSteps ==
  ASSUME Types, FamilyInv, [Next]_vars,
         ~HbTake, ~HbMark, ~Mount
  PROVE  FamilyInv'
<1> USE DEF HbPcs
<1>0. osbn \in User /\ AnySbn \in User
  BY BlockTypes DEF Types, LocalType
<1>1. Culprit \in {org} \cup User
  BY <1>0 DEF Culprit
<1>2. ASSUME NEW p, Return(p)
      PROVE  pc' = p /\ org' \in User
  BY <1>0, <1>2 DEF Return
<1>3. ASSUME NEW x, NEW w, NEW r, Call(x, w, r)
      PROVE  pc' = "hbTake" /\ hb'.sbn = x
  BY <1>3 DEF Call
<1>4. Outcome \in {"failed", "run"} /\ AfterStore \in {"eraseREFLast", "next"}
  BY DEF Outcome, AfterStore
<1>5. CASE HbNoRsv
  BY <1>2, <1>5, FamilyKept DEF HbNoRsv, ram, tables
<1>6. CASE HbStore
  BY <1>6, FamilyKept DEF HbStore, tables, loop
<1>7. CASE NextEntry
  <2>1. UNCHANGED <<bmf, rb, ref>> /\ (UNCHANGED disk \/ StoreTables)
    BY <1>7 DEF NextEntry, ram, tables
  <2>2. pc' \in {"eraseREF", "next"} /\ (org' = org \/ \E s \in User : org' = Trans(s))
    BY <1>7 DEF NextEntry
  <2>3. QED BY <2>1, <2>2, FamilyKept
<1>8. CASE EndLoop
  BY <1>2, <1>4, <1>8, FamilyKept DEF EndLoop, ram, tables
<1>9. CASE EraseREF \/ CopyOut \/ EraseREFAgain \/ StoreCopied
  <2>1. UNCHANGED <<bmf, rb, ref, org>> /\ (UNCHANGED disk \/ StoreTables)
    BY <1>9 DEF EraseREF, CopyOut, EraseREFAgain, StoreCopied, ram, tables, loop
  <2>2. /\ pc' \in {"copyOut", "next", "hbTake", "storeCopied", "storeDone",
                     "eraseREF", "eraseOrg"}
        /\ pc' = "hbTake" => hb'.sbn = ref
    BY <1>3, <1>9 DEF EraseREF, CopyOut, EraseREFAgain, StoreCopied
  <2>3. QED BY <2>1, <2>2, FamilyKept
<1>10. CASE EraseOrg \/ CopyBack \/ EraseNew \/ Remove \/ StoreDone
  <2>1. UNCHANGED <<bmf, rb, ref, org>> /\ (UNCHANGED disk \/ StoreTables)
    BY <1>10 DEF EraseOrg, CopyBack, EraseNew, Remove, StoreDone, ram, tables, loop
  <2>2. /\ pc' \in {"copyBack", "hbTake", "remove", "eraseREFLast", "next"}
        /\ pc' = "hbTake" => hb'.sbn \in {org} \cup User
    BY <1>0, <1>1, <1>3, <1>4, <1>10
    DEF EraseOrg, CopyBack, EraseNew, Remove, StoreDone
  <2>3. QED BY <2>1, <2>2, FamilyKept
<1>11. CASE EraseREFLast
  <2>1. UNCHANGED <<bmf, rb, ref, disk>>
    BY <1>11 DEF EraseREFLast, ram, tables
  <2>2. \/ pc' \in {"refresh", "failed", "run"} /\ org' \in User
        \/ pc' = "hbTake" /\ hb'.sbn = ref /\ org' = org
    BY <1>2, <1>3, <1>4, <1>11 DEF EraseREFLast
  <2>3. QED BY <2>1, <2>2, FamilyKept
<1>12. CASE OpenVolume
  <2>1. ASSUME NEW i \in Copied(erl) PROVE erl.slot[i].sbn \in User
    BY MaxItemAssumption
    DEF Copied, Used, Slot, Cell, Types, RamType, ERLs
  <2>2. UNCHANGED <<bmf, rb, ref, disk>> /\ pc' \in {"eraseOrg", "refresh", "run"}
    BY <1>12 DEF OpenVolume, ram, tables
  <2>3. org' = org \/ \E s \in User : org' = Trans(s)
    BY <1>12, <2>1 DEF OpenVolume
  <2>4. QED BY <2>2, <2>3, FamilyKept
<1>13. CASE RefreshOnOpen
  BY <1>13, FamilyKept DEF RefreshOnOpen, StartRefresh, ram, tables
<1>14. CASE PowerOff
  BY <1>2, <1>14, FamilyKept DEF PowerOff, ram, tables
<1>15. CASE DoUserErase \/ UserReErase \/ DoUserWrite
  <2>1. UNCHANGED <<bmf, rb, ref, disk>>
    BY <1>15 DEF DoUserErase, UserReErase, DoUserWrite, ram, tables
  <2>2. \/ pc' = "run" /\ org' \in User
        \/ pc' = "userErase" /\ org' = org
        \/ pc' = "hbTake" /\ hb'.sbn = osbn /\ org' = org
    BY <1>2, <1>3, <1>15 DEF DoUserErase, UserReErase, DoUserWrite
  <2>3. QED BY <1>0, <2>1, <2>2, FamilyKept
<1>16. CASE Use
  <2>1. ASSUME NEW s \in User, Disturb(s) PROVE FamilyInv'
    BY <2>1, FamilyKept DEF Disturb, loop
  <2>2. ASSUME NEW s \in User, UserErase(s) \/ UserWrite(s) PROVE FamilyInv'
    BY <2>2, FamilyKept DEF UserErase, UserWrite, ram, tables
  <2>3. CASE ProgramERL
    BY <2>3, FamilyKept DEF ProgramERL, tables, loop
  <2>4. CASE RefreshAll \/ RefreshOne
    BY <2>4, FamilyKept DEF RefreshAll, RefreshOne, StartRefresh, ram, tables
  <2>5. QED BY <1>16, <2>1, <2>2, <2>3, <2>4 DEF Use
<1>17. CASE UNCHANGED vars
  <2>1. UNCHANGED <<bmf, rb, ref, disk, org, pc, hb>>
    BY <1>17 DEF vars, ram, tables, loop
  <2>2. QED BY <2>1 DEF FamilyInv, RamFamily, DiskFamily, Family
<1>18. QED BY <1>5, <1>6, <1>7, <1>8, <1>9, <1>10, <1>11, <1>12, <1>13, <1>14,
              <1>15, <1>16, <1>17 DEF Next, Step

LEMMA FamilyAlways == Spec => [](Types /\ FamilyInv)
<1>1. Types /\ FamilyInv /\ [Next]_vars => FamilyInv'
  BY FamilyHbTake, FamilyHbMark, FamilyMount, FamilyOtherSteps
<1>2. Types /\ FamilyInv /\ [Next]_vars => (Types /\ FamilyInv)'
  BY <1>1, TypeStep
<1>3. QED BY TypeInit, FamilyInit, <1>2, PTL DEF Spec

\* The family tells the REF block and the user's blocks apart.
LEMMA FamilyExclusive ==
  ASSUME NEW b, NEW r, NEW f \in Rsv, NEW F \in SUBSET Rsv, Family(b, r, f, F)
  PROVE  Exclusive(b, r, f)
<1>1. ASSUME NEW s \in User PROVE b[s] # f
  <2>1. s \in Blk /\ s \notin F /\ f # NoRbn
    BY BlockTypes, BlockAssumption DEF NoRbn
  <2>2. QED BY <2>1 DEF Family
<1>2. QED BY <1>1 DEF Family, Exclusive

\* The reservoir never lends a block twice, in RAM or in the tables a mount
\* would load, whatever fails and whenever the power goes off: two user blocks
\* never share a replacement, no user block is sent to the REF block, and
\* _GetFreeRB never finds a block in use.
THEOREM BlocksNotShared == Spec => []NoSharedBlock
<1>1. Types /\ FamilyInv => NoSharedBlock
  <2> SUFFICES ASSUME Types, FamilyInv PROVE NoSharedBlock OBVIOUS
  <2>1. Exclusive(bmf, rb, ref)
    BY FamilyExclusive DEF FamilyInv, RamFamily, Types, RamType
  <2>2. disk.ref \in Rsv
    BY DEF Types, FlashType, Tables
  <2>3. Exclusive(disk.bmf, disk.rb, disk.ref)
    BY <2>2, FamilyExclusive DEF FamilyInv, DiskFamily
  <2>4. QED BY <2>1, <2>3 DEF NoSharedBlock
<1>2. QED BY <1>1, FamilyAlways, PTL
-----------------------------------------------------------------------------
(***************************************************************************)
(* No user data is lost by a refresh, for every number of blocks, any      *)
(* number of disturbed reads and power losses, and as many failing erases  *)
(* as the reservoir has blocks beside the REF block.                       *)
(*                                                                         *)
(* The argument: until the list on flash says COPIED, every block is in    *)
(* its place (Whole); from then until the list on flash is cleared, every  *)
(* block but one is, and that one is in the REF block the tables on flash  *)
(* name (Standing).  What FSR_BBM_HandleBadBlk replaces or marks, and what *)
(* an interrupted erase spoils, is never a block that is needed: this      *)
(* rests on the family of the REF block above.                             *)
(***************************************************************************)
\* The hypothesis.  Each part is needed: a program error in the copy back, an
\* open that skips the refresh, and an empty reservoir each lose data.
Careful ==
  /\ MaxProgFail = 0 /\ "skip" \notin Opens
  /\ IsFiniteSet(Rsv) /\ Cardinality(Rsv) > MaxEraseFail

(***************************************************************************)
(* The invariant.                                                          *)
(***************************************************************************)
\* What the code is at: in a call of FSR_BBM_HandleBadBlk, what it goes back to.
At == IF pc \in HbPcs THEN hb.ret ELSE pc
Before == {"eraseREF", "copyOut", "storeCopied"}
Between == {"eraseOrg", "copyBack", "remove"}
UserStage == {"userErase", "userReErase", "userWrite"}

\* No program fails, no error is left over, and no call is for one.
Calm ==
  /\ pfails = 0 /\ re = "ok" /\ pc \notin {"failed", "eraseNew", "eraseREFAgain"}
  /\ pc \in HbPcs =>
       hb.why = "erase" /\ hb.ret \in {"eraseREF", "eraseREFLast", "eraseOrg", "userReErase"}

\* Each block taken from the reservoir answers a failed erase; in "hbTake" the
\* last failure has not got its block yet.
Owed == IF pc = "hbTake" THEN 0 ELSE 1
Counted ==
  /\ efails \in 0 .. MaxEraseFail
  /\ Cardinality(rb) <= efails + Owed /\ Cardinality(disk.rb) <= efails + Owed

\* The table on flash that translates is the one in RAM.
Synced ==
  /\ pc \notin {"off", "hbStore"} => disk.bmf = bmf
  /\ pc = "open" => disk.erl = erl /\ disk.ref = ref

Replacing == pc \in {"hbStore", "hbMark"}

\* The locals name the block they are about, and where it is now.
Located ==
  /\ At \in Before \cup Between => idx \in Slot /\ erl.slot[idx].sbn = osbn
  /\ At \in Before \cup Between \cup UserStage =>
       org = Trans(osbn) \/ (Replacing /\ hb.sbn = osbn)
  /\ At \in UserStage => osbn \notin want

\* The call of FSR_BBM_HandleBadBlk is for the REF block or the block at hand,
\* and what it is going to mark bad holds nothing that is needed.
Called ==
  /\ pc \in HbPcs =>
       hb.sbn = IF hb.ret \in {"eraseREF", "eraseREFLast"} THEN ref ELSE osbn
  /\ Replacing => /\ \A s \in User : s # hb.sbn =>
                       Trans(s) # hb.bad /\ disk.bmf[s] = bmf[s]
                  /\ hb.sbn # ref => hb.bad # ref

\* Every wanted block outside X is where the tables on flash lead.
Safe(X) == \A s \in want \ X : data[HomeOnDisk(s)] = s
Whole == Copied(disk.erl) = {} /\ Safe({})
Standing(i, s) ==
  /\ i \in Slot /\ Copied(disk.erl) = {i} /\ disk.erl.slot[i].sbn = s
  /\ s \in want => data[disk.ref] = s
  /\ Safe({s})
Down == pc \in {"off", "open"}
Content ==
  /\ Down => Whole \/ \E i \in Slot, s \in User : Standing(i, s)
  /\ ~Down /\ At \notin Between =>
       Whole /\ Copied(erl) = IF pc = "storeCopied" THEN {idx} ELSE {}
  /\ pc = "storeCopied" /\ osbn \in want => data[ref] = osbn
  /\ At \in Between => Standing(idx, osbn) /\ Copied(erl) = {idx} /\ disk.ref = ref
  /\ pc = "remove" => Safe({})

DataInv == Calm /\ Counted /\ Synced /\ Located /\ Called /\ Content
-----------------------------------------------------------------------------
(***************************************************************************)
(* Which entries of the list are COPIED.                                   *)
(***************************************************************************)
LEMMA CopiedIs ==
  ASSUME NEW e, NEW i
  PROVE  i \in Copied(e) <=>
           i \in Slot /\ e.slot[i].sbn # NoSbn /\ e.slot[i].info = "copied"
BY DEF Copied, Used

LEMMA SlotCell == Slot \subseteq Cell /\ Slot \subseteq Nat
BY MaxItemAssumption DEF Slot, Cell

LEMMA CopiedDrop ==
  ASSUME NEW e \in ERLs, NEW i
  PROVE  Copied(DropERL(e, i)) = Copied(e) \ {i}
<1> DEFINE d == DropERL(e, i)
<1>1. ASSUME NEW j \in Slot
      PROVE  d.slot[j] = IF j = i THEN Hole ELSE e.slot[j]
  BY SlotCell, ListParts DEF DropERL
<1> HIDE DEF d
<1>2. Hole.sbn = NoSbn
  BY DEF Hole, Item
<1>3. ASSUME NEW j PROVE j \in Copied(d) <=> j \in Copied(e) /\ j # i
  BY <1>1, <1>2, CopiedIs
<1>4. QED BY <1>3 DEF d

\* Listing a block, and taking one off, make no entry COPIED.
LEMMA CopiedUpdate ==
  ASSUME NEW e \in ERLs, NEW s, Copied(e) = {}
  PROVE  Copied(UpdateERL(e, s)) = {}
<1> DEFINE d == UpdateERL(e, s)
<1>1. ASSUME NEW j \in Slot
      PROVE  d.slot[j] = e.slot[j] \/ d.slot[j] = Item(s, "updated")
  BY SlotCell, ListParts DEF UpdateERL
<1> HIDE DEF d
<1>2. Item(s, "updated").info # "copied"
  BY DEF Item
<1>3. ASSUME NEW j PROVE j \notin Copied(d)
  BY <1>1, <1>2, CopiedIs
<1>4. QED BY <1>3 DEF d

LEMMA CopiedPack ==
  ASSUME NEW e, Copied(e) = {}
  PROVE  Copied(PackERL(e)) = {}
<1>1. ASSUME NEW j \in Slot PROVE j \notin Copied(PackERL(e))
  <2>1. PackERL(e).slot[j] = Packed(e, j)
    BY SlotCell DEF PackERL
  <2>2. CASE \E k \in Used(e) : Rank(e, k) = j
    <3> DEFINE c == CHOOSE k \in Used(e) : Rank(e, k) = j
    <3>1. c \in Used(e)
      BY <2>2
    <3>2. Packed(e, j) = e.slot[c]
      BY <2>2 DEF Packed
    <3> HIDE DEF c
    <3>3. c \in Slot /\ e.slot[c].sbn # NoSbn
      BY <3>1 DEF Used
    <3>4. e.slot[c].info # "copied"
      BY <3>3, CopiedIs
    <3>5. QED BY <2>1, <3>2, <3>4, CopiedIs
  <2>3. CASE ~\E k \in Used(e) : Rank(e, k) = j
    <3>1. Packed(e, j) = IF j \in Used(e) THEN Hole ELSE e.slot[j]
      BY <2>3 DEF Packed
    <3>2. j \notin Used(e) => e.slot[j].sbn = NoSbn
      BY DEF Used
    <3>3. Hole.sbn = NoSbn
      BY DEF Hole, Item
    <3>4. QED BY <2>1, <3>1, <3>2, <3>3, CopiedIs
  <2>4. QED BY <2>2, <2>3
<1>2. QED BY <1>1, CopiedIs

LEMMA CopiedDelete ==
  ASSUME NEW e \in ERLs, NEW s, Copied(e) = {}
  PROVE  Copied(DeleteERL(e, s)) = {}
<1> DEFINE F == {i \in Slot : i < e.cnt /\ e.slot[i].sbn = s}
           d == IF F = {} THEN e ELSE DropERL(e, Min(F))
<1>1. DeleteERL(e, s) = IF d.cnt = 0 THEN d ELSE PackERL(d)
  BY DEF DeleteERL
<1>2. Copied(d) = {}
  BY CopiedDrop
<1> HIDE DEF d
<1>3. QED BY <1>1, <1>2, CopiedPack

\* Step 3 makes one.
LEMMA CopiedNote ==
  ASSUME NEW e \in ERLs, NEW i \in Slot, e.slot[i].sbn # NoSbn
  PROVE  LET d == [e EXCEPT !.slot[i].info = "copied"]
         IN  Copied(d) = Copied(e) \cup {i} /\ d.slot[i].sbn = e.slot[i].sbn
<1> DEFINE d == [e EXCEPT !.slot[i].info = "copied"]
<1>1. ASSUME NEW j \in Slot
      PROVE  /\ d.slot[j].sbn = e.slot[j].sbn
             /\ d.slot[j].info = IF j = i THEN "copied" ELSE e.slot[j].info
  BY SlotCell DEF ERLs
<1> HIDE DEF d
<1>2. ASSUME NEW j PROVE j \in Copied(d) <=> j \in Copied(e) \/ j = i
  BY <1>1, CopiedIs
<1>3. QED BY <1>1, <1>2 DEF d

LEMMA FirstOfOne ==
  ASSUME NEW e, NEW i \in Slot, Copied(e) = {i}
  PROVE  FirstCopied(e) = i
BY SlotCell DEF FirstCopied, Min
-----------------------------------------------------------------------------
(***************************************************************************)
(* Where the blocks are.                                                   *)
(***************************************************************************)
LEMMA HomesDiffer ==
  ASSUME Types, FamilyInv, NEW s \in User
  PROVE  /\ Trans(s) \in Blk /\ Trans(s) # ref /\ Trans(s) # Trans(ref)
         /\ \A t \in User : s # t => Trans(s) # Trans(t)
<1>1. PICK F \in SUBSET Rsv : RamFamily(F)
  BY DEF FamilyInv
<1>2. Trans(s) \in Blk
  BY BlockTypes, TransType DEF Types
<1>3. Trans(s) \notin F
  BY <1>1, UserOutside, FamilyTrans DEF Types, RamFamily
<1>4. ref \in F /\ Trans(ref) \in F
  BY <1>1, BlockTypes DEF RamFamily, Family, Trans, Types, RamType
<1>5. ASSUME NEW t \in User, s # t PROVE Trans(s) # Trans(t)
  <2>1. bmf[s] \in Rsv \cup {NoRbn} /\ bmf[t] \in Rsv \cup {NoRbn}
    BY BlockTypes DEF Types, RamType, BMFTables
  <2>2. bmf[s] # NoRbn => bmf[s] # bmf[t]
    BY <1>1, <1>5 DEF RamFamily, Family
  <2>3. QED BY <1>5, <2>1, <2>2, BlockAssumption DEF Trans
<1>6. QED BY <1>2, <1>3, <1>4, <1>5

LEMMA HomeType ==
  ASSUME Types, NEW s \in User
  PROVE  HomeOnDisk(s) \in Blk
BY BlockTypes DEF Types, FlashType, Tables, HomeOnDisk

\* Registering a block for x moves no other user block.
LEMMA OthersStay ==
  ASSUME RamType, NEW x, NEW f, NEW s \in User, s # x
  PROVE  RegBMF(x, f)[s] = bmf[s]
<1>1. s \notin Rsv /\ s \in Blk
  BY BlockAssumption, BlockTypes
<1>2. QED BY <1>1 DEF RegBMF, RamType, BMFTables

\* Outside P the flash stays as it is.
Touches(P) == \A b \in Blk \ P : data'[b] = data[b]

LEMMA FlashTouches ==
  ASSUME FlashType, NEW p, ErasesBlk(p) \/ EraseFails(p) \/ \E d : CopiesTo(d, p)
  PROVE  Touches({p})
BY DEF FlashType, ErasesBlk, CopiesTo, EraseFails, Touches

LEMMA SafeKept ==
  ASSUME Types, NEW X, Safe(X), NEW P, Touches(P), want' \subseteq want,
         \A s \in want \ X : s \in want' => HomeOnDisk(s) \notin P,
         \A s \in want \ X : HomeOnDisk(s)' = HomeOnDisk(s)
  PROVE  Safe(X)'
<1>1. want \subseteq User
  BY DEF Types, LocalType
<1>2. SUFFICES ASSUME NEW s \in want' \ X PROVE data'[HomeOnDisk(s)'] = s
  BY DEF Safe
<1>3. s \in want \ X /\ HomeOnDisk(s) \in Blk
  BY <1>1, HomeType
<1>4. QED BY <1>3 DEF Touches, Safe
-----------------------------------------------------------------------------
(***************************************************************************)
(* Under these hypotheses nothing but an erase fails, and a reserved block *)
(* is always left for it.                                                  *)
(***************************************************************************)
LEMMA NeverHere ==
  ASSUME Careful, Types, Calm, Counted
  PROVE  /\ ~HbNoRsv /\ ~EraseREFAgain /\ ~EraseNew
         /\ \A p : ~ProgramFails(p)
<1>1. ~HbNoRsv
  <2> SUFFICES ASSUME HbNoRsv PROVE FALSE OBVIOUS
  <2>1. rb = Rsv
    BY DEF HbNoRsv, Types, RamType
  <2>2. Cardinality(Rsv) \in Nat
    BY FS_CardinalityType DEF Careful
  <2>3. Cardinality(rb) <= efails /\ efails <= MaxEraseFail /\ efails \in Nat
    BY CountAssumption DEF HbNoRsv, Counted, Owed
  <2>4. QED BY <2>1, <2>2, <2>3, CountAssumption DEF Careful
<1>2. ~EraseREFAgain /\ ~EraseNew
  BY DEF Calm, EraseREFAgain, EraseNew
<1>3. \A p : ~ProgramFails(p)
  BY DEF Careful, Calm, ProgramFails
<1>4. QED BY <1>1, <1>2, <1>3

LEMMA Taken ==
  ASSUME Types, Calm, HbTake
  PROVE  /\ pc = "hbTake" /\ pc' = "hbStore"
         /\ UNCHANGED <<data, bounds, erl, want, disk, inRAM, ref, who, loop>>
         /\ hb'.sbn = hb.sbn /\ hb'.ret = hb.ret /\ hb'.why = hb.why
         /\ hb'.bad = Trans(hb.sbn)
         /\ \E f \in Rsv \ rb : rb' = rb \cup {f} /\ bmf' = RegBMF(hb.sbn, f)
<1>1. hb.why = "erase" /\ pc = "hbTake"
  BY DEF HbTake, Calm, HbPcs
<1>2. PICK f \in Rsv : /\ FirstFree(f) /\ rb' = rb \cup {f}
                       /\ UNCHANGED <<data, bounds, erl>>
                       /\ bmf' = RegBMF(hb.sbn, f)
                       /\ hb' = [hb EXCEPT !.bad = Trans(hb.sbn)]
                       /\ pc' = "hbStore"
  BY <1>1 DEF HbTake
<1>3. f \in Rsv \ rb
  BY <1>2 DEF FirstFree
<1>4. UNCHANGED <<want, disk, inRAM, ref, who, loop>>
  BY DEF HbTake
<1>5. hb \in Calls
  BY DEF Types, LocalType
<1>6. QED BY <1>1, <1>2, <1>3, <1>4, <1>5 DEF Calls

LEMMA CalmStep ==
  ASSUME Careful, Types, Calm, Counted, [Next]_vars
  PROVE  Calm'
<1> USE DEF HbPcs
<1>0. Outcome = "run" /\ AfterStore \in {"eraseREFLast", "next"} /\ Opens \ {"skip"} = Opens
  BY DEF Careful, Calm, Outcome, AfterStore
<1>1. pfails' = pfails
  <2>1. ASSUME NEW p, ErasesBlk(p) \/ EraseFails(p) PROVE pfails' = pfails
    BY <2>1 DEF ErasesBlk, EraseFails, bounds
  <2>2. ASSUME NEW p, NEW d, CopiesTo(d, p) PROVE pfails' = pfails
    BY <2>2 DEF CopiesTo, bounds
  <2>3. CASE Use
    BY <2>3 DEF Use, Disturb, UserErase, UserWrite, ProgramERL, RefreshAll, RefreshOne, bounds
  <2>4. CASE HbTake \/ HbStore \/ HbMark \/ NextEntry \/ EndLoop \/ StoreCopied
             \/ Remove \/ StoreDone \/ OpenVolume \/ RefreshOnOpen \/ Mount
             \/ PowerOff \/ UNCHANGED vars
    BY <2>4, Taken DEF HbStore, HbMark, NextEntry, EndLoop, StoreCopied, Remove,
      StoreDone, OpenVolume, RefreshOnOpen, Mount, PowerOff, vars, bounds
  <2>5. CASE EraseREF \/ CopyOut \/ EraseOrg \/ CopyBack \/ EraseREFLast
             \/ DoUserErase \/ UserReErase \/ DoUserWrite
    BY <2>1, <2>2, <2>5, NeverHere DEF EraseREF, CopyOut, EraseOrg, CopyBack,
      EraseREFLast, DoUserErase, UserReErase, DoUserWrite
  <2>6. QED BY <2>3, <2>4, <2>5, NeverHere DEF Next, Step
<1>2. re' = re
  <2>2. ASSUME NEW w, NEW n, StartRefresh(w, n) PROVE re' = re
    BY <2>2 DEF StartRefresh, Calm
  <2>3. CASE Use
    BY <2>2, <2>3 DEF Use, Disturb, UserErase, UserWrite, ProgramERL, RefreshAll, RefreshOne, loop
  <2>4. CASE HbTake \/ HbStore \/ HbMark \/ NextEntry \/ EndLoop \/ StoreCopied
             \/ Remove \/ StoreDone \/ OpenVolume \/ RefreshOnOpen \/ Mount
             \/ PowerOff \/ UNCHANGED vars
    BY <2>2, <2>4, Taken DEF HbStore, HbMark, NextEntry, EndLoop, StoreCopied, Remove,
      StoreDone, OpenVolume, RefreshOnOpen, Mount, PowerOff, vars, loop, Calm
  <2>5. CASE EraseREF \/ CopyOut \/ EraseOrg \/ CopyBack \/ EraseREFLast
             \/ DoUserErase \/ UserReErase \/ DoUserWrite
    BY <2>5 DEF EraseREF, CopyOut, EraseOrg, CopyBack,
      EraseREFLast, DoUserErase, UserReErase, DoUserWrite, loop
  <2>6. QED BY <2>3, <2>4, <2>5, NeverHere DEF Next, Step
<1>3. /\ pc' \notin {"failed", "eraseNew", "eraseREFAgain"}
      /\ pc' \in HbPcs =>
           hb'.why = "erase" /\ hb'.ret \in {"eraseREF", "eraseREFLast", "eraseOrg", "userReErase"}
  <2>1. ASSUME NEW w, NEW n, StartRefresh(w, n) PROVE pc' = "next"
    BY <2>1 DEF StartRefresh
  <2>2. ASSUME NEW p, Return(p) PROVE pc' = p
    BY <2>2 DEF Return
  <2>3. ASSUME NEW x, NEW r, Call(x, "erase", r)
        PROVE pc' = "hbTake" /\ hb'.why = "erase" /\ hb'.ret = r
    BY <2>3 DEF Call
  <2>4. CASE Use
    BY <2>1, <2>4 DEF Use, Disturb, UserErase, UserWrite, ProgramERL, RefreshAll,
      RefreshOne, Calm
  <2>5. CASE HbTake \/ HbStore \/ HbMark
    BY <2>5, Taken DEF HbStore, HbMark, Calm
  <2>6. CASE NextEntry \/ EndLoop \/ StoreCopied
             \/ Remove \/ StoreDone \/ OpenVolume \/ RefreshOnOpen \/ Mount
             \/ PowerOff
    BY <1>0, <2>1, <2>2, <2>6 DEF NextEntry, EndLoop, StoreCopied, Remove,
      StoreDone, OpenVolume, RefreshOnOpen, Mount, PowerOff, Careful
  <2>7. CASE EraseREF \/ CopyOut \/ EraseOrg \/ CopyBack \/ EraseREFLast
             \/ DoUserErase \/ UserReErase \/ DoUserWrite
    BY <1>0, <2>2, <2>3, <2>7, NeverHere DEF EraseREF, CopyOut, EraseOrg, CopyBack,
      EraseREFLast, DoUserErase, UserReErase, DoUserWrite
  <2>8. CASE UNCHANGED vars
    BY <2>8 DEF vars, Calm
  <2>9. QED BY <2>4, <2>5, <2>6, <2>7, <2>8, NeverHere DEF Next, Step
<1>4. QED BY <1>1, <1>2, <1>3 DEF Calm

\* A block is taken from the reservoir only for an erase that failed.
LEMMA CountedStep ==
  ASSUME Careful, Types, Calm, Counted, [Next]_vars
  PROVE  Counted'
<1>0. /\ IsFiniteSet(rb) /\ Cardinality(rb) \in Nat
      /\ IsFiniteSet(disk.rb) /\ Cardinality(disk.rb) \in Nat
  <2>1. rb \subseteq Rsv /\ disk.rb \subseteq Rsv
    BY DEF Types, RamType, FlashType, Tables
  <2>2. QED BY <2>1, FS_Subset, FS_CardinalityType DEF Careful
<1>1. CASE HbTake
  <2>1. PICK f \in Rsv \ rb : rb' = rb \cup {f}
    BY <1>1, Taken
  <2>2. Cardinality(rb') = Cardinality(rb) + 1
    BY <1>0, <2>1, FS_AddElement
  <2>3. UNCHANGED <<disk, efails>> /\ pc = "hbTake" /\ pc' = "hbStore"
    BY <1>1, Taken DEF bounds
  <2>4. QED BY <1>0, <2>2, <2>3, CountAssumption DEF Counted, Owed
<1>2. CASE ~HbTake
  <2>1. rb' \in {rb, disk.rb} /\ disk'.rb \in {rb, disk.rb}
    <3>1. ASSUME UNCHANGED tables, StoreTables PROVE rb' = rb /\ disk'.rb = rb
      BY <3>1 DEF tables, StoreTables
    <3>2. CASE Use
      BY <3>1, <3>2 DEF Use, Disturb, UserErase, UserWrite, ProgramERL, RefreshAll,
        RefreshOne, ram, tables
    <3>3. CASE HbStore \/ HbMark \/ EndLoop \/ StoreCopied
               \/ StoreDone \/ OpenVolume \/ RefreshOnOpen \/ Mount
               \/ PowerOff \/ UNCHANGED vars
      BY <3>1, <3>3 DEF HbStore, HbMark, EndLoop, StoreCopied,
        StoreDone, OpenVolume, RefreshOnOpen, Mount, PowerOff, vars, ram, tables
    <3>4. CASE NextEntry \/ Remove
      BY <3>4 DEF NextEntry, Remove, StoreTables, ram, tables
    <3>5. CASE EraseREF \/ CopyOut \/ EraseOrg \/ CopyBack \/ EraseREFLast
               \/ DoUserErase \/ UserReErase \/ DoUserWrite
      BY <3>5 DEF EraseREF, CopyOut, EraseOrg, CopyBack,
        EraseREFLast, DoUserErase, UserReErase, DoUserWrite, ram, tables
    <3>6. QED BY <1>2, <3>2, <3>3, <3>4, <3>5, NeverHere DEF Next, Step
  <2>2. \/ efails' = efails /\ (pc' = "hbTake" => pc = "hbTake")
        \/ pc # "hbTake" /\ efails < MaxEraseFail /\ efails' = efails + 1
    <3>1. ASSUME NEW p, Return(p) PROVE pc' = p
      BY <3>1 DEF Return
    <3>2. ASSUME NEW p, ErasesBlk(p) PROVE efails' = efails
      BY <3>2 DEF ErasesBlk, bounds
    <3>3. ASSUME NEW p, NEW d, CopiesTo(d, p) PROVE efails' = efails
      BY <3>3 DEF CopiesTo, bounds
    <3>4. ASSUME NEW p, EraseFails(p) PROVE efails < MaxEraseFail /\ efails' = efails + 1
      BY <3>4 DEF EraseFails
    <3>5. AfterStore # "hbTake" /\ Outcome # "hbTake"
      BY DEF AfterStore, Outcome
    <3>6. CASE Use
      BY <3>6 DEF Use, Disturb, UserErase, UserWrite, ProgramERL, RefreshAll,
        RefreshOne, StartRefresh, bounds
    <3>7. CASE HbStore \/ HbMark \/ EndLoop \/ StoreCopied \/ NextEntry \/ Remove
               \/ StoreDone \/ OpenVolume \/ RefreshOnOpen \/ Mount
               \/ PowerOff \/ UNCHANGED vars
      BY <3>1, <3>5, <3>7 DEF HbStore, HbMark, EndLoop, StoreCopied, NextEntry,
        Remove, StoreDone, OpenVolume, RefreshOnOpen, StartRefresh, Mount, PowerOff,
        vars, bounds, Calm, HbPcs
    <3>8. CASE EraseREF \/ CopyOut \/ EraseOrg \/ CopyBack \/ EraseREFLast
               \/ DoUserErase \/ UserReErase \/ DoUserWrite
      BY <3>1, <3>2, <3>3, <3>4, <3>5, <3>8, NeverHere DEF EraseREF, CopyOut, EraseOrg,
        CopyBack, EraseREFLast, DoUserErase, UserReErase, DoUserWrite
    <3>9. QED BY <1>2, <3>6, <3>7, <3>8, NeverHere DEF Next, Step
  <2>3. ASSUME NEW r \in {rb, disk.rb} PROVE Cardinality(r) <= efails' + Owed'
    <3>1. Cardinality(r) \in Nat /\ Cardinality(r) <= efails + Owed
      BY <1>0 DEF Counted
    <3>2. efails \in Nat
      BY DEF Counted
    <3>3. QED BY <2>2, <3>1, <3>2 DEF Owed
  <2>4. efails' \in 0 .. MaxEraseFail
    BY <2>2, CountAssumption DEF Counted
  <2>5. QED BY <2>1, <2>3, <2>4 DEF Counted
<1>3. QED BY <1>1, <1>2

LEMMA SyncedStep ==
  ASSUME Careful, Types, Calm, Counted, Synced, [Next]_vars
  PROVE  Synced'
<1>1. ASSUME StoreTables, UNCHANGED bmf PROVE disk'.bmf = bmf'
  BY <1>1 DEF StoreTables
<1>2. ASSUME NEW p, Return(p) PROVE pc' = p
  BY <1>2 DEF Return
<1>3. ASSUME NEW x, NEW w, NEW r, Call(x, w, r) PROVE pc' = "hbTake"
  BY <1>3 DEF Call
<1>4. AfterStore \notin {"open", "hbStore"} /\ Outcome \notin {"open", "hbStore"}
  BY DEF AfterStore, Outcome
<1>5. CASE HbTake
  BY <1>5, Taken DEF Synced
<1>6. CASE HbStore \/ StoreCopied \/ Remove \/ StoreDone \/ ProgramERL
  BY <1>1, <1>4, <1>6 DEF HbStore, StoreCopied, Remove, StoreDone, ProgramERL, tables, Synced
<1>7. CASE NextEntry
  BY <1>1, <1>7 DEF NextEntry, ram, tables, Synced
<1>8. CASE Mount
  BY <1>8 DEF Mount, Synced
<1>9. CASE PowerOff
  BY <1>2, <1>9 DEF PowerOff, Synced
<1>10. CASE HbMark
  BY <1>10 DEF HbMark, Synced, Calm, HbPcs
<1>11. CASE \/ EndLoop \/ OpenVolume \/ RefreshOnOpen \/ RefreshAll \/ RefreshOne
            \/ EraseREF \/ CopyOut \/ EraseOrg \/ CopyBack \/ EraseREFLast
            \/ DoUserErase \/ UserReErase \/ DoUserWrite
            \/ \E s \in User : Disturb(s) \/ UserErase(s) \/ UserWrite(s)
  <2>1. UNCHANGED <<bmf, disk>>
    BY <1>11 DEF EndLoop, OpenVolume, RefreshOnOpen, RefreshAll, RefreshOne,
      EraseREF, CopyOut, EraseOrg, CopyBack, EraseREFLast, DoUserErase, UserReErase,
      DoUserWrite, Disturb, UserErase, UserWrite, ram, tables
  <2>2. pc \notin {"off", "hbStore"} /\ pc' # "open"
    BY <1>2, <1>3, <1>4, <1>11 DEF EndLoop, OpenVolume, RefreshOnOpen, RefreshAll,
      RefreshOne, StartRefresh, EraseREF, CopyOut, EraseOrg, CopyBack, EraseREFLast,
      DoUserErase, UserReErase, DoUserWrite, Disturb, UserErase, UserWrite
  <2>3. QED BY <2>1, <2>2 DEF Synced
<1>12. CASE UNCHANGED vars
  BY <1>12 DEF vars, ram, tables, Synced
<1>13. QED BY <1>5, <1>6, <1>7, <1>8, <1>9, <1>10, <1>11, <1>12, NeverHere
          DEF Next, Step, Use
-----------------------------------------------------------------------------
(***************************************************************************)
(* What the steps do to the data, by where the code is.                    *)
(***************************************************************************)
Resting == pc \notin HbPcs \cup Before \cup Between \cup UserStage

LEMMA RestingKnows == Resting => At = pc /\ At \notin Between /\ Located /\ Called
BY DEF Resting, Located, Called, At, Replacing, HbPcs

LEMMA RestingThen == Resting' => At' = pc' /\ At' \notin Between /\ Located' /\ Called'
BY DEF Resting, Located, Called, At, Replacing, HbPcs

LEMMA Home ==
  ASSUME Synced, pc \notin {"off", "hbStore"}, NEW s
  PROVE  HomeOnDisk(s) = Trans(s)
BY DEF Synced, HomeOnDisk, Trans

\* Nothing is COPIED and nothing that is wanted is touched.
LEMMA WholeKept ==
  ASSUME Types, Content, ~Down, At \notin Between, ~Down', At' \notin Between,
         pc' # "storeCopied", UNCHANGED disk, Copied(erl') = {},
         NEW P, Touches(P), want' \subseteq want, \A s \in want' : HomeOnDisk(s) \notin P
  PROVE  Content'
<1>1. Whole
  BY DEF Content
<1>2. Safe({})'
  BY <1>1, SafeKept DEF Whole, HomeOnDisk
<1>3. Whole'
  BY <1>1, <1>2 DEF Whole
<1>4. pc' # "remove"
  BY DEF At, HbPcs, Between
<1>5. QED BY <1>3, <1>4 DEF Content

LEMMA WholeStored ==
  ASSUME Types, Content, ~Down, At \notin Between, ~Down', At' \notin Between,
         pc' # "storeCopied", StoreTables, Copied(erl') = {},
         UNCHANGED <<data, want>>,
         \A s \in want : HomeOnDisk(s)' = HomeOnDisk(s)
  PROVE  Content'
<1>1. Safe({})
  BY DEF Content, Whole
<1>2. Safe({})'
  BY <1>1, SafeKept DEF Touches
<1>3. disk'.erl = erl'
  BY DEF StoreTables
<1>4. Whole'
  BY <1>2, <1>3 DEF Whole
<1>5. pc' # "remove"
  BY DEF At, HbPcs, Between
<1>6. QED BY <1>4, <1>5 DEF Content

\* Between the two copies everything but the block itself is in its place.
LEMMA StandingKept ==
  ASSUME Types, NEW i, NEW s, Standing(i, s), NEW P, Touches(P), disk.ref \notin P,
         UNCHANGED <<disk, want>>, \A t \in want \ {s} : HomeOnDisk(t) \notin P
  PROVE  Standing(i, s)'
<1>1. Safe({s})'
  BY SafeKept DEF Standing, HomeOnDisk
<1>2. disk.ref \in Blk
  BY BlockTypes DEF Types, FlashType, Tables
<1>3. data'[disk.ref] = data[disk.ref]
  BY <1>2 DEF Touches
<1>4. QED BY <1>1, <1>3 DEF Standing

Inv == Types /\ FamilyInv /\ DataInv
Data == Located /\ Called /\ Content

LEMMA DataHbTake ==
  ASSUME Inv, HbTake
  PROVE  Data'
<1>1. /\ pc = "hbTake" /\ pc' = "hbStore"
      /\ UNCHANGED <<data, erl, want, disk, ref, idx, osbn, org>>
      /\ hb'.sbn = hb.sbn /\ hb'.ret = hb.ret /\ hb'.bad = Trans(hb.sbn)
      /\ \E f \in Rsv \ rb : bmf' = RegBMF(hb.sbn, f)
  BY Taken DEF Inv, DataInv, loop
<1>2. At = hb.ret /\ At' = hb.ret
  BY <1>1 DEF At, HbPcs
<1>3. osbn \in User /\ ref \notin User /\ want \subseteq User /\ RamType
  BY BlockAssumption DEF Inv, Types, LocalType, RamType
<1>4. ASSUME NEW s \in User, s # hb.sbn
      PROVE  Trans(s)' = Trans(s) /\ bmf'[s] = bmf[s]
  BY <1>1, <1>3, <1>4, OthersStay DEF Trans
<1>5. hb.sbn = IF hb.ret \in {"eraseREF", "eraseREFLast"} THEN ref ELSE osbn
  BY <1>1 DEF Inv, DataInv, Called, HbPcs
<1>6. disk.bmf = bmf
  BY <1>1 DEF Inv, DataInv, Synced
<1>7. Located'
  <2>1. At \in Before \cup Between => idx \in Slot /\ erl.slot[idx].sbn = osbn
    BY DEF Inv, DataInv, Located
  <2>2. At \in UserStage => osbn \notin want
    BY DEF Inv, DataInv, Located
  <2>3. At \in Before \cup Between \cup UserStage => org = Trans(osbn)
    BY <1>1 DEF Inv, DataInv, Located, Replacing
  <2>4. hb.sbn # osbn => Trans(osbn)' = Trans(osbn)
    BY <1>1, <1>3, <1>4 DEF Trans
  <2>5. QED BY <1>1, <1>2, <2>1, <2>2, <2>3, <2>4 DEF Located, Replacing
<1>8. Called'
  <2>1. ASSUME NEW s \in User, s # hb.sbn PROVE Trans(s)' # hb'.bad /\ disk'.bmf[s] = bmf'[s]
    BY <1>1, <1>3, <1>4, <1>5, <1>6, <2>1, HomesDiffer DEF Inv
  <2>2. hb.sbn # ref => hb'.bad # ref
    BY <1>1, <1>3, <1>5, HomesDiffer DEF Inv
  <2>3. QED BY <1>1, <1>5, <2>1, <2>2 DEF Called
<1>9. Content'
  <2>1. Content
    BY DEF Inv, DataInv
  <2>2. \A s : HomeOnDisk(s)' = HomeOnDisk(s)
    BY <1>1 DEF HomeOnDisk
  <2>3. \A X : Safe(X)' <=> Safe(X)
    BY <1>1, <2>2 DEF Safe
  <2>4. Whole' <=> Whole
    BY <1>1, <2>3 DEF Whole
  <2>5. Standing(idx, osbn)' <=> Standing(idx, osbn)
    BY <1>1, <2>3 DEF Standing
  <2>6. QED BY <1>1, <1>2, <2>1, <2>4, <2>5 DEF Content, Down
<1>10. QED BY <1>7, <1>8, <1>9 DEF Data

LEMMA DataHbStore ==
  ASSUME Inv, HbStore
  PROVE  Data'
<1>1. /\ pc = "hbStore" /\ pc' = "hbMark" /\ StoreTables
      /\ UNCHANGED <<data, erl, bmf, ref, want, idx, osbn, org, hb>>
  BY DEF HbStore, tables, loop
<1>2. At = hb.ret /\ At' = hb.ret
  BY <1>1 DEF At, HbPcs
<1>3. disk'.bmf = bmf /\ disk'.erl = erl /\ disk'.ref = ref
  BY <1>1 DEF StoreTables
<1>4. \A s : Trans(s)' = Trans(s)
  BY <1>1 DEF Trans
<1>5. Located'
  BY <1>1, <1>2, <1>4 DEF Inv, DataInv, Located, Replacing
<1>6. Called'
  BY <1>1, <1>3, <1>4 DEF Inv, DataInv, Called, Replacing, HbPcs
<1>7. ASSUME NEW s \in User, s # hb.sbn PROVE HomeOnDisk(s)' = HomeOnDisk(s)
  BY <1>1, <1>3, <1>7 DEF Inv, DataInv, Called, Replacing, HomeOnDisk
<1>8. want \subseteq User /\ ref \notin User
  BY BlockAssumption DEF Inv, Types, LocalType, RamType
<1>9. hb.sbn = IF hb.ret \in {"eraseREF", "eraseREFLast"} THEN ref ELSE osbn
  BY <1>1 DEF Inv, DataInv, Called, HbPcs
<1>10. hb.ret \in {"eraseREF", "eraseREFLast", "eraseOrg", "userReErase"}
  BY <1>1 DEF Inv, DataInv, Calm, HbPcs
<1>11. CASE At \notin Between
  <2>1. hb.sbn \notin want
    BY <1>2, <1>8, <1>9, <1>10, <1>11 DEF Inv, DataInv, Located, Between, UserStage
  <2>2. Copied(erl') = {}
    BY <1>1, <1>11 DEF Inv, DataInv, Content, Down
  <2>3. Content'
    BY <1>1, <1>2, <1>7, <1>8, <1>11, <2>1, <2>2, WholeStored
    DEF Inv, DataInv, Down
  <2>4. QED BY <1>5, <1>6, <2>3 DEF Data
<1>12. CASE At \in Between
  <2>1. hb.sbn = osbn
    BY <1>2, <1>9, <1>12 DEF Between
  <2>2. Standing(idx, osbn) /\ Copied(erl) = {idx} /\ disk.ref = ref
    BY <1>12 DEF Inv, DataInv, Content
  <2>3. erl.slot[idx].sbn = osbn
    BY <1>12 DEF Inv, DataInv, Located
  <2>4. Safe({osbn})'
    <3>1. Touches({})
      BY <1>1 DEF Touches
    <3>2. \A s \in want \ {osbn} : HomeOnDisk(s)' = HomeOnDisk(s)
      BY <1>7, <1>8, <2>1
    <3>3. QED BY <1>1, <2>2, <3>1, <3>2, SafeKept DEF Standing, Inv
  <2>5. Standing(idx, osbn)'
    BY <1>1, <1>3, <2>2, <2>3, <2>4 DEF Standing
  <2>6. Content'
    BY <1>1, <1>2, <1>3, <1>12, <2>2, <2>5 DEF Content, Down
  <2>7. QED BY <1>5, <1>6, <2>6 DEF Data
<1>13. QED BY <1>11, <1>12

LEMMA DataHbMark ==
  ASSUME Inv, HbMark
  PROVE  Data'
<1>1. /\ pc = "hbMark" /\ pc' = hb.ret /\ data' = [data EXCEPT ![hb.bad] = Junk]
      /\ UNCHANGED <<erl, bmf, disk, want, idx, osbn>>
      /\ IF hb.sbn = ref THEN ref' = Trans(ref) /\ UNCHANGED org
                         ELSE org' = Trans(hb.sbn) /\ UNCHANGED ref
  BY DEF HbMark
<1>2. hb.ret \in {"eraseREF", "eraseREFLast", "eraseOrg", "userReErase"}
  BY <1>1 DEF Inv, DataInv, Calm, HbPcs
<1>3. At = hb.ret /\ At' = hb.ret /\ pc' \notin HbPcs
  BY <1>1, <1>2 DEF At, HbPcs
<1>4. hb.sbn = IF hb.ret \in {"eraseREF", "eraseREFLast"} THEN ref ELSE osbn
  BY <1>1 DEF Inv, DataInv, Called, HbPcs
<1>5. want \subseteq User /\ ref \notin User /\ osbn \in User
  BY BlockAssumption DEF Inv, Types, LocalType, RamType
<1>6. \A s : Trans(s)' = Trans(s) /\ HomeOnDisk(s) = Trans(s)
  BY <1>1, Home DEF Trans, Inv, DataInv
<1>7. ASSUME NEW s \in want, s # hb.sbn PROVE HomeOnDisk(s) \notin {hb.bad}
  BY <1>1, <1>5, <1>6, <1>7 DEF Inv, DataInv, Called, Replacing
<1>8. Touches({hb.bad})
  BY <1>1 DEF Inv, Types, FlashType, Touches
<1>9. Located'
  BY <1>1, <1>3, <1>4, <1>5, <1>6 DEF Inv, DataInv, Located, Before, Between, UserStage
<1>10. Called'
  BY <1>1, <1>2, <1>3 DEF Called, Replacing, HbPcs
<1>11. ~Down /\ ~Down' /\ pc' # "storeCopied" /\ pc' # "remove"
  BY <1>1, <1>2 DEF Down
<1>12. CASE At \notin Between
  <2>1. hb.sbn \notin want
    BY <1>2, <1>3, <1>4, <1>5, <1>12 DEF Inv, DataInv, Located, Between, UserStage
  <2>2. Copied(erl') = {}
    BY <1>1, <1>11, <1>12 DEF Inv, DataInv, Content
  <2>3. Content'
    BY <1>1, <1>3, <1>7, <1>8, <1>11, <1>12, <2>1, <2>2, WholeKept DEF Inv, DataInv
  <2>4. QED BY <1>9, <1>10, <2>3 DEF Data
<1>13. CASE At \in Between
  <2>1. hb.sbn = osbn
    BY <1>3, <1>4, <1>13 DEF Between
  <2>2. Standing(idx, osbn) /\ Copied(erl) = {idx} /\ disk.ref = ref
    BY <1>13 DEF Inv, DataInv, Content
  <2>3. ref' = ref /\ hb.bad # ref
    BY <1>1, <1>5, <2>1 DEF Inv, DataInv, Called, Replacing
  <2>4. Standing(idx, osbn)'
    BY <1>1, <1>7, <1>8, <2>1, <2>2, <2>3, StandingKept DEF Inv
  <2>5. Content'
    BY <1>1, <1>3, <1>11, <1>13, <2>2, <2>3, <2>4 DEF Content
  <2>6. QED BY <1>9, <1>10, <2>5 DEF Data
<1>14. QED BY <1>12, <1>13

\* Steps that store the tables, or change the list alone, while the code is
\* neither replacing a block nor between the two copies.
LEMMA DataNextEntry ==
  ASSUME Inv, NextEntry
  PROVE  Data'
<1>1. PICK i \in Entries :
        \/ /\ erl.slot[i].sbn \in User \ Tight
           /\ idx' = i /\ osbn' = erl.slot[i].sbn /\ org' = Trans(erl.slot[i].sbn)
           /\ pc' = "eraseREF" /\ UNCHANGED <<ram, disk>>
        \/ /\ erl' = DropERL(erl, i) /\ UNCHANGED <<bmf, rb, ref>> /\ StoreTables
           /\ UNCHANGED <<osbn, org, pc>>
  BY DEF NextEntry
<1>2. pc = "next" /\ UNCHANGED <<data, want, hb>>
  BY DEF NextEntry
<1>3. At = "next" /\ ~Down /\ Resting
  BY <1>2 DEF At, Down, Resting, HbPcs, Before, Between, UserStage
<1>4. Copied(erl) = {} /\ Types /\ Content
  BY <1>2, <1>3 DEF Inv, DataInv, Content, Between
<1>5. \A s : HomeOnDisk(s) = Trans(s)
  BY <1>2, Home DEF Inv, DataInv
<1>6. CASE /\ erl.slot[i].sbn \in User \ Tight
           /\ idx' = i /\ osbn' = erl.slot[i].sbn /\ org' = Trans(erl.slot[i].sbn)
           /\ pc' = "eraseREF" /\ UNCHANGED <<ram, disk>>
  <2>1. At' = "eraseREF" /\ ~Down' /\ pc' \notin HbPcs
    BY <1>6 DEF At, Down, HbPcs
  <2>2. i \in Slot
    BY DEF Entries
  <2>3. org' = Trans(osbn)' /\ erl'.slot[idx'].sbn = osbn'
    BY <1>6 DEF Trans, ram, tables
  <2>4. Located'
    BY <1>6, <2>1, <2>2, <2>3 DEF Located, UserStage
  <2>5. Called'
    BY <1>6, <2>1 DEF Called, Replacing
  <2>6. Touches({})
    BY <1>2 DEF Touches
  <2>7. Content'
    BY <1>2, <1>3, <1>4, <1>6, <2>1, <2>6, WholeKept DEF ram, tables, Between
  <2>8. QED BY <2>4, <2>5, <2>7 DEF Data
<1>7. CASE /\ erl' = DropERL(erl, i) /\ UNCHANGED <<bmf, rb, ref>> /\ StoreTables
           /\ UNCHANGED <<osbn, org, pc>>
  <2>1. At' = "next" /\ ~Down' /\ Resting'
    BY <1>2, <1>7 DEF At, Down, Resting, HbPcs, Before, Between, UserStage
  <2>2. Copied(erl') = {}
    BY <1>4, <1>7, CopiedDrop DEF Types, RamType
  <2>3. \A s : HomeOnDisk(s)' = HomeOnDisk(s)
    BY <1>5, <1>7 DEF StoreTables, HomeOnDisk, Trans
  <2>4. Content'
    BY <1>2, <1>3, <1>4, <1>7, <2>1, <2>2, <2>3, WholeStored DEF Between
  <2>5. QED BY <2>1, <2>4, RestingThen DEF Data
<1>8. QED BY <1>1, <1>6, <1>7

\* The same tables go to flash again.
LEMMA DataStoreAgain ==
  ASSUME Inv, StoreDone \/ ProgramERL
  PROVE  Data'
<1>1. /\ pc \in {"storeDone", "run"} /\ pc' \in {"eraseREFLast", "next", "run"}
      /\ UNCHANGED <<data, want, erl, bmf, rb, ref>> /\ StoreTables
  BY DEF StoreDone, ProgramERL, AfterStore, tables
<1>2. /\ At = pc /\ ~Down /\ Resting
      /\ At' = pc' /\ ~Down' /\ Resting'
  BY <1>1 DEF At, Down, Resting, HbPcs, Before, Between, UserStage
<1>3. Copied(erl) = {} /\ Types /\ Content
  BY <1>1, <1>2 DEF Inv, DataInv, Content, Between
<1>4. \A s : HomeOnDisk(s)' = HomeOnDisk(s)
  <2>1. \A s : HomeOnDisk(s) = Trans(s)
    BY <1>1, Home DEF Inv, DataInv
  <2>2. QED BY <1>1, <2>1 DEF StoreTables, HomeOnDisk, Trans
<1>5. Content'
  BY <1>1, <1>2, <1>3, <1>4, WholeStored DEF Between
<1>6. QED BY <1>2, <1>5, RestingThen DEF Data

LEMMA DataEraseREF ==
  ASSUME Inv, EraseREF
  PROVE  Data'
<1>1. /\ pc = "eraseREF" /\ re = "ok"
      /\ UNCHANGED <<want, disk, erl, bmf, ref, osbn, org, idx>>
      /\ Touches({ref})
      /\ \/ pc' = "copyOut"
         \/ pc' = "hbTake" /\ hb'.sbn = ref /\ hb'.ret = "eraseREF"
  BY FlashTouches DEF Inv, DataInv, Calm, Types, EraseREF, Call, ram, tables
<1>2. /\ At = "eraseREF" /\ ~Down /\ At' \in {"eraseREF", "copyOut"} /\ ~Down'
  BY <1>1 DEF At, Down, HbPcs
<1>3. Located'
  BY <1>1, <1>2 DEF Inv, DataInv, Located, Before, UserStage, Between, Replacing, Trans
<1>4. Called'
  BY <1>1 DEF Called, Replacing, HbPcs
<1>5. Copied(erl) = {} /\ Types /\ Content
  BY <1>1, <1>2 DEF Inv, DataInv, Content, Between
<1>6. \A s \in want : HomeOnDisk(s) \notin {ref}
  BY <1>1, Home, HomesDiffer DEF Inv, DataInv, Types, LocalType
<1>7. Content'
  BY <1>1, <1>2, <1>5, <1>6, WholeKept DEF Between
<1>8. QED BY <1>3, <1>4, <1>7 DEF Data

LEMMA DataCopyOut ==
  ASSUME Careful, Inv, CopyOut
  PROVE  Data'
<1>1. /\ pc = "copyOut" /\ UNCHANGED <<want, disk, bmf, ref, osbn, org, idx>>
      /\ Touches({ref})
      /\ \/ /\ data' = [data EXCEPT ![ref] = data[org]]
            /\ erl' = [erl EXCEPT !.slot[idx].info = "copied"]
            /\ pc' = "storeCopied"
         \/ erl' = DropERL(erl, idx) /\ pc' = "storeDone"
  BY FlashTouches, NeverHere DEF Inv, DataInv, Types, CopyOut, CopiesTo
<1>2. /\ At = "copyOut" /\ ~Down /\ At' = pc' /\ ~Down' /\ pc' \notin HbPcs
  BY <1>1 DEF At, Down, HbPcs
<1>3. Copied(erl) = {} /\ Whole /\ Types /\ Content
  BY <1>1, <1>2 DEF Inv, DataInv, Content, Between
<1>4. \A s \in want : HomeOnDisk(s) \notin {ref}
  BY <1>1, Home, HomesDiffer DEF Inv, DataInv, Types, LocalType
<1>5. idx \in Slot /\ erl.slot[idx].sbn = osbn /\ org = Trans(osbn)
  BY <1>1, <1>2 DEF Inv, DataInv, Located, Before, Replacing
<1>6. Called'
  BY <1>1, <1>2 DEF Called, Replacing
<1>7. erl \in ERLs /\ osbn # NoSbn /\ osbn \in User /\ ref \in Blk
  BY BlockAssumption, BlockTypes DEF Inv, Types, RamType, LocalType, Blk
<1>8. CASE /\ data' = [data EXCEPT ![ref] = data[org]]
           /\ erl' = [erl EXCEPT !.slot[idx].info = "copied"]
           /\ pc' = "storeCopied"
  <2>1. Copied(erl') = {idx} /\ erl'.slot[idx].sbn = osbn
    BY <1>3, <1>5, <1>7, <1>8, CopiedNote
  <2>2. Located'
    BY <1>1, <1>2, <1>5, <1>8, <2>1 DEF Located, UserStage, Trans
  <2>3. Safe({})'
    BY <1>1, <1>3, <1>4, SafeKept DEF Whole, HomeOnDisk
  <2>4. osbn \in want => data[org] = osbn
    BY <1>1, <1>3, <1>5, Home DEF Inv, DataInv, Whole, Safe
  <2>5. data'[ref] = data[org]
    BY <1>7, <1>8 DEF Types, FlashType, Inv
  <2>6. Whole'
    BY <1>1, <1>3, <2>3 DEF Whole
  <2>7. Content'
    BY <1>1, <1>2, <1>8, <2>1, <2>4, <2>5, <2>6 DEF Content, Between
  <2>8. QED BY <1>6, <2>2, <2>7 DEF Data
<1>9. CASE erl' = DropERL(erl, idx) /\ pc' = "storeDone"
  <2>1. Resting' /\ At' = "storeDone"
    BY <1>2, <1>9 DEF Resting, HbPcs, Before, Between, UserStage
  <2>2. Copied(erl') = {}
    BY <1>3, <1>7, <1>9, CopiedDrop
  <2>3. Content'
    BY <1>1, <1>2, <1>3, <1>4, <1>9, <2>1, <2>2, WholeKept DEF Between
  <2>4. QED BY <2>1, <2>3, RestingThen DEF Data
<1>10. QED BY <1>1, <1>8, <1>9

LEMMA DataStoreCopied ==
  ASSUME Inv, StoreCopied
  PROVE  Data'
<1>1. /\ pc = "storeCopied" /\ pc' = "eraseOrg" /\ StoreTables
      /\ UNCHANGED <<data, want, erl, bmf, ref, osbn, org, idx>>
  BY DEF StoreCopied, tables, loop
<1>2. At = "storeCopied" /\ ~Down /\ At' = "eraseOrg" /\ ~Down' /\ pc' \notin HbPcs
  BY <1>1 DEF At, Down, HbPcs
<1>3. disk'.erl = erl /\ disk'.bmf = bmf /\ disk'.ref = ref
  BY <1>1 DEF StoreTables
<1>4. idx \in Slot /\ erl.slot[idx].sbn = osbn /\ org = Trans(osbn)
  BY <1>1, <1>2 DEF Inv, DataInv, Located, Before, Replacing
<1>5. Copied(erl) = {idx} /\ Safe({}) /\ (osbn \in want => data[ref] = osbn)
  BY <1>1, <1>2 DEF Inv, DataInv, Content, Whole, Between
<1>6. Located'
  BY <1>1, <1>2, <1>4 DEF Located, UserStage, Trans
<1>7. Called'
  BY <1>1, <1>2 DEF Called, Replacing
<1>8. \A s : HomeOnDisk(s)' = HomeOnDisk(s)
  BY <1>1, <1>3, Home DEF Inv, DataInv, HomeOnDisk, Trans
<1>9. Safe({osbn})'
  BY <1>1, <1>5, <1>8 DEF Safe
<1>10. Standing(idx, osbn)'
  BY <1>1, <1>3, <1>4, <1>5, <1>9 DEF Standing
<1>11. Content'
  BY <1>1, <1>2, <1>3, <1>5, <1>10 DEF Content, Between
<1>12. QED BY <1>6, <1>7, <1>11 DEF Data

LEMMA DataEraseOrg ==
  ASSUME Inv, EraseOrg
  PROVE  Data'
<1>1. /\ pc = "eraseOrg" /\ UNCHANGED <<want, disk, erl, bmf, ref, osbn, org, idx>>
      /\ Touches({org})
      /\ \/ pc' = "copyBack"
         \/ pc' = "hbTake" /\ hb'.sbn = osbn /\ hb'.ret = "eraseOrg"
  <2>1. Touches({org})
    BY FlashTouches DEF Inv, Types, EraseOrg
  <2>2. QED BY <2>1 DEF EraseOrg, Call, ram, tables, loop
<1>2. /\ At = "eraseOrg" /\ At' \in {"eraseOrg", "copyBack"} /\ ~Down'
      /\ pc' \notin {"storeCopied", "remove"}
  BY <1>1 DEF At, Down, HbPcs
<1>3. Located'
  BY <1>1, <1>2 DEF Inv, DataInv, Located, Before, UserStage, Between, Replacing, Trans
<1>4. Called'
  BY <1>1 DEF Called, Replacing, HbPcs
<1>5. Standing(idx, osbn) /\ Copied(erl) = {idx} /\ disk.ref = ref
  BY <1>2 DEF Inv, DataInv, Content, Between
<1>6. org = Trans(osbn) /\ osbn \in User /\ want \subseteq User
  BY <1>1, <1>2 DEF Inv, DataInv, Located, Between, Replacing, Types, LocalType
<1>7. disk.ref \notin {org}
  BY <1>5, <1>6, HomesDiffer DEF Inv
<1>8. \A t \in want \ {osbn} : HomeOnDisk(t) \notin {org}
  BY <1>1, <1>6, Home, HomesDiffer DEF Inv, DataInv
<1>9. Standing(idx, osbn)'
  BY <1>1, <1>5, <1>7, <1>8, StandingKept DEF Inv
<1>10. Content'
  BY <1>1, <1>2, <1>5, <1>9 DEF Content, Between
<1>11. QED BY <1>3, <1>4, <1>10 DEF Data

LEMMA DataCopyBack ==
  ASSUME Careful, Inv, CopyBack
  PROVE  Data'
<1>1. /\ pc = "copyBack" /\ pc' = "remove" /\ data' = [data EXCEPT ![org] = data[ref]]
      /\ UNCHANGED <<want, disk, erl, bmf, ref, osbn, org, idx>>
      /\ Touches({org})
  BY FlashTouches, NeverHere DEF Inv, DataInv, Types, CopyBack, CopiesTo, ram, tables, loop
<1>2. At = "copyBack" /\ At' = "remove" /\ ~Down' /\ pc' \notin HbPcs
  BY <1>1 DEF At, Down, HbPcs
<1>3. Located'
  BY <1>1, <1>2 DEF Inv, DataInv, Located, Before, UserStage, Between, Replacing, Trans
<1>4. Called'
  BY <1>1 DEF Called, Replacing, HbPcs
<1>5. Standing(idx, osbn) /\ Copied(erl) = {idx} /\ disk.ref = ref
  BY <1>2 DEF Inv, DataInv, Content, Between
<1>6. org = Trans(osbn) /\ osbn \in User /\ want \subseteq User /\ org \in Blk
  BY <1>1, <1>2 DEF Inv, DataInv, Located, Between, Replacing, Types, LocalType
<1>7. disk.ref \notin {org}
  BY <1>5, <1>6, HomesDiffer DEF Inv
<1>8. \A t \in want : HomeOnDisk(t) = Trans(t)
  BY <1>1, Home DEF Inv, DataInv
<1>9. \A t \in want \ {osbn} : HomeOnDisk(t) \notin {org}
  BY <1>6, <1>8, HomesDiffer DEF Inv
<1>10. Standing(idx, osbn)'
  BY <1>1, <1>5, <1>7, <1>9, StandingKept DEF Inv
<1>11. Safe({})'
  <2>1. data'[org] = data[ref]
    BY <1>1, <1>6 DEF Inv, Types, FlashType
  <2>2. ASSUME NEW t \in want PROVE data'[HomeOnDisk(t)'] = t
    <3>1. CASE t = osbn
      BY <1>1, <1>5, <1>6, <1>8, <2>1, <3>1 DEF Standing, HomeOnDisk
    <3>2. CASE t # osbn
      BY <1>1, <1>10, <3>2 DEF Standing, Safe
    <3>3. QED BY <3>1, <3>2
  <2>3. QED BY <1>1, <2>2 DEF Safe
<1>12. Content'
  BY <1>1, <1>2, <1>5, <1>10, <1>11 DEF Content, Between
<1>13. QED BY <1>3, <1>4, <1>12 DEF Data

LEMMA DataRemove ==
  ASSUME Inv, Remove
  PROVE  Data'
<1>1. /\ pc = "remove" /\ pc' \in {"eraseREFLast", "next"}
      /\ erl' = DropERL(erl, idx) /\ StoreTables
      /\ UNCHANGED <<data, want, bmf, rb, ref>>
  BY DEF Remove, AfterStore
<1>2. At = "remove" /\ ~Down' /\ Resting'
  BY <1>1 DEF At, Down, Resting, HbPcs, Before, Between, UserStage
<1>3. Copied(erl) = {idx} /\ Safe({})
  BY <1>1, <1>2 DEF Inv, DataInv, Content, Between
<1>4. Copied(erl') = {}
  BY <1>1, <1>3, CopiedDrop DEF Inv, Types, RamType
<1>5. \A s : HomeOnDisk(s)' = HomeOnDisk(s)
  <2>1. \A s : HomeOnDisk(s) = Trans(s)
    BY <1>1, Home DEF Inv, DataInv
  <2>2. QED BY <1>1, <2>1 DEF StoreTables, HomeOnDisk, Trans
<1>6. Whole'
  BY <1>1, <1>3, <1>4, <1>5 DEF StoreTables, Whole, Safe
<1>7. Content'
  BY <1>1, <1>2, <1>4, <1>6, RestingThen DEF Content
<1>8. QED BY <1>2, <1>7, RestingThen DEF Data

LEMMA DataEraseREFLast ==
  ASSUME Inv, EraseREFLast
  PROVE  Data'
<1>1. /\ pc = "eraseREFLast" /\ UNCHANGED <<want, disk, erl, bmf, ref>>
      /\ Touches({LastREF})
      /\ \/ pc' \in {"refresh", "failed", "run"}
         \/ pc' = "hbTake" /\ hb'.sbn = ref /\ hb'.ret = "eraseREFLast"
  <2>1. Touches({LastREF})
    BY FlashTouches DEF Inv, Types, EraseREFLast
  <2>2. QED BY <2>1 DEF EraseREFLast, Call, Return, Outcome, ram, tables
<1>2. At = "eraseREFLast" /\ ~Down /\ ~Down' /\ pc' \notin {"storeCopied", "remove"}
  BY <1>1 DEF At, Down, HbPcs
<1>3. At' \notin Before \cup Between \cup UserStage
  BY <1>1 DEF At, HbPcs, Before, Between, UserStage
<1>4. Located' /\ Called'
  BY <1>1, <1>3 DEF Located, Called, Replacing, HbPcs
<1>5. \A s \in want : HomeOnDisk(s) \notin {LastREF}
  BY <1>1, Home, HomesDiffer DEF Inv, DataInv, Types, LocalType, LastREF
<1>6. Copied(erl) = {} /\ Types /\ Content
  BY <1>1, <1>2 DEF Inv, DataInv, Content, Between
<1>7. Content'
  BY <1>1, <1>2, <1>3, <1>5, <1>6, WholeKept DEF Between
<1>8. QED BY <1>4, <1>7 DEF Data

\* Steps that touch neither the flash nor, as far as copies go, the list.
LEMMA DataQuiet ==
  ASSUME Inv,
         \/ EndLoop \/ RefreshOnOpen \/ RefreshAll \/ RefreshOne
         \/ \E s \in User : Disturb(s) \/ UserErase(s) \/ UserWrite(s)
  PROVE  Data'
<1>1. /\ pc \in {"next", "refresh", "run"}
      /\ UNCHANGED <<data, disk, bmf, ref>> /\ want' \subseteq want
  BY DEF EndLoop, RefreshOnOpen, RefreshAll, RefreshOne, Disturb, UserErase,
    UserWrite, ram, tables
<1>2. At = pc /\ ~Down /\ Resting
  BY <1>1 DEF At, Down, Resting, HbPcs, Before, Between, UserStage
<1>3. Copied(erl) = {} /\ Types /\ Content /\ erl \in ERLs
  BY <1>1, <1>2 DEF Inv, DataInv, Content, Between, Types, RamType
<1>4. Copied(erl') = {}
  BY <1>3, CopiedUpdate, CopiedDelete DEF EndLoop, RefreshOnOpen, RefreshAll,
    RefreshOne, Disturb, UserErase, UserWrite, ram, tables
<1>5. \/ pc' \in {"next", "eraseREFLast", "run", "failed"}
      \/ /\ pc' \in {"userErase", "userWrite"}
         /\ osbn' \notin want' /\ org' = Trans(osbn)'
  BY <1>1 DEF EndLoop, RefreshOnOpen, RefreshAll, RefreshOne, StartRefresh, Return,
    Outcome, Disturb, UserErase, UserWrite, Trans
<1>6. At' = pc' /\ ~Down' /\ pc' \notin HbPcs /\ pc' # "storeCopied"
  BY <1>5 DEF At, Down, HbPcs
<1>7. At' \notin Before \cup Between
  BY <1>5, <1>6 DEF Before, Between
<1>8. Located'
  BY <1>5, <1>6, <1>7 DEF Located, UserStage
<1>9. Called'
  BY <1>6 DEF Called, Replacing, HbPcs
<1>10. Touches({})
  BY <1>1 DEF Touches
<1>11. Content'
  BY <1>1, <1>2, <1>3, <1>4, <1>6, <1>7, <1>10, WholeKept, RestingKnows
<1>12. QED BY <1>8, <1>9, <1>11 DEF Data

LEMMA DataOpenVolume ==
  ASSUME Careful, Inv, OpenVolume
  PROVE  Data'
<1>1. /\ pc = "open" /\ UNCHANGED <<data, want, disk, ram>>
      /\ \/ /\ pc' = "eraseOrg"
            /\ \E i \in Copied(erl) :
                 idx' = i /\ osbn' = erl.slot[i].sbn /\ org' = Trans(erl.slot[i].sbn)
         \/ pc' = "refresh" /\ Copied(erl) = {}
  BY DEF OpenVolume, Careful
<1>2. /\ Down /\ UNCHANGED <<erl, bmf, ref>> /\ ~Down' /\ pc' \notin HbPcs
      /\ At' = pc' /\ pc' \notin {"storeCopied", "remove"}
  BY <1>1 DEF Down, ram, tables, At, HbPcs
<1>3. disk.erl = erl /\ disk.ref = ref
  BY <1>1 DEF Inv, DataInv, Synced
<1>4. Whole \/ \E i \in Slot, s \in User : Standing(i, s)
  BY <1>2 DEF Inv, DataInv, Content
<1>5. \A X : Safe(X)' <=> Safe(X)
  BY <1>1 DEF Safe, HomeOnDisk
<1>6. Called'
  BY <1>2 DEF Called, Replacing, HbPcs
<1>7. CASE /\ pc' = "eraseOrg"
           /\ \E i \in Copied(erl) :
                idx' = i /\ osbn' = erl.slot[i].sbn /\ org' = Trans(erl.slot[i].sbn)
  <2>1. PICK i \in Slot, s \in User : Standing(i, s)
    BY <1>3, <1>4, <1>7 DEF Whole
  <2>2. Copied(erl) = {i} /\ erl.slot[i].sbn = s
    BY <1>3, <2>1 DEF Standing
  <2>3. idx' = i /\ osbn' = s /\ org' = Trans(s)
    BY <1>7, <2>2
  <2>4. Standing(idx, osbn)'
    BY <1>1, <1>5, <2>1, <2>3 DEF Standing
  <2>5. Located'
    BY <1>2, <1>7, <2>2, <2>3 DEF Located, UserStage, Trans
  <2>6. Content'
    BY <1>1, <1>2, <1>3, <1>7, <2>2, <2>3, <2>4 DEF Content, Between
  <2>7. QED BY <1>6, <2>5, <2>6 DEF Data
<1>8. CASE pc' = "refresh" /\ Copied(erl) = {}
  <2>1. Whole
    BY <1>3, <1>4, <1>8 DEF Standing
  <2>2. Whole'
    BY <1>1, <1>5, <2>1 DEF Whole
  <2>3. Resting'
    BY <1>8 DEF Resting, HbPcs, Before, Between, UserStage
  <2>4. Content'
    BY <1>2, <1>8, <2>2, <2>3, RestingThen DEF Content
  <2>5. QED BY <2>3, <2>4, RestingThen DEF Data
<1>9. QED BY <1>1, <1>7, <1>8

\* The block the user erases or writes holds nothing that is wanted.
LEMMA DataUserCall ==
  ASSUME Careful, Inv, DoUserErase \/ UserReErase \/ DoUserWrite
  PROVE  Data'
<1>1. /\ pc \in {"userErase", "userReErase", "userWrite"}
      /\ UNCHANGED <<disk, erl, bmf, ref>> /\ Touches({org})
      /\ \/ UNCHANGED want
         \/ want' = want \cup {osbn} /\ data' = [data EXCEPT ![org] = osbn]
      /\ \/ pc' = "run"
         \/ pc' = "userErase" /\ UNCHANGED <<want, osbn, org>>
         \/ /\ pc' = "hbTake" /\ hb'.sbn = osbn /\ hb'.ret = "userReErase"
            /\ UNCHANGED <<want, osbn, org>>
  BY FlashTouches, NeverHere DEF Inv, DataInv, Types, DoUserErase, UserReErase,
    DoUserWrite, CopiesTo, Call, Return, ram, tables
<1>2. At = pc /\ ~Down /\ ~Down' /\ pc' \notin {"storeCopied", "remove"}
  BY <1>1 DEF At, Down, HbPcs
<1>3. At' \in {"run", "userErase", "userReErase"}
  BY <1>1 DEF At, HbPcs
<1>4. org = Trans(osbn) /\ osbn \notin want /\ osbn \in User /\ want \subseteq User
  BY <1>1, <1>2 DEF Inv, DataInv, Located, UserStage, Replacing, Types, LocalType
<1>5. Located'
  BY <1>1, <1>3, <1>4 DEF Located, Before, Between, UserStage, Trans, At, HbPcs
<1>6. Called'
  BY <1>1 DEF Called, Replacing, HbPcs
<1>7. Whole /\ Copied(erl) = {} /\ Types /\ Content
  BY <1>1, <1>2 DEF Inv, DataInv, Content, Between
<1>8. \A s : HomeOnDisk(s) = Trans(s)
  BY <1>1, Home DEF Inv, DataInv
<1>9. \A s \in want : HomeOnDisk(s) \notin {org}
  BY <1>4, <1>8, HomesDiffer DEF Inv
<1>10. CASE UNCHANGED want
  <2>1. Content'
    BY <1>1, <1>2, <1>3, <1>7, <1>9, <1>10, WholeKept DEF Between
  <2>2. QED BY <1>5, <1>6, <2>1 DEF Data
<1>11. CASE want' = want \cup {osbn} /\ data' = [data EXCEPT ![org] = osbn]
  <2>1. org \in Blk /\ data'[org] = osbn
    BY <1>4, <1>11, HomesDiffer DEF Inv, Types, FlashType
  <2>2. ASSUME NEW s \in want' PROVE data'[HomeOnDisk(s)'] = s
    <3>1. HomeOnDisk(s)' = HomeOnDisk(s)
      BY <1>1 DEF HomeOnDisk
    <3>2. CASE s = osbn
      BY <1>4, <1>8, <2>1, <3>1, <3>2
    <3>3. CASE s \in want
      <4>1. HomeOnDisk(s) \in Blk \ {org} /\ data[HomeOnDisk(s)] = s
        BY <1>4, <1>7, <1>9, <3>3, HomeType DEF Whole, Safe
      <4>2. QED BY <1>1, <3>1, <4>1 DEF Touches
    <3>4. QED BY <1>11, <3>2, <3>3
  <2>3. Safe({})'
    BY <2>2 DEF Safe
  <2>4. Whole'
    BY <1>1, <1>7, <2>3 DEF Whole
  <2>5. Content'
    BY <1>1, <1>2, <1>3, <1>7, <2>4 DEF Content, Between
  <2>6. QED BY <1>5, <1>6, <2>5 DEF Data
<1>12. QED BY <1>1, <1>10, <1>11

\* The power goes off in the middle of an erase or a program.
LEMMA BusyHarmless ==
  ASSUME Inv, NEW p \in Busy
  PROVE  /\ At \notin Between => \A s \in want : HomeOnDisk(s) \notin {p}
         /\ At \in Between => /\ disk.ref \notin {p}
                              /\ \A s \in want \ {osbn} : HomeOnDisk(s) \notin {p}
<1>1. want \subseteq User /\ osbn \in User /\ ref \notin User
  BY BlockAssumption DEF Inv, Types, LocalType, RamType
<1>2. pc \notin {"off", "hbStore"}
  BY DEF Busy
<1>3. \A s : HomeOnDisk(s) = Trans(s)
  BY <1>2, Home DEF Inv, DataInv
<1>4. At \in Between => disk.ref = ref
  BY DEF Inv, DataInv, Content
<1>5. CASE pc \in {"eraseREF", "copyOut", "eraseREFLast"}
  <2>1. p \in {ref, Trans(ref)} /\ At \notin Between
    BY <1>5 DEF Busy, LastREF, At, Between, HbPcs
  <2>2. QED BY <1>1, <1>3, <2>1, HomesDiffer DEF Inv
<1>6. CASE pc \in {"eraseOrg", "copyBack"}
  <2>1. p = org /\ At \in Between /\ org = Trans(osbn)
    BY <1>6 DEF Busy, At, Between, HbPcs, Inv, DataInv, Located, Replacing
  <2>2. QED BY <1>1, <1>3, <1>4, <2>1, HomesDiffer DEF Inv
<1>7. CASE pc \in {"userErase", "userReErase", "userWrite"}
  <2>1. p = org /\ At \notin Between /\ org = Trans(osbn) /\ osbn \notin want
    BY <1>7 DEF Busy, At, Between, HbPcs, Inv, DataInv, Located, Replacing, UserStage
  <2>2. QED BY <1>1, <1>3, <2>1, HomesDiffer DEF Inv
<1>8. CASE pc = "hbMark"
  <2>1. p = hb.bad /\ At = hb.ret
    BY <1>8 DEF Busy, At, HbPcs
  <2>2. /\ hb.sbn = IF hb.ret \in {"eraseREF", "eraseREFLast"} THEN ref ELSE osbn
        /\ \A s \in User : s # hb.sbn => Trans(s) # hb.bad
        /\ hb.sbn # ref => hb.bad # ref
    BY <1>8 DEF Inv, DataInv, Called, Replacing, HbPcs
  <2>3. hb.ret \in {"eraseREF", "eraseREFLast", "eraseOrg", "userReErase"}
    BY <1>8 DEF Inv, DataInv, Calm, HbPcs
  <2>4. hb.ret = "userReErase" => osbn \notin want
    BY <2>1 DEF Inv, DataInv, Located, UserStage
  <2>5. QED BY <1>1, <1>3, <1>4, <2>1, <2>2, <2>3, <2>4 DEF Between
<1>9. pc # "hbTake" \/ hb.why # "write"
  BY DEF Inv, DataInv, Calm, HbPcs
<1>10. pc \notin {"eraseREFAgain", "eraseNew"}
  BY DEF Inv, DataInv, Calm
<1>11. QED BY <1>5, <1>6, <1>7, <1>8, <1>9, <1>10 DEF Busy

LEMMA DataPower ==
  ASSUME Inv, PowerOff \/ Mount
  PROVE  Data'
<1>1. /\ pc' \in {"off", "open"} /\ UNCHANGED <<want, disk>>
      /\ \/ PowerOff /\ pc # "off"
         \/ pc = "off" /\ UNCHANGED data
  BY DEF PowerOff, Mount, Return
<1>2. Down' /\ Resting' /\ pc' \notin {"storeCopied", "remove"}
  BY <1>1 DEF Down, Resting, HbPcs, Before, Between, UserStage
<1>3. PICK P : /\ Touches(P)
               /\ Down => P = {}
               /\ ~Down /\ At \notin Between => \A s \in want : HomeOnDisk(s) \notin P
               /\ ~Down /\ At \in Between => /\ disk.ref \notin P
                                  /\ \A s \in want \ {osbn} : HomeOnDisk(s) \notin P
  <2>1. CASE UNCHANGED data
    <3>1. Touches({})
      BY <2>1 DEF Touches
    <3>2. QED BY <3>1
  <2>2. CASE PowerOff /\ data' # data
    <3>1. PICK p \in Busy : data' = [data EXCEPT ![p] = Junk]
      BY <2>2 DEF PowerOff
    <3>2. Touches({p})
      BY <3>1 DEF Touches, Inv, Types, FlashType
    <3>3. ~Down
      BY <3>1 DEF Busy, Down
    <3>4. QED BY <3>1, <3>2, <3>3, BusyHarmless
  <2>3. QED BY <1>1, <2>1, <2>2
<1>4. Whole' \/ \E i \in Slot, s \in User : Standing(i, s)'
  <2>1. Types /\ osbn \in User
    BY DEF Inv, Types, LocalType
  <2>2. ASSUME Whole, \A s \in want : HomeOnDisk(s) \notin P PROVE Whole'
    <3>1. Safe({})'
      BY <1>1, <1>3, <2>1, <2>2, SafeKept DEF Whole, HomeOnDisk
    <3>2. QED BY <1>1, <2>2, <3>1 DEF Whole
  <2>3. ASSUME NEW i, NEW s, Standing(i, s), disk.ref \notin P,
               \A t \in want \ {s} : HomeOnDisk(t) \notin P
        PROVE  Standing(i, s)'
    BY <1>1, <1>3, <2>1, <2>3, StandingKept
  <2>4. CASE Down
    BY <1>3, <2>2, <2>3, <2>4 DEF Inv, DataInv, Content
  <2>5. CASE ~Down /\ At \notin Between
    BY <1>3, <2>2, <2>5 DEF Inv, DataInv, Content
  <2>6. CASE ~Down /\ At \in Between
    <3>1. PICK i, s : i = idx /\ s = osbn OBVIOUS
    <3>2. Standing(i, s) /\ i \in Slot
      BY <2>6, <3>1 DEF Inv, DataInv, Content, Standing
    <3>3. Standing(i, s)'
      BY <1>3, <2>3, <2>6, <3>1, <3>2
    <3>4. QED BY <2>1, <3>1, <3>2, <3>3
  <2>7. QED BY <2>4, <2>5, <2>6
<1>5. Content'
  BY <1>2, <1>4, RestingThen DEF Content
<1>6. QED BY <1>2, <1>5, RestingThen DEF Data

LEMMA DataStep ==
  ASSUME Careful, Inv, [Next]_vars
  PROVE  Data'
<1>1. CASE UNCHANGED vars
  BY <1>1 DEF vars, ram, tables, loop, Inv, DataInv, Data, Located, Called, Content,
    At, Replacing, Trans, Down, Whole, Standing, Safe, HomeOnDisk
<1>2. ~HbNoRsv /\ ~EraseREFAgain /\ ~EraseNew
  BY NeverHere DEF Inv, DataInv
<1>3. QED BY <1>1, <1>2, DataHbTake, DataHbStore, DataHbMark, DataNextEntry,
           DataStoreAgain, DataEraseREF, DataCopyOut, DataStoreCopied, DataEraseOrg,
           DataCopyBack, DataRemove, DataEraseREFLast, DataQuiet, DataOpenVolume,
           DataUserCall, DataPower
        DEF Next, Step, Use

LEMMA DataInit == Careful /\ Init => DataInv
<1> SUFFICES ASSUME Careful, Init PROVE DataInv OBVIOUS
<1>1. Calm /\ Synced
  BY DEF Init, Calm, Synced, HbPcs
<1>2. Cardinality({REF0}) = 1
  BY FS_Singleton
<1>3. Counted
  BY <1>2, CountAssumption DEF Init, Counted, Owed
<1>4. Resting /\ pc = "run"
  BY DEF Init, Resting, HbPcs, Before, Between, UserStage
<1>5. Copied(EmptyERL) = {}
  BY SlotCell DEF EmptyERL, Copied, Used, Hole, Item
<1>6. \A s \in User : HomeOnDisk(s) = s /\ data[s] = s
  BY BlockTypes DEF Init, HomeOnDisk
<1>7. Whole
  BY <1>5, <1>6 DEF Init, Whole, Safe
<1>8. Content
  BY <1>4, <1>5, <1>7, RestingKnows DEF Init, Content, Down
<1>9. QED BY <1>1, <1>3, <1>4, <1>8, RestingKnows DEF DataInv

LEMMA DataAlways == ASSUME Careful PROVE Spec => []Inv
<1>1. Init => Inv
  BY TypeInit, FamilyInit, DataInit DEF Inv
<1>2. Inv /\ [Next]_vars => Inv'
  <2> SUFFICES ASSUME Inv, [Next]_vars PROVE Inv' OBVIOUS
  <2>1. Types' /\ FamilyInv'
    BY TypeStep, FamilyHbTake, FamilyHbMark, FamilyMount, FamilyOtherSteps DEF Inv
  <2>2. Calm' /\ Counted' /\ Synced'
    BY CalmStep, CountedStep, SyncedStep DEF Inv, DataInv
  <2>3. QED BY <2>1, <2>2, DataStep DEF Inv, DataInv, Data
<1>3. QED BY <1>1, <1>2, PTL DEF Spec

\* Whenever the power goes off, the tables on flash lead to the data of every
\* block the user has not erased: in its own place or, when the list on flash
\* says so, in the REF block.
THEOREM RefreshLosesNothing == ASSUME Careful PROVE Spec => []DataSafe
<1>1. Inv => DataSafe
  <2> SUFFICES ASSUME Inv PROVE DataSafe OBVIOUS
  <2>1. Whole \/ \E i \in Slot, s \in User : Standing(i, s)
    BY DEF Inv, DataInv, Content, Types, LocalType, Standing
  <2>2. CASE Whole
    BY <2>2 DEF Whole, Safe, DataSafe
  <2>3. ASSUME NEW i \in Slot, NEW s \in User, Standing(i, s) PROVE DataSafe
    BY <2>3, FirstOfOne DEF Standing, Safe, DataSafe
  <2>4. QED BY <2>1, <2>2, <2>3
<1>2. QED BY <1>1, DataAlways, PTL

\* When the volume is in use, every block reads back what the user wrote.
THEOREM ReadsBack == ASSUME Careful PROVE Spec => []AtRestReadable
<1>1. Inv => AtRestReadable
  <2> SUFFICES ASSUME Inv, pc = "run" PROVE \A s \in want : data[Trans(s)] = s
    BY DEF AtRestReadable
  <2>1. Safe({})
    BY DEF Inv, DataInv, Content, Whole, Down, At, HbPcs, Between
  <2>2. QED BY <2>1, Home DEF Inv, DataInv, Safe
<1>2. QED BY <1>1, DataAlways, PTL
-----------------------------------------------------------------------------
(***************************************************************************)
(* The list and its count agree, for every number of blocks, list of any   *)
(* length and any number of disturbed reads, failing erases, empty         *)
(* reservoirs and power losses, as long as nothing is written behind       *)
(* the last cell of the array.  That last condition cannot be dropped (the *)
(* list creeps); it holds for as many disturbed reads as the array has     *)
(* cells, whatever calls, failures and power losses come between them.     *)
(***************************************************************************)
\* The hypothesis.  A program error in the copy back makes the entry leave the
\* list twice, and the code's count has 16 bits (BML_MAX_ERL_ITEM is 127).
ProgramsHold == MaxProgFail = 0 /\ MaxItem < 65536

(***************************************************************************)
(* The invariant.                                                          *)
(***************************************************************************)
\* A slot out of use is empty altogether, no block is listed twice, and the
\* count is the number of slots in use.
Clean(e) == \A i \in Slot : e.slot[i].sbn = NoSbn => e.slot[i] = Hole
Single(e) == \A i, j \in Slot :
  i # j /\ e.slot[i].sbn # NoSbn => e.slot[i].sbn # e.slot[j].sbn
Good(e) == Clean(e) /\ Single(e) /\ CountMatches(e)

\* The steps of a refresh in which the entry still has to leave the list.
Handling == {"eraseREF", "copyOut", "storeCopied", "eraseOrg", "copyBack", "remove"}

\* No program fails, and no call is for one.
Quiet ==
  /\ pfails = 0 /\ pc \notin {"eraseNew", "eraseREFAgain"}
  /\ pc \in HbPcs =>
       hb.why = "erase" /\ hb.ret \in {"eraseREF", "eraseREFLast", "eraseOrg", "userReErase"}

\* While a block is refreshed its entry stays where the locals say it is.
Pointed == At \in Handling => idx \in Slot /\ erl.slot[idx].sbn = osbn

ListInv == Quiet /\ Pointed /\ Good(erl) /\ Good(disk.erl)
-----------------------------------------------------------------------------
(***************************************************************************)
(* Sets of slots have a least and a greatest element.                      *)
(***************************************************************************)
LEMMA SlotIs == Slot \subseteq Cell /\ Slot \subseteq Nat /\ MaxItem \in Cell
                /\ MaxItem \notin Slot /\ Cell = Slot \cup {MaxItem}
BY MaxItemAssumption DEF Slot, Cell

Below == OpToRel(<, Nat)

LEMMA Least ==
  ASSUME NEW S \in SUBSET Nat, S # {}
  PROVE  \E x \in S : \A y \in S : x <= y
<1>1. IsWellFoundedOn(Below, Nat)
  BY NatLessThanWellFounded DEF Below
<1>2. PICK x \in S : \A y \in S : ~(<<y, x>> \in Below)
  BY <1>1, WFMin
<1>3. ASSUME NEW y \in S, y < x PROVE <<y, x>> \in Below
  BY <1>3 DEF OpToRel, Below
<1>4. ASSUME NEW y \in S PROVE x <= y
  <2>1. ~(y < x)
    BY <1>2, <1>3
  <2>2. QED BY <2>1
<1>5. QED BY <1>4

LEMMA MinOfSlots ==
  ASSUME NEW S \in SUBSET Slot, S # {}
  PROVE  Min(S) \in S
<1>1. \E x \in S : \A y \in S : x <= y
  BY SlotIs, Least
<1>2. QED BY <1>1 DEF Min

LEMMA MaxOfSlots ==
  ASSUME NEW S \in SUBSET Slot, S # {}
  PROVE  Max(S) \in S /\ \A y \in S : y <= Max(S)
<1> DEFINE R == {MaxItem - x : x \in S}
<1>1. R \in SUBSET Nat /\ R # {}
  <2>1. ASSUME NEW x \in S PROVE MaxItem - x \in Nat
    BY MaxItemAssumption DEF Slot
  <2>2. QED BY <2>1
<1>2. PICK z \in R : \A y \in R : z <= y
  BY <1>1, Least
<1>3. PICK x \in S : z = MaxItem - x
  OBVIOUS
<1>4. ASSUME NEW y \in S PROVE x >= y
  <2>1. MaxItem - y \in R
    OBVIOUS
  <2>2. z <= MaxItem - y
    BY <1>2, <2>1
  <2>3. x \in Nat /\ y \in Nat /\ MaxItem \in Nat
    BY SlotIs, MaxItemAssumption
  <2>4. QED BY <1>3, <2>2, <2>3
<1>5. Max(S) \in S /\ \A y \in S : Max(S) >= y
  BY <1>4 DEF Max
<1>6. ASSUME NEW y \in S PROVE y <= Max(S)
  BY <1>5, SlotIs
<1>7. QED BY <1>5, <1>6
-----------------------------------------------------------------------------
(***************************************************************************)
(* Counting the entries.                                                   *)
(***************************************************************************)
LEMMA UsedCount ==
  ASSUME NEW e
  PROVE  /\ Used(e) \subseteq Slot /\ IsFiniteSet(Used(e))
         /\ Cardinality(Used(e)) \in Nat /\ Cardinality(Used(e)) <= MaxItem
<1>1. IsFiniteSet(Slot) /\ Cardinality(Slot) = MaxItem
  BY FS_Interval, MaxItemAssumption DEF Slot
<1>2. Used(e) \in SUBSET Slot
  BY DEF Used
<1>3. QED BY <1>1, <1>2, FS_Subset, FS_CardinalityType

\* A list whose entries all lie below slot n has at most n of them.
LEMMA UsedBelow ==
  ASSUME NEW e, NEW n \in Nat, Used(e) \subseteq 0 .. (n - 1)
  PROVE  Cardinality(Used(e)) <= n
<1>1. IsFiniteSet(0 .. (n - 1)) /\ Cardinality(0 .. (n - 1)) = n
  BY FS_Interval
<1>2. QED BY <1>1, FS_Subset

\* The slot the list grows at is behind every entry.
LEMMA LastIs ==
  ASSUME NEW e \in ERLs, CountMatches(e)
  PROVE  /\ LastERL(e) \in Cell
         /\ \A i \in Used(e) : i < LastERL(e)
         /\ LastERL(e) # 0 => LastERL(e) - 1 \in Used(e)
<1> DEFINE U == {i \in Used(e) : i >= e.cnt - 1}
<1>1. CASE e.cnt = 0
  <2>1. Used(e) = {}
    BY <1>1, UsedCount, FS_EmptySet DEF CountMatches
  <2>2. QED BY <1>1, <2>1, MaxItemAssumption DEF LastERL, Cell
<1>2. CASE e.cnt # 0
  <2>1. e.cnt \in Nat /\ e.cnt - 1 \in Nat
    BY <1>2, ListParts
  <2>2. U # {}
    <3> SUFFICES ASSUME U = {} PROVE FALSE OBVIOUS
    <3>1. Used(e) \subseteq 0 .. ((e.cnt - 1) - 1)
      <4>1. ASSUME NEW i \in Used(e) PROVE i \in 0 .. ((e.cnt - 1) - 1)
        <5>1. i \in Nat /\ ~(i >= e.cnt - 1)
          BY UsedCount, SlotIs
        <5>2. QED BY <2>1, <5>1
      <4>2. QED BY <4>1
    <3>2. Cardinality(Used(e)) <= e.cnt - 1
      BY <2>1, <3>1, UsedBelow
    <3>3. QED BY <2>1, <3>2 DEF CountMatches
  <2>3. U \in SUBSET Slot
    BY UsedCount
  <2>4. Max(U) \in U /\ \A y \in U : y <= Max(U)
    BY <2>2, <2>3, MaxOfSlots
  <2>5. LastERL(e) = Max(U) + 1
    BY <1>2, <2>2 DEF LastERL
  <2> DEFINE m == Max(U)
  <2>6. m \in Slot /\ m \in Used(e) /\ m >= e.cnt - 1
    BY <2>3, <2>4
  <2>7. ASSUME NEW i \in Used(e) PROVE i <= m
    <3>1. CASE i >= e.cnt - 1
      BY <2>4, <3>1
    <3>2. CASE ~(i >= e.cnt - 1)
      <4> HIDE DEF m, U
      <4>1. i \in Nat /\ m \in Nat
        BY <2>6, UsedCount, SlotIs
      <4>2. QED BY <2>1, <2>6, <3>2, <4>1
    <3>3. QED BY <3>1, <3>2
  <2> HIDE DEF m, U
  <2>8. m + 1 \in Cell /\ m \in Nat /\ (m + 1) - 1 = m
    BY <2>6, MaxItemAssumption DEF Slot, Cell
  <2>9. ASSUME NEW i \in Used(e) PROVE i < m + 1
    <3>1. i \in Nat /\ i <= m
      BY <2>7, UsedCount, SlotIs
    <3>2. QED BY <2>8, <3>1
  <2>10. QED BY <2>5, <2>6, <2>8, <2>9 DEF m
<1>3. QED BY <1>1, <1>2
-----------------------------------------------------------------------------
(***************************************************************************)
(* Each operation of the list keeps it good.                               *)
(***************************************************************************)
LEMMA GoodEmpty == Good(EmptyERL) /\ Used(EmptyERL) = {}
<1>1. ASSUME NEW i \in Slot PROVE EmptyERL.slot[i] = Hole
  BY SlotIs DEF EmptyERL
<1>2. EmptyERL.cnt = 0 /\ Hole.sbn = NoSbn
  BY DEF EmptyERL, Hole, Item
<1>3. Used(EmptyERL) = {}
  BY <1>1, <1>2 DEF Used
<1>4. QED BY <1>1, <1>2, <1>3, FS_EmptySet DEF Good, Clean, Single, CountMatches

LEMMA DropIs ==
  ASSUME NEW e \in ERLs, NEW i
  PROVE  /\ \A j \in Cell : DropERL(e, i).slot[j] = IF j = i THEN Hole ELSE e.slot[j]
         /\ Used(DropERL(e, i)) = Used(e) \ {i}
<1> DEFINE d == DropERL(e, i)
<1>1. ASSUME NEW j \in Cell
      PROVE  d.slot[j] = IF j = i THEN Hole ELSE e.slot[j]
  BY ListParts DEF DropERL
<1> HIDE DEF d
<1>2. Hole.sbn = NoSbn
  BY DEF Hole, Item
<1>3. Used(d) = Used(e) \ {i}
  BY <1>1, <1>2, SlotIs DEF Used
<1>4. QED BY <1>1, <1>3 DEF d

LEMMA GoodDrop ==
  ASSUME ProgramsHold, NEW e \in ERLs, Good(e), NEW i \in Used(e)
  PROVE  Good(DropERL(e, i))
<1> DEFINE d == DropERL(e, i)
<1>1. \A j \in Slot : d.slot[j] = IF j = i THEN Hole ELSE e.slot[j]
  BY DropIs, SlotIs
<1>2. Hole.sbn = NoSbn
  BY DEF Hole, Item
<1>3. d.cnt = Cardinality(Used(d))
  <2>1. Used(d) = Used(e) \ {i}
    BY DropIs
  <2>2. Cardinality(Used(d)) = Cardinality(Used(e)) - 1
    BY <2>1, UsedCount, FS_RemoveElement
  <2>3. Cardinality(Used(d)) \in Nat
    BY UsedCount
  <2>4. e.cnt \in Nat /\ e.cnt <= MaxItem /\ e.cnt - 1 = Cardinality(Used(d))
    BY <2>2, UsedCount DEF Good, CountMatches
  <2>5. d.cnt = (e.cnt - 1) % 65536
    BY DEF DropERL
  <2>6. e.cnt - 1 \in Nat /\ e.cnt - 1 < 65536
    BY <2>3, <2>4, MaxItemAssumption DEF ProgramsHold
  <2> HIDE DEF d
  <2>7. (e.cnt - 1) % 65536 = e.cnt - 1
    BY <2>6
  <2>8. QED BY <2>4, <2>5, <2>7
<1> HIDE DEF d
<1>4. Clean(d)
  BY <1>1 DEF Good, Clean
<1>5. Single(d)
  BY <1>1, <1>2 DEF Good, Single
<1>6. QED BY <1>3, <1>4, <1>5 DEF Good, CountMatches, d

LEMMA GoodUpdate ==
  ASSUME NEW e \in ERLs, Good(e), NEW s \in User,
         UpdateERL(e, s).slot[MaxItem] = Hole
  PROVE  Good(UpdateERL(e, s))
<1>1. CASE ~Adds(e, s)
  BY <1>1 DEF UpdateERL
<1>2. CASE Adds(e, s)
  <2> DEFINE d == UpdateERL(e, s)
             l == LastERL(e)
  <2>0. /\ l \in Cell /\ \A i \in Used(e) : i < l
    BY LastIs DEF Good
  <2>1. /\ \A j \in Cell : d.slot[j] = IF j = l THEN Item(s, "updated") ELSE e.slot[j]
        /\ d.cnt = e.cnt + 1
    BY <1>2, ListParts DEF UpdateERL
  <2>2. s # NoSbn /\ Item(s, "updated").sbn = s /\ Hole.sbn = NoSbn
    BY BlockTypes DEF Item, Hole
  <2>3. d.slot[MaxItem] = Hole
    OBVIOUS
  <2>4. ASSUME NEW j \in Used(e) PROVE e.slot[j].sbn # s
    <3>1. j \in 0 .. l
      BY <2>0, UsedCount, SlotIs DEF Cell
    <3>2. QED BY <1>2, <3>1 DEF Adds, Listed
  <2> HIDE DEF d, l
  <2>5. l \in Slot
    BY <2>0, <2>1, <2>2, <2>3, SlotIs
  <2>6. l \notin Used(e)
    BY <2>0, <2>5, SlotIs
  <2>7. Used(d) = Used(e) \cup {l}
    BY <2>1, <2>2, <2>5, SlotIs DEF Used
  <2>8. CountMatches(d)
    <3>1. Cardinality(Used(d)) = Cardinality(Used(e)) + 1
      BY <2>6, <2>7, UsedCount, FS_AddElement
    <3>2. QED BY <2>1, <3>1 DEF Good, CountMatches
  <2>9. Clean(d)
    BY <2>1, <2>2, SlotIs DEF Good, Clean
  <2>10. Single(d)
    <3> SUFFICES ASSUME NEW i \in Slot, NEW j \in Slot, i # j, d.slot[i].sbn # NoSbn
                 PROVE  d.slot[i].sbn # d.slot[j].sbn
      BY DEF Single
    <3>1. ASSUME NEW k \in Slot, k # l
          PROVE  d.slot[k] = e.slot[k] /\ e.slot[k].sbn # s
      <4>1. d.slot[k] = e.slot[k]
        BY <2>1, <3>1, SlotIs
      <4>2. QED BY <2>2, <2>4, <4>1 DEF Used
    <3>2. d.slot[l].sbn = s
      BY <2>1, <2>2, <2>5, SlotIs
    <3>3. QED BY <3>1, <3>2 DEF Good, Single
  <2>11. QED BY <2>8, <2>9, <2>10 DEF Good, d
<1>3. QED BY <1>1, <1>2

LEMMA GoodNote ==
  ASSUME NEW e \in ERLs, Good(e), NEW i \in Used(e)
  PROVE  LET d == [e EXCEPT !.slot[i].info = "copied"]
         IN  Good(d) /\ Used(d) = Used(e) /\ d.slot[MaxItem] = e.slot[MaxItem]
             /\ \A j \in Slot : d.slot[j].sbn = e.slot[j].sbn
<1> DEFINE d == [e EXCEPT !.slot[i].info = "copied"]
<1>1. /\ \A j \in Cell : j # i => d.slot[j] = e.slot[j]
      /\ \A j \in Cell : d.slot[j].sbn = e.slot[j].sbn
      /\ d.cnt = e.cnt
  BY UsedCount, SlotIs DEF ERLs
<1> HIDE DEF d
<1>2. i \in Slot /\ e.slot[i].sbn # NoSbn
  BY DEF Used
<1>3. Used(d) = Used(e)
  BY <1>1, SlotIs DEF Used
<1>4. Clean(d)
  BY <1>1, <1>2, SlotIs DEF Good, Clean
<1>5. Single(d)
  BY <1>1, SlotIs DEF Good, Single
<1>6. CountMatches(d)
  BY <1>1, <1>3 DEF Good, CountMatches
<1>7. MaxItem # i
  BY <1>2, SlotIs
<1>8. QED BY <1>1, <1>3, <1>4, <1>5, <1>6, <1>7, SlotIs DEF Good, d
-----------------------------------------------------------------------------
(***************************************************************************)
(* Packing moves the entries up, in order: the rank of an entry is never   *)
(* above its slot, and no two entries share one.                           *)
(***************************************************************************)
Ahead(e, i) == {j \in Used(e) : j < i}

LEMMA RankIs ==
  ASSUME NEW e, NEW i \in Used(e)
  PROVE  /\ Rank(e, i) = Cardinality(Ahead(e, i)) /\ IsFiniteSet(Ahead(e, i))
         /\ Rank(e, i) \in Slot /\ Rank(e, i) <= i
<1>1. i \in Slot /\ i \in Nat /\ i <= MaxItem - 1
  BY UsedCount, MaxItemAssumption DEF Slot
<1>2. Ahead(e, i) \in SUBSET (0 .. (i - 1))
  <2>1. ASSUME NEW k \in Ahead(e, i) PROVE k \in 0 .. (i - 1)
    <3>1. k \in Nat /\ k < i
      BY UsedCount, SlotIs DEF Ahead
    <3>2. QED BY <1>1, <3>1
  <2>2. QED BY <2>1
<1>3. IsFiniteSet(0 .. (i - 1)) /\ Cardinality(0 .. (i - 1)) = i
  <2>1. 0 \in Int /\ i - 1 \in Int /\ (IF 0 > i - 1 THEN 0 ELSE (i - 1) - 0 + 1) = i
    BY <1>1
  <2>2. QED BY <2>1, FS_Interval
<1>4. /\ IsFiniteSet(Ahead(e, i)) /\ Cardinality(Ahead(e, i)) \in Nat
      /\ Cardinality(Ahead(e, i)) <= i
  BY <1>2, <1>3, FS_Subset, FS_CardinalityType
<1>5. Rank(e, i) = Cardinality(Ahead(e, i))
  BY DEF Rank, Ahead
<1>6. QED BY <1>1, <1>4, <1>5, MaxItemAssumption DEF Slot

LEMMA RankGrows ==
  ASSUME NEW e, NEW i \in Used(e), NEW j \in Used(e), i < j
  PROVE  Rank(e, i) < Rank(e, j)
<1>1. i \in Nat /\ j \in Nat
  BY UsedCount, SlotIs
<1>2. i \notin Ahead(e, i)
  BY <1>1 DEF Ahead
<1>3. Ahead(e, i) \cup {i} \in SUBSET Ahead(e, j)
  <2>1. ASSUME NEW k \in Ahead(e, i) PROVE k \in Ahead(e, j)
    <3>1. k \in Used(e) /\ k \in Nat /\ k < i
      BY UsedCount, SlotIs DEF Ahead
    <3>2. QED BY <1>1, <3>1 DEF Ahead
  <2>2. QED BY <2>1 DEF Ahead
<1>4. Cardinality(Ahead(e, i) \cup {i}) = Cardinality(Ahead(e, i)) + 1
  BY <1>2, RankIs, FS_AddElement
<1>5. Cardinality(Ahead(e, i) \cup {i}) <= Cardinality(Ahead(e, j))
  BY <1>3, RankIs, FS_Subset
<1>6. Rank(e, i) \in Nat /\ Rank(e, j) \in Nat
  BY RankIs, SlotIs
<1>7. QED BY <1>4, <1>5, <1>6, RankIs

LEMMA RankInjective ==
  ASSUME NEW e, NEW i \in Used(e), NEW j \in Used(e), Rank(e, i) = Rank(e, j)
  PROVE  i = j
<1>1. i \in Nat /\ j \in Nat /\ Rank(e, i) \in Nat /\ Rank(e, j) \in Nat
  BY UsedCount, RankIs, SlotIs
<1>2. ~(i < j) /\ ~(j < i)
  BY <1>1, RankGrows
<1>3. QED BY <1>1, <1>2

Ranks(e) == {Rank(e, j) : j \in Used(e)}

LEMMA PackIs ==
  ASSUME NEW e
  PROVE  /\ PackERL(e).cnt = e.cnt
         /\ \A j \in Used(e) : PackERL(e).slot[Rank(e, j)] = e.slot[j]
         /\ \A i \in Cell : i \notin Ranks(e) =>
              PackERL(e).slot[i] = IF i \in Used(e) THEN Hole ELSE e.slot[i]
<1>1. \A i \in Cell : PackERL(e).slot[i] = Packed(e, i)
  BY DEF PackERL
<1>2. ASSUME NEW j \in Used(e)
      PROVE  PackERL(e).slot[Rank(e, j)] = e.slot[j]
  <2> DEFINE r == Rank(e, j)
             c == CHOOSE k \in Used(e) : Rank(e, k) = r
  <2>1. c \in Used(e) /\ Rank(e, c) = r
    OBVIOUS
  <2>2. Packed(e, r) = e.slot[c]
    BY DEF Packed
  <2> HIDE DEF c
  <2>3. c = j
    BY <2>1, RankInjective
  <2>4. r \in Cell
    BY RankIs, SlotIs
  <2>5. QED BY <1>1, <2>2, <2>3, <2>4
<1>3. ASSUME NEW i \in Cell, i \notin Ranks(e)
      PROVE  PackERL(e).slot[i] = IF i \in Used(e) THEN Hole ELSE e.slot[i]
  BY <1>1, <1>3 DEF Packed, Ranks
<1>4. PackERL(e).cnt = e.cnt
  BY DEF PackERL
<1>5. QED BY <1>2, <1>3, <1>4

LEMMA PackUsed ==
  ASSUME NEW e
  PROVE  Used(PackERL(e)) = Ranks(e)
         /\ Cardinality(Used(PackERL(e))) = Cardinality(Used(e))
<1> DEFINE p == PackERL(e)
<1>1. ASSUME NEW j \in Used(e)
      PROVE  Rank(e, j) \in Slot /\ p.slot[Rank(e, j)].sbn # NoSbn
  BY RankIs, PackIs DEF Used
<1>2. ASSUME NEW i \in Slot, i \notin Ranks(e) PROVE p.slot[i].sbn = NoSbn
  <2>1. p.slot[i] = IF i \in Used(e) THEN Hole ELSE e.slot[i]
    BY <1>2, PackIs, SlotIs
  <2>2. QED BY <2>1 DEF Used, Hole, Item
<1> HIDE DEF p
<1>3. Used(p) = Ranks(e)
  <2>1. ASSUME NEW i PROVE i \in Used(p) <=> i \in Ranks(e)
    BY <1>1, <1>2 DEF Used, Ranks
  <2>2. QED BY <2>1
<1>4. Cardinality(Ranks(e)) = Cardinality(Used(e))
  <2> DEFINE f == [j \in Used(e) |-> Rank(e, j)]
  <2>1. f \in [Used(e) -> Ranks(e)]
    BY DEF Ranks
  <2>2. \A a, b \in Used(e) : f[a] = f[b] => a = b
    BY RankInjective
  <2>3. \A r \in Ranks(e) : \E j \in Used(e) : f[j] = r
    BY DEF Ranks
  <2> HIDE DEF f
  <2>4. f \in Bijection(Used(e), Ranks(e))
    BY <2>1, <2>2, <2>3 DEF Bijection, Injection, Surjection, IsInjective
  <2>5. ExistsBijection(Used(e), Ranks(e))
    BY <2>4 DEF ExistsBijection
  <2>6. QED BY <2>5, UsedCount, FS_Bijection
<1>5. QED BY <1>3, <1>4 DEF p

LEMMA GoodPack ==
  ASSUME NEW e, Good(e)
  PROVE  Good(PackERL(e))
<1> DEFINE p == PackERL(e)
<1>1. Used(p) = Ranks(e) /\ Cardinality(Used(p)) = Cardinality(Used(e)) /\ p.cnt = e.cnt
  BY PackUsed, PackIs
<1>2. ASSUME NEW i \in Slot, i \notin Ranks(e) PROVE p.slot[i] = Hole
  <2>1. p.slot[i] = IF i \in Used(e) THEN Hole ELSE e.slot[i]
    BY <1>2, PackIs, SlotIs
  <2>2. i \notin Used(e) => e.slot[i] = Hole
    BY DEF Used, Good, Clean
  <2>3. QED BY <2>1, <2>2
<1>3. \A j \in Used(e) : p.slot[Rank(e, j)] = e.slot[j]
  BY PackIs
<1>4. Hole.sbn = NoSbn
  BY DEF Hole, Item
<1> HIDE DEF p
<1>5. Clean(p)
  <2> SUFFICES ASSUME NEW i \in Slot, p.slot[i].sbn = NoSbn PROVE p.slot[i] = Hole
    BY DEF Clean
  <2>1. i \notin Ranks(e)
    BY <1>1 DEF Used
  <2>2. QED BY <1>2, <2>1
<1>6. Single(p)
  <2> SUFFICES ASSUME NEW i \in Slot, NEW j \in Slot, i # j, p.slot[i].sbn # NoSbn
               PROVE  p.slot[i].sbn # p.slot[j].sbn
    BY DEF Single
  <2>1. i \in Ranks(e)
    BY <1>2, <1>4
  <2>2. PICK a \in Used(e) : i = Rank(e, a)
    BY <2>1 DEF Ranks
  <2>3. CASE j \notin Ranks(e)
    BY <1>2, <1>4, <2>3
  <2>4. CASE j \in Ranks(e)
    <3>1. PICK b \in Used(e) : j = Rank(e, b)
      BY <2>4 DEF Ranks
    <3>2. a # b /\ a \in Slot /\ b \in Slot /\ e.slot[a].sbn # NoSbn
      BY <2>2, <3>1 DEF Used
    <3>3. p.slot[i] = e.slot[a] /\ p.slot[j] = e.slot[b]
      BY <1>3, <2>2, <3>1
    <3>4. QED BY <3>2, <3>3 DEF Good, Single
  <2>5. QED BY <2>3, <2>4
<1>7. CountMatches(p)
  BY <1>1 DEF Good, CountMatches
<1>8. QED BY <1>5, <1>6, <1>7 DEF Good, p

LEMMA GoodDelete ==
  ASSUME ProgramsHold, NEW e \in ERLs, Good(e), NEW s, s # NoSbn
  PROVE  Good(DeleteERL(e, s))
<1> DEFINE F == {i \in Slot : i < e.cnt /\ e.slot[i].sbn = s}
           d == IF F = {} THEN e ELSE DropERL(e, Min(F))
<1>1. DeleteERL(e, s) = IF d.cnt = 0 THEN d ELSE PackERL(d)
  BY DEF DeleteERL
<1>2. Good(d)
  <2>1. CASE F = {}
    BY <2>1
  <2>2. CASE F # {}
    <3>1. Min(F) \in F
      BY <2>2, MinOfSlots
    <3>2. Min(F) \in Used(e)
      BY <3>1 DEF Used
    <3>3. QED BY <2>2, <3>2, GoodDrop
  <2>3. QED BY <2>1, <2>2
<1> HIDE DEF d
<1>3. QED BY <1>1, <1>2, GoodPack
-----------------------------------------------------------------------------
(***************************************************************************)
(* What a step does to the list.                                           *)
(***************************************************************************)
LEMMA NoProgramFails ==
  ASSUME ProgramsHold, Quiet
  PROVE  ~EraseREFAgain /\ ~EraseNew /\ \A p : ~ProgramFails(p)
BY DEF ProgramsHold, Quiet, EraseREFAgain, EraseNew, ProgramFails

LEMMA TakeIs ==
  ASSUME Types, Quiet, HbTake
  PROVE  /\ pc = "hbTake" /\ pc' = "hbStore"
         /\ UNCHANGED <<erl, disk, loop, bounds>>
         /\ hb'.ret = hb.ret /\ hb'.why = hb.why
<1>1. hb.why = "erase" /\ pc = "hbTake"
  BY DEF HbTake, Quiet, HbPcs
<1>2. /\ UNCHANGED <<bounds, erl>> /\ pc' = "hbStore"
      /\ hb' = [hb EXCEPT !.bad = Trans(hb.sbn)]
  BY <1>1 DEF HbTake
<1>3. UNCHANGED <<disk, loop>>
  BY DEF HbTake
<1>4. hb \in Calls
  BY DEF Types, LocalType
<1>5. QED BY <1>1, <1>2, <1>3, <1>4 DEF Calls

LEMMA QuietStep ==
  ASSUME ProgramsHold, Types, Quiet, [Next]_vars
  PROVE  Quiet'
<1> USE DEF HbPcs
<1>0. Outcome \in {"run", "failed"} /\ AfterStore \in {"eraseREFLast", "next"}
  BY DEF Outcome, AfterStore
<1>1. pfails' = pfails
  <2>1. ASSUME NEW p, ErasesBlk(p) \/ EraseFails(p) PROVE pfails' = pfails
    BY <2>1 DEF ErasesBlk, EraseFails, bounds
  <2>2. ASSUME NEW p, NEW d, CopiesTo(d, p) PROVE pfails' = pfails
    BY <2>2 DEF CopiesTo, bounds
  <2>3. CASE Use
    BY <2>3 DEF Use, Disturb, UserErase, UserWrite, ProgramERL, RefreshAll, RefreshOne, bounds
  <2>4. CASE HbTake \/ HbNoRsv \/ HbStore \/ HbMark \/ NextEntry \/ EndLoop \/ StoreCopied
             \/ Remove \/ StoreDone \/ OpenVolume \/ RefreshOnOpen \/ Mount
             \/ PowerOff \/ UNCHANGED vars
    BY <2>4, TakeIs DEF HbNoRsv, HbStore, HbMark, NextEntry, EndLoop, StoreCopied, Remove,
      StoreDone, OpenVolume, RefreshOnOpen, Mount, PowerOff, vars, bounds
  <2>5. CASE EraseREF \/ CopyOut \/ EraseOrg \/ CopyBack \/ EraseREFLast
             \/ DoUserErase \/ UserReErase \/ DoUserWrite
    BY <2>1, <2>2, <2>5, NoProgramFails DEF EraseREF, CopyOut, EraseOrg, CopyBack,
      EraseREFLast, DoUserErase, UserReErase, DoUserWrite
  <2>6. QED BY <2>3, <2>4, <2>5, NoProgramFails DEF Next, Step
<1>2. /\ pc' \notin {"eraseNew", "eraseREFAgain"}
      /\ pc' \in HbPcs =>
           hb'.why = "erase" /\ hb'.ret \in {"eraseREF", "eraseREFLast", "eraseOrg", "userReErase"}
  <2>1. ASSUME NEW w, NEW n, StartRefresh(w, n) PROVE pc' = "next"
    BY <2>1 DEF StartRefresh
  <2>2. ASSUME NEW p, Return(p) PROVE pc' = p
    BY <2>2 DEF Return
  <2>3. ASSUME NEW x, NEW r, Call(x, "erase", r)
        PROVE pc' = "hbTake" /\ hb'.why = "erase" /\ hb'.ret = r
    BY <2>3 DEF Call
  <2>4. CASE Use
    BY <2>1, <2>4 DEF Use, Disturb, UserErase, UserWrite, ProgramERL, RefreshAll,
      RefreshOne, Quiet
  <2>5. CASE HbTake \/ HbNoRsv \/ HbStore \/ HbMark
    BY <2>2, <2>5, TakeIs DEF HbNoRsv, HbStore, HbMark, Quiet
  <2>6. CASE NextEntry \/ EndLoop \/ StoreCopied
             \/ Remove \/ StoreDone \/ OpenVolume \/ RefreshOnOpen \/ Mount
             \/ PowerOff
    BY <1>0, <2>1, <2>2, <2>6 DEF NextEntry, EndLoop, StoreCopied, Remove,
      StoreDone, OpenVolume, RefreshOnOpen, Mount, PowerOff
  <2>7. CASE EraseREF \/ CopyOut \/ EraseOrg \/ CopyBack \/ EraseREFLast
             \/ DoUserErase \/ UserReErase \/ DoUserWrite
    BY <1>0, <2>2, <2>3, <2>7, NoProgramFails DEF EraseREF, CopyOut, EraseOrg, CopyBack,
      EraseREFLast, DoUserErase, UserReErase, DoUserWrite
  <2>8. CASE UNCHANGED vars
    BY <2>8 DEF vars, Quiet
  <2>9. QED BY <2>4, <2>5, <2>6, <2>7, <2>8, NoProgramFails DEF Next, Step
<1>3. QED BY <1>1, <1>2 DEF Quiet

\* The entry at hand is in use.
LEMMA PointedUsed ==
  ASSUME Types, Pointed, At \in Handling
  PROVE  idx \in Used(erl)
BY BlockTypes DEF Types, LocalType, Pointed, Used

LEMMA PointedStep ==
  ASSUME ProgramsHold, Types, Quiet, Pointed, [Next]_vars
  PROVE  Pointed'
<1> USE DEF HbPcs, Handling
<1>1. ASSUME At' \notin Handling PROVE Pointed'
  BY <1>1 DEF Pointed
<1>2. ASSUME At \in Handling, UNCHANGED <<erl, idx, osbn>> PROVE Pointed'
  BY <1>2 DEF Pointed
<1>3. ASSUME NEW p, p \notin Handling \cup HbPcs, Return(p) \/ pc' = p PROVE Pointed'
  BY <1>1, <1>3 DEF Return, At
<1>4. ASSUME NEW x, NEW r, r \notin Handling, Call(x, "erase", r) PROVE Pointed'
  BY <1>1, <1>4 DEF Call, At
<1>5. CASE HbTake \/ HbStore \/ HbMark
  <2>1. UNCHANGED <<erl, idx, osbn>>
    BY <1>5, TakeIs DEF HbStore, HbMark, loop, tables, ram
  <2>2. At' = At
    BY <1>5, TakeIs DEF HbStore, HbMark, At, Quiet
  <2>3. QED BY <1>1, <1>2, <2>1, <2>2
<1>6. CASE HbNoRsv \/ EndLoop
  BY <1>3, <1>6 DEF HbNoRsv, EndLoop, Outcome
<1>7. CASE NextEntry
  <2>1. PICK i \in Entries :
          \/ /\ idx' = i /\ osbn' = erl.slot[i].sbn /\ pc' = "eraseREF" /\ erl' = erl
          \/ pc' = pc
    BY <1>7 DEF NextEntry, ram, tables
  <2>2. CASE pc' = pc
    BY <1>3, <1>7, <2>2 DEF NextEntry
  <2>3. CASE idx' = i /\ osbn' = erl.slot[i].sbn /\ pc' = "eraseREF" /\ erl' = erl
    BY <2>3 DEF Pointed, Entries
  <2>4. QED BY <2>1, <2>2, <2>3
<1>8. CASE EraseREF
  <2>1. At \in Handling /\ UNCHANGED <<erl, osbn>>
    BY <1>8 DEF EraseREF, At, ram, tables
  <2>2. UNCHANGED idx \/ pc' = "next"
    BY <1>8 DEF EraseREF
  <2>3. QED BY <1>2, <1>3, <2>1, <2>2
<1>9. CASE CopyOut
  <2>1. /\ UNCHANGED <<idx, osbn>> /\ pc = "copyOut"
        /\ pc' = "storeDone" \/ erl' = [erl EXCEPT !.slot[idx].info = "copied"]
    BY <1>9, NoProgramFails DEF CopyOut
  <2>2. CASE pc' = "storeDone"
    BY <1>3, <2>2
  <2>3. CASE erl' = [erl EXCEPT !.slot[idx].info = "copied"]
    <3>1. idx \in Slot /\ erl.slot[idx].sbn = osbn
      BY <2>1 DEF Pointed, At
    <3>2. erl'.slot[idx].sbn = erl.slot[idx].sbn
      BY <2>3, <3>1, SlotIs DEF Types, RamType, ERLs
    <3>3. QED BY <2>1, <3>1, <3>2 DEF Pointed
  <2>4. QED BY <2>1, <2>2, <2>3
<1>10. CASE StoreCopied \/ EraseOrg \/ CopyBack
  <2>1. At \in Handling /\ UNCHANGED <<erl, idx, osbn>>
    BY <1>10 DEF StoreCopied, EraseOrg, CopyBack, At, ram, tables, loop
  <2>2. QED BY <1>2, <2>1
<1>11. CASE Remove \/ StoreDone \/ EraseREFLast
  <2>1. AfterStore \notin Handling \cup HbPcs /\ Outcome \notin Handling \cup HbPcs
    BY DEF AfterStore, Outcome
  <2>2. CASE Remove \/ StoreDone
    BY <1>3, <2>1, <2>2 DEF Remove, StoreDone
  <2>3. CASE EraseREFLast
    BY <1>3, <1>4, <2>1, <2>3 DEF EraseREFLast
  <2>4. QED BY <1>11, <2>2, <2>3
<1>12. CASE OpenVolume
  <2>1. \/ \E i \in Copied(erl) : idx' = i /\ osbn' = erl.slot[i].sbn
        \/ pc' \in {"refresh", "run"}
    BY <1>12 DEF OpenVolume
  <2>2. erl' = erl
    BY <1>12 DEF OpenVolume, ram, tables
  <2>3. ASSUME NEW i \in Copied(erl), idx' = i, osbn' = erl.slot[i].sbn PROVE Pointed'
    BY <2>2, <2>3 DEF Pointed, Copied, Used
  <2>4. QED BY <1>3, <2>1, <2>3
<1>13. CASE RefreshOnOpen \/ Mount \/ PowerOff
  BY <1>3, <1>13 DEF RefreshOnOpen, StartRefresh, Mount, PowerOff
<1>14. CASE Use
  <2>1. pc' \in {"run", "next", "userErase", "userWrite"}
    BY <1>14 DEF Use, Disturb, UserErase, UserWrite, ProgramERL, RefreshAll,
      RefreshOne, StartRefresh
  <2>2. QED BY <1>3, <2>1
<1>15. CASE DoUserErase \/ UserReErase \/ DoUserWrite
  BY <1>3, <1>4, <1>15, NoProgramFails DEF DoUserErase, UserReErase, DoUserWrite
<1>16. CASE UNCHANGED vars
  BY <1>16 DEF vars, ram, tables, loop, Pointed, At
<1>17. QED BY <1>5, <1>6, <1>7, <1>8, <1>9, <1>10, <1>11, <1>12, <1>13, <1>14,
              <1>15, <1>16, NoProgramFails DEF Next, Step

\* Every change of the list is one of its operations, on an entry that is in
\* use or on a user block; the list on flash is an earlier list in RAM.
Same == disturbs' = disturbs
Noted(e, i) == [e EXCEPT !.slot[i].info = "copied"]
Changed ==
  \/ Same /\ erl' \in {erl, disk.erl}
  \/ Same /\ \E i \in Used(erl) : erl' \in {DropERL(erl, i), Noted(erl, i)}
  \/ Same /\ \E s \in User : erl' = DeleteERL(erl, s)
  \/ /\ disturbs < MaxDisturb /\ disturbs' = disturbs + 1
     /\ \E s \in User : erl' = UpdateERL(erl, s)

LEMMA ListChanges ==
  ASSUME ProgramsHold, Types, Quiet, Pointed, Clean(erl), [Next]_vars
  PROVE  Changed /\ disk'.erl \in {disk.erl, erl'}
<1> USE DEF HbPcs, Handling
<1>1. ASSUME NEW p, ErasesBlk(p) \/ EraseFails(p) PROVE Same
  BY <1>1 DEF ErasesBlk, EraseFails, bounds, Same
<1>2. ASSUME NEW p, NEW d, CopiesTo(d, p) PROVE Same
  BY <1>2 DEF CopiesTo, bounds, Same
<1>3. ASSUME UNCHANGED <<erl, disk>>, Same PROVE Changed /\ disk'.erl \in {disk.erl, erl'}
  BY <1>3 DEF Changed
<1>4. ASSUME UNCHANGED <<tables, bounds>>, StoreTables
      PROVE Changed /\ disk'.erl \in {disk.erl, erl'}
  BY <1>4 DEF Changed, Same, tables, bounds, StoreTables
<1>5. CASE HbTake \/ HbNoRsv \/ HbMark \/ EndLoop \/ OpenVolume \/ RefreshOnOpen
           \/ PowerOff \/ UNCHANGED vars
  <2>1. UNCHANGED <<erl, disk>>
    BY <1>5, TakeIs DEF HbNoRsv, HbMark, EndLoop, OpenVolume, RefreshOnOpen, PowerOff,
      vars, ram, tables
  <2>2. Same
    BY <1>5, TakeIs DEF HbNoRsv, HbMark, EndLoop, OpenVolume, RefreshOnOpen, PowerOff,
      vars, bounds, Same
  <2>3. QED BY <1>3, <2>1, <2>2
<1>6. CASE EraseREF \/ EraseOrg \/ CopyBack \/ EraseREFLast \/ DoUserErase
           \/ UserReErase \/ DoUserWrite
  <2>1. UNCHANGED <<erl, disk>>
    BY <1>6 DEF EraseREF, EraseOrg, CopyBack, EraseREFLast, DoUserErase,
      UserReErase, DoUserWrite, ram, tables
  <2>2. Same
    BY <1>1, <1>2, <1>6, NoProgramFails DEF EraseREF, EraseOrg, CopyBack,
      EraseREFLast, DoUserErase, UserReErase, DoUserWrite
  <2>3. QED BY <1>3, <2>1, <2>2
<1>7. CASE HbStore \/ StoreCopied \/ StoreDone \/ ProgramERL
  BY <1>4, <1>7 DEF HbStore, StoreCopied, StoreDone, ProgramERL
<1>8. CASE NextEntry
  <2>1. Same
    BY <1>8 DEF NextEntry, bounds, Same
  <2>2. PICK i \in Entries : \/ UNCHANGED <<ram, disk>>
                             \/ erl' = DropERL(erl, i) /\ StoreTables
    BY <1>8 DEF NextEntry
  <2>3. i \in Used(erl)
    BY DEF Entries, Used, Clean
  <2>4. CASE UNCHANGED <<ram, disk>>
    BY <1>3, <2>1, <2>4 DEF ram, tables
  <2>5. CASE erl' = DropERL(erl, i) /\ StoreTables
    BY <2>1, <2>3, <2>5 DEF Changed, StoreTables
  <2>6. QED BY <2>2, <2>4, <2>5
<1>9. CASE CopyOut
  <2>1. Same /\ UNCHANGED disk
    BY <1>2, <1>9, NoProgramFails DEF CopyOut
  <2>2. idx \in Used(erl)
    BY <1>9, PointedUsed DEF CopyOut, At
  <2>3. erl' \in {DropERL(erl, idx), Noted(erl, idx)}
    BY <1>9, NoProgramFails DEF CopyOut, Noted
  <2>4. QED BY <2>1, <2>2, <2>3 DEF Changed
<1>10. CASE Remove
  <2>1. Same
    BY <1>10 DEF Remove, bounds, Same
  <2>2. idx \in Used(erl)
    BY <1>10, PointedUsed DEF Remove, At
  <2>3. QED BY <1>10, <2>1, <2>2 DEF Remove, StoreTables, Changed
<1>11. CASE Mount
  BY <1>11 DEF Mount, Changed, bounds, Same
<1>12. ASSUME NEW s \in User, Disturb(s) PROVE Changed /\ disk'.erl \in {disk.erl, erl'}
  BY <1>12 DEF Disturb, Changed
<1>13. ASSUME NEW s \in User, UserErase(s) PROVE Changed /\ disk'.erl \in {disk.erl, erl'}
  BY <1>13 DEF UserErase, Changed, Same, bounds
<1>14. CASE RefreshAll \/ RefreshOne \/ \E s \in User : UserWrite(s)
  <2>1. UNCHANGED <<erl, disk>> /\ Same
    BY <1>14 DEF RefreshAll, RefreshOne, UserWrite, ram, tables, bounds, Same
  <2>2. QED BY <1>3, <2>1
<1>15. QED BY <1>5, <1>6, <1>7, <1>8, <1>9, <1>10, <1>11, <1>12, <1>13, <1>14,
              NoProgramFails DEF Next, Step, Use

LEMMA ListStep ==
  ASSUME ProgramsHold, Types, ListInv, ERLInBounds', [Next]_vars
  PROVE  ListInv'
<1>1. Quiet' /\ Pointed'
  BY QuietStep, PointedStep DEF ListInv
<1>2. Changed /\ disk'.erl \in {disk.erl, erl'}
  BY ListChanges DEF ListInv, Good
<1>3. Good(erl')
  <2>1. erl \in ERLs /\ Good(erl) /\ Good(disk.erl)
    BY DEF Types, RamType, ListInv
  <2>2. ASSUME NEW i \in Used(erl), erl' \in {DropERL(erl, i), Noted(erl, i)}
        PROVE  Good(erl')
    BY <2>1, <2>2, GoodDrop, GoodNote DEF Noted
  <2>3. ASSUME NEW s \in User, erl' = DeleteERL(erl, s) PROVE Good(erl')
    BY <2>1, <2>3, GoodDelete, BlockTypes
  <2>4. ASSUME NEW s \in User, erl' = UpdateERL(erl, s) PROVE Good(erl')
    BY <2>1, <2>4, GoodUpdate DEF ERLInBounds
  <2>5. QED BY <1>2, <2>1, <2>2, <2>3, <2>4 DEF Changed
<1>4. QED BY <1>1, <1>2, <1>3 DEF ListInv

LEMMA ListInit == Init => ListInv
<1> SUFFICES ASSUME Init PROVE ListInv OBVIOUS
<1>1. Quiet /\ Pointed
  BY DEF Init, Quiet, Pointed, At, HbPcs, Handling
<1>2. erl = EmptyERL /\ disk.erl = EmptyERL
  BY DEF Init
<1>3. QED BY <1>1, <1>2, GoodEmpty DEF ListInv

LEMMA ListAlways ==
  ASSUME ProgramsHold PROVE Spec /\ []ERLInBounds => []ListInv
<1>1. ListInv /\ Types /\ ERLInBounds' /\ [Next]_vars => ListInv'
  BY ListStep
<1>2. QED BY <1>1, ListInit, TypesAlways, PTL DEF Spec

\* As long as nothing is written behind the last cell of the list, its count is
\* the number of its entries, in RAM and on flash: through the refresh of a
\* block, calls that pack or shorten the list meanwhile, and power losses.
THEOREM CountRight ==
  ASSUME ProgramsHold PROVE Spec /\ []ERLInBounds => []ERLCountMatches
<1>1. ListInv => ERLCountMatches
  BY DEF ListInv, Good, ERLCountMatches
<1>2. QED BY <1>1, ListAlways, PTL

\* And no block is in it twice, so no block is refreshed twice for one entry.
THEOREM EntriesDiffer ==
  ASSUME ProgramsHold PROVE Spec /\ []ERLInBounds => []ListedOnce
<1>1. ListInv => ListedOnce
  BY DEF ListInv, Good, Single, ListedOnce
<1>2. QED BY <1>1, ListAlways, PTL
-----------------------------------------------------------------------------
(***************************************************************************)
(* How far the list reaches: every disturbed read moves its end by at most *)
(* one slot, and nothing else moves it further back.                       *)
(***************************************************************************)
Within(e, n) == e.slot[MaxItem] = Hole /\ Used(e) \subseteq 0 .. (n - 1)
Reach == disturbs \in Nat /\ Within(erl, disturbs) /\ Within(disk.erl, disturbs)

LEMMA WithinLess ==
  ASSUME NEW e, NEW d, NEW n \in Nat, Within(e, n),
         d.slot[MaxItem] = Hole, Used(d) \subseteq Used(e)
  PROVE  Within(d, n)
BY DEF Within

LEMMA WithinMore ==
  ASSUME NEW e, NEW n \in Nat, Within(e, n)
  PROVE  Within(e, n + 1)
<1>1. 0 .. (n - 1) \subseteq 0 .. ((n + 1) - 1)
  OBVIOUS
<1>2. QED BY <1>1 DEF Within

LEMMA WithinDrop ==
  ASSUME NEW e \in ERLs, NEW i, NEW n \in Nat, Within(e, n)
  PROVE  Within(DropERL(e, i), n)
<1>1. DropERL(e, i).slot[MaxItem] = Hole
  BY DropIs, SlotIs DEF Within
<1>2. QED BY <1>1, DropIs, WithinLess

LEMMA WithinPack ==
  ASSUME NEW e, NEW n \in Nat, Within(e, n)
  PROVE  Within(PackERL(e), n)
<1>1. MaxItem \notin Ranks(e) /\ MaxItem \notin Used(e)
  BY RankIs, SlotIs, UsedCount DEF Ranks
<1>2. PackERL(e).slot[MaxItem] = Hole
  BY <1>1, PackIs, SlotIs DEF Within
<1>3. ASSUME NEW i \in Used(PackERL(e)) PROVE i \in 0 .. (n - 1)
  <2>1. PICK j \in Used(e) : i = Rank(e, j)
    BY PackUsed DEF Ranks
  <2>2. i \in Nat /\ i <= j
    BY <2>1, RankIs, SlotIs
  <2>3. j \in 0 .. (n - 1)
    BY DEF Within
  <2>4. QED BY <2>2, <2>3
<1>4. QED BY <1>2, <1>3 DEF Within

LEMMA WithinDelete ==
  ASSUME NEW e \in ERLs, NEW s, NEW n \in Nat, Within(e, n)
  PROVE  Within(DeleteERL(e, s), n)
<1> DEFINE F == {i \in Slot : i < e.cnt /\ e.slot[i].sbn = s}
           d == IF F = {} THEN e ELSE DropERL(e, Min(F))
<1>1. DeleteERL(e, s) = IF d.cnt = 0 THEN d ELSE PackERL(d)
  BY DEF DeleteERL
<1>2. Within(d, n)
  BY WithinDrop
<1> HIDE DEF d
<1>3. QED BY <1>1, <1>2, WithinPack

\* The list grows at the slot behind its last entry: with n disturbed reads
\* so far, at slot n at most.
LEMMA WithinUpdate ==
  ASSUME NEW e \in ERLs, Good(e), NEW s, NEW n \in Nat, n < MaxItem, Within(e, n)
  PROVE  Within(UpdateERL(e, s), n + 1)
<1>1. CASE ~Adds(e, s)
  BY <1>1, WithinMore DEF UpdateERL
<1>2. CASE Adds(e, s)
  <2> DEFINE d == UpdateERL(e, s)
             l == LastERL(e)
  <2>1. l \in Cell /\ (l # 0 => l - 1 \in Used(e))
    BY LastIs DEF Good
  <2>2. \A j \in Cell : d.slot[j] = IF j = l THEN Item(s, "updated") ELSE e.slot[j]
    BY <1>2, ListParts DEF UpdateERL
  <2> HIDE DEF d, l
  <2>3. l \in Nat /\ l <= n
    <3>1. l \in Nat
      BY <2>1, MaxItemAssumption DEF Cell
    <3>2. l # 0 => l - 1 \in 0 .. (n - 1)
      BY <2>1 DEF Within
    <3>3. QED BY <3>1, <3>2
  <2>4. d.slot[MaxItem] = Hole
    <3>1. l # MaxItem
      BY <2>3, MaxItemAssumption
    <3>2. QED BY <2>2, <3>1, SlotIs DEF Within
  <2>5. ASSUME NEW i \in Used(d) PROVE i \in 0 .. ((n + 1) - 1)
    <3>1. CASE i = l
      BY <2>3, <3>1
    <3>2. CASE i # l
      <4>1. i \in Used(e)
        BY <2>2, <3>2, SlotIs DEF Used
      <4>2. i \in 0 .. (n - 1)
        BY <4>1 DEF Within
      <4>3. QED BY <4>2
    <3>3. QED BY <3>1, <3>2
  <2>6. QED BY <2>4, <2>5 DEF Within, d
<1>3. QED BY <1>1, <1>2

LEMMA ReachStep ==
  ASSUME ProgramsHold, MaxDisturb <= MaxItem, Types, ListInv, Reach, [Next]_vars
  PROVE  Reach'
<1>1. Changed /\ disk'.erl \in {disk.erl, erl'}
  BY ListChanges DEF ListInv, Good
<1>2. /\ erl \in ERLs /\ Good(erl) /\ disturbs \in Nat
      /\ Within(erl, disturbs) /\ Within(disk.erl, disturbs)
  BY DEF Types, RamType, ListInv, Reach
<1>3. CASE Same
  <2>1. ASSUME NEW i \in Used(erl), erl' \in {DropERL(erl, i), Noted(erl, i)}
        PROVE  Within(erl', disturbs)
    <3>1. CASE erl' = DropERL(erl, i)
      BY <1>2, <3>1, WithinDrop
    <3>2. CASE erl' = Noted(erl, i)
      <4>1. Used(erl') = Used(erl) /\ erl'.slot[MaxItem] = erl.slot[MaxItem]
        BY <1>2, <3>2, GoodNote DEF Noted
      <4>2. QED BY <1>2, <4>1 DEF Within
    <3>3. QED BY <2>1, <3>1, <3>2
  <2>2. ASSUME NEW s \in User, erl' = DeleteERL(erl, s) PROVE Within(erl', disturbs)
    BY <1>2, <2>2, WithinDelete
  <2>3. disturbs' = disturbs
    BY <1>3 DEF Same
  <2>4. CASE erl' \in {erl, disk.erl}
    BY <1>1, <1>2, <2>3, <2>4 DEF Reach
  <2>5. CASE \E i \in Used(erl) : erl' \in {DropERL(erl, i), Noted(erl, i)}
    BY <1>1, <1>2, <2>1, <2>3, <2>5 DEF Reach
  <2>6. CASE \E s \in User : erl' = DeleteERL(erl, s)
    BY <1>1, <1>2, <2>2, <2>3, <2>6 DEF Reach
  <2>7. CASE disturbs' = disturbs + 1
    BY <1>2, <2>3, <2>7
  <2>8. QED BY <1>1, <2>4, <2>5, <2>6, <2>7 DEF Changed
<1>4. CASE /\ disturbs < MaxDisturb /\ disturbs' = disturbs + 1
           /\ \E s \in User : erl' = UpdateERL(erl, s)
  <2>1. disturbs < MaxItem /\ disturbs + 1 \in Nat
    BY <1>2, <1>4, MaxItemAssumption, CountAssumption
  <2>2. Within(erl', disturbs + 1)
    BY <1>2, <1>4, <2>1, WithinUpdate
  <2>3. Within(disk.erl, disturbs + 1)
    BY <1>2, WithinMore
  <2>4. QED BY <1>1, <1>4, <2>1, <2>2, <2>3 DEF Reach
<1>5. QED BY <1>1, <1>3, <1>4 DEF Changed

\* An array with a cell for every disturbed read is never overrun, however
\* often the list is packed, shortened or read back in between.
THEOREM FitsUntilFull ==
  ASSUME ProgramsHold, MaxDisturb <= MaxItem
  PROVE  Spec => [](ERLInBounds /\ ERLCountMatches /\ ListedOnce)
<1>1. Init => Reach
  <2> SUFFICES ASSUME Init PROVE Reach OBVIOUS
  <2>1. erl = EmptyERL /\ disk.erl = EmptyERL /\ disturbs = 0
    BY DEF Init
  <2>2. EmptyERL.slot[MaxItem] = Hole
    BY SlotIs DEF EmptyERL
  <2>3. Within(EmptyERL, 0)
    BY <2>2, GoodEmpty DEF Within
  <2>4. QED BY <2>1, <2>3 DEF Reach
<1>2. Reach => ERLInBounds
  BY DEF Reach, Within, ERLInBounds
<1>3. Reach' => ERLInBounds'
  BY DEF Reach, Within, ERLInBounds
<1>4. Types /\ ListInv /\ Reach /\ [Next]_vars => ListInv' /\ Reach'
  BY <1>3, ReachStep, ListStep
<1>5. Spec => [](ListInv /\ Reach)
  BY <1>1, <1>4, ListInit, TypesAlways, PTL DEF Spec
<1>6. ListInv => ERLCountMatches /\ ListedOnce
  BY DEF ListInv, Good, Single, ERLCountMatches, ListedOnce
<1>7. QED BY <1>2, <1>5, <1>6, PTL
=============================================================================
