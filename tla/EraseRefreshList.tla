-------------------------- MODULE EraseRefreshList --------------------------
(***************************************************************************)
(* The Erase Refresh List of a die, BmlERL: the blocks whose data must be  *)
(* rewritten because a read found it disturbed, and FSR_BBM_UpdateERL.     *)
(*                                                                         *)
(* A list is a record: "cnt" is nCnt and "slot" is astERBlkInfo with one   *)
(* cell more than the array has, so that an access just past its end shows.*)
(* The list may have holes; nCnt is kept next to the slots, not computed   *)
(* from them.                                                              *)
(***************************************************************************)
EXTENDS Integers, FiniteSets, FiniteSetsExt

CONSTANTS MaxItem,   \* BML_MAX_ERL_ITEM
          NoSbn      \* 0xFFFF in nSbn

ASSUME MaxItemAssumption == MaxItem \in Nat \ {0}

Slot == 0 .. (MaxItem - 1)
Cell == 0 .. MaxItem
Info == {"none", "updated", "copied"}       \* nProgInfo; "none" is 0xFFFF
Item(s, info) == [sbn |-> s, info |-> info]
Hole == Item(NoSbn, "none")
EmptyERL == [slot |-> [i \in Cell |-> Hole], cnt |-> 0]

Used(e) == {i \in Slot : e.slot[i].sbn # NoSbn}

\* nLastERL: the slot after the last one in use.  The scan stops at nCnt - 1.
LastERL(e) == LET U == {i \in Used(e) : i >= e.cnt - 1}
              IN  IF e.cnt = 0 \/ U = {} THEN 0 ELSE Max(U) + 1

\* BML_FLAG_ERL_UPDATE: block s showed a read disturbance.
ListedBelowCount(e, s) == \E i \in 0 .. (e.cnt - 1) : e.slot[i].sbn = s   \* mutant
Listed(e, s) == \E i \in 0 .. LastERL(e) : e.slot[i].sbn = s
Adds(e, s) == ~Listed(e, s) /\ e.cnt < MaxItem
UpdateERL(e, s) ==
  IF Adds(e, s)
  THEN [slot |-> [e.slot EXCEPT ![LastERL(e)] = Item(s, "updated")], cnt |-> e.cnt + 1]
  ELSE e

\* Slot i is emptied and the UINT16 count goes down by one.
DropERL(e, i) == [slot |-> [e.slot EXCEPT ![i] = Hole], cnt |-> (e.cnt - 1) % 65536]

\* The entries move up into the holes before them, in order.  A hole that no
\* entry moves into keeps what its nProgInfo says.
Rank(e, i) == Cardinality({j \in Used(e) : j < i})
Packed(e, i) ==
  IF \E j \in Used(e) : Rank(e, j) = i
  THEN e.slot[CHOOSE j \in Used(e) : Rank(e, j) = i]
  ELSE IF i \in Used(e) THEN Hole ELSE e.slot[i]
PackERL(e) == [slot |-> [i \in Cell |-> Packed(e, i)], cnt |-> e.cnt]

\* BML_FLAG_ERL_DELETE: only the first nCnt slots are searched; the list is
\* packed even when s is not found.
DeleteERLKeepCount(e, s) ==                                             \* mutant
  LET F == {i \in Slot : i < e.cnt /\ e.slot[i].sbn = s}
  IN  IF F = {} THEN e ELSE PackERL([e EXCEPT !.slot[Min(F)] = Hole])
DeleteERL(e, s) ==
  LET F == {i \in Slot : i < e.cnt /\ e.slot[i].sbn = s}
      d == IF F = {} THEN e ELSE DropERL(e, Min(F))
  IN  IF d.cnt = 0 THEN d ELSE PackERL(d)

\* The entries whose copy in the REF block is complete; the first of them.
Copied(e) == {i \in Used(e) : e.slot[i].info = "copied"}
FirstCopied(e) == Min(Copied(e))
-----------------------------------------------------------------------------
\* nCnt is the number of slots in use, as the code's debug build asserts.
CountMatches(e) == e.cnt = Cardinality(Used(e))
=============================================================================
