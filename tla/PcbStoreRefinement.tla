-------------------------- MODULE PcbStoreRefinement --------------------------
(***************************************************************************)
(* PcbStore implements DurableMeta.                                        *)
(*                                                                         *)
(* The abstract disk is what a mount would load from the flash as it       *)
(* stands.  It is a function of the flash; a history variable holds it so  *)
(* that TLC computes it once per state.                                    *)
(***************************************************************************)
EXTENDS PcbStore

VARIABLE disk

Versions(v) == [k \in Kind |-> IF v.ok THEN v.hdr[k].ver ELSE -1]

InitR == Init /\ disk = Versions(View)
NextR == Next /\ disk' \in {Versions(v) : v \in {View'}}
SpecR == InitR /\ [][NextR]_<<vars, disk>>

\* The store keeps the promise of DurableMeta: an update that returned is
\* what every later mount loads, and an update the power cut short left the
\* version before it or its own, whole, and did not touch the other table.
Store == INSTANCE DurableMeta WITH
  ram <- ver,
  busy <- IF pc \in {"erase", "program", "retire"} THEN op ELSE "none",
  mode <- IF pc \in {"off", "dead"} THEN pc ELSE "on"
ImplementsDurableMeta == Store!Spec
=============================================================================
