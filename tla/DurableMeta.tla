----------------------------- MODULE DurableMeta -----------------------------
(***************************************************************************)
(* What the meta-data store of the Bad Block Manager promises to the rest  *)
(* of BML, without blocks or pages.                                        *)
(*                                                                         *)
(* A die keeps two tables: the one in the UPCB (unlocked blocks) and the   *)
(* one in the LPCB (locked-tight blocks).  RAM holds the current version   *)
(* of each, flash holds the version that the next mount would load.  An    *)
(* update makes the flash version equal to the RAM version before it       *)
(* returns.  A power loss may catch an update in flight: the next mount    *)
(* then loads the old version or the new one of the table being written,   *)
(* and exactly the current version of the other table.                     *)
(***************************************************************************)
EXTENDS Integers

Kind == {"U", "L"}

VARIABLES ram,    \* ram[k]: version of table k in RAM
          disk,   \* disk[k]: version a mount would load now
          busy,   \* the table being updated, or "none"
          mode    \* "on" (mounted), "off" (no power), "dead" (critical error)

vars == <<ram, disk, busy, mode>>

Init == /\ ram = [k \in Kind |-> 0]
        /\ disk = ram
        /\ busy = "none"
        /\ mode = "on"

\* The caller changed table k in RAM and asks for it to be written.
Begin(k) == /\ mode = "on" /\ busy = "none"
            /\ ram' = [ram EXCEPT ![k] = @ + 1]
            /\ busy' = k
            /\ UNCHANGED <<disk, mode>>

\* The new version of the table being written becomes the one on flash.
Persist == /\ busy # "none" /\ disk[busy] # ram[busy]
           /\ disk' = [disk EXCEPT ![busy] = ram[busy]]
           /\ UNCHANGED <<ram, busy, mode>>

\* The update returns: what it wrote is on flash.
Return == /\ busy # "none"
          /\ disk' = [disk EXCEPT ![busy] = ram[busy]]
          /\ busy' = "none"
          /\ UNCHANGED <<ram, mode>>

\* No reserved block is left: the caller gets an error, flash keeps a version.
GiveUp == /\ busy # "none"
          /\ mode' = "dead" /\ busy' = "none"
          /\ disk' \in {disk, [disk EXCEPT ![busy] = ram[busy]]}
          /\ UNCHANGED ram

PowerLoss == /\ mode # "off"
             /\ mode' = "off" /\ busy' = "none"
             /\ \/ disk' = disk
                \/ busy # "none" /\ disk' = [disk EXCEPT ![busy] = ram[busy]]
             /\ UNCHANGED ram

Mount == /\ mode = "off" /\ mode' = "on"
         /\ ram' = disk
         /\ UNCHANGED <<disk, busy>>

Next == \/ \E k \in Kind : Begin(k)
        \/ Persist \/ Return \/ GiveUp \/ PowerLoss \/ Mount

Spec == Init /\ [][Next]_vars
=============================================================================
