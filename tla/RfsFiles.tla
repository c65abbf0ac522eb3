------------------------------ MODULE RfsFiles ------------------------------
(***************************************************************************)
(* What the journal of RFS promises: the files a mount would find after a  *)
(* power loss change by whole operations only.                             *)
(*                                                                         *)
(* A file is the sequence of its clusters, under the name its entry gives  *)
(* it.  Which of the pending operations has become durable when the power  *)
(* goes off is left open, half of an operation never.                      *)
(***************************************************************************)
EXTENDS Naturals, Sequences, SequencesExt

CONSTANTS Slot, Cluster

VARIABLE files      \* files[s]: the clusters of the file of the live entry s

TypeOK == \E S \in SUBSET Slot : files \in [S -> Seq(Cluster)]

Used == UNION {ToSet(files[s]) : s \in DOMAIN files}
Others(S) == \A s \in DOMAIN files \ S : s \in DOMAIN files' /\ files'[s] = files[s]
Entries(gone, new) == DOMAIN files' = (DOMAIN files \ gone) \cup new

Init == files = <<>>

\* A file has no cluster yet, a directory has one that was free.
Create(s) == /\ s \notin DOMAIN files /\ Entries({}, {s}) /\ Others({})
             /\ Len(files'[s]) <= 1 /\ ToSet(files'[s]) \cap Used = {}

Delete(s) == s \in DOMAIN files /\ Entries({s}, {}) /\ Others({s})

\* The entry s becomes t; the file of u goes with it unless u is s.
Rename(s, t, u) ==
  /\ s \in DOMAIN files /\ t \notin DOMAIN files /\ u \in DOMAIN files
  /\ Entries({s, u}, {t}) /\ Others({s, u}) /\ files'[t] = files[s]

Extend(s) == /\ s \in DOMAIN files /\ Entries({}, {}) /\ Others({s})
             /\ IsStrictPrefix(files[s], files'[s])
             /\ ToSet(SubSeq(files'[s], Len(files[s]) + 1, Len(files'[s]))) \cap Used = {}

Truncate(s) == /\ s \in DOMAIN files /\ Entries({}, {}) /\ Others({s})
               /\ IsStrictPrefix(files'[s], files[s])

Next == \E s \in Slot : \/ Create(s) \/ Delete(s) \/ Extend(s) \/ Truncate(s)
                        \/ \E t, u \in Slot : Rename(s, t, u)

Spec == Init /\ [][Next]_files
=============================================================================
