---------------------------- MODULE MCRfsJournal ----------------------------
(* RfsJournal on a small volume, with symmetric clusters, entries and inodes. *)
EXTENDS RfsDurability, TLC

Symmetry == Permutations(Cluster) \cup Permutations(Slot) \cup Permutations(File)
=============================================================================
