---------------------------- MODULE RfsDurability ----------------------------
(***************************************************************************)
(* RfsJournal keeps what RfsFiles promises.                                *)
(*                                                                         *)
(* The history variable `files' moves at the commit points of log.c alone: *)
(* a mark makes what the caches show durable, and the last record of a     *)
(* group of deallocation records makes its truncation durable before the   *)
(* first cluster is freed.                                                 *)
(***************************************************************************)
EXTENDS RfsJournal

VARIABLE files

\* The files of a volume: its live entries and their chains.
View(v) == [s \in {t \in Slot : v.live[t]} |-> Chain(v.fat, v.start[s])]

\* The clusters up to the last one that a truncation leaves.
Kept(cs, newlast) == SubSeq(cs, 1, SelectInSeq(cs, LAMBDA c : c = newlast))

Cuts(l) == LET r == Last(l)
           IN r.kind = "dealloc" /\ r.d.trunc /\ r.d.slot # None /\ WholeGroup(l, Len(l))

Committed ==
  CASE log' = log -> files
    [] log' # log /\ log' = <<>> -> View(cache)
    [] log' # log /\ log' # <<>> ->
         LET d == Last(log').d
         IN IF Cuts(log') THEN [files EXCEPT ![d.slot] = Kept(@, d.newlast)] ELSE files

InitD == Init /\ files = <<>>
NextD == Next /\ files' = Committed
SpecD == InitD /\ [][NextD]_<<vars, files>>

\* Every commit point is one whole operation of the abstract file system: no
\* crash shows a rename with both names or none, or a chain half truncated.
Files == INSTANCE RfsFiles
ImplementsRfsFiles == Files!Spec

\* What a mount makes of the device d and the log l.
Recovered(d, l) ==
  LET v == ApplyAll(d, ReplaySteps(l)) IN ApplyAll(v, OrphanSteps(v))

\* Whatever blocks have been written back (mark_buffer and meta_commit, log.c),
\* a power loss now and a mount, which undoes or redoes the records since the
\* last mark (log_replay.c), give exactly the files of the last commit point.
RecoversCommitted == View(Recovered(disk, log)) = files

\* The replay and the release of orphans leave a sound volume: nothing hangs
\* behind the log file, chains end, none is circular or shared, and no cluster is
\* lost (log_replay.c, and inode.c for the chain of the log file).
RecoversSound ==
  LET v == Recovered(disk, log)
      used == {c \in Cluster : v.fat[c] # FREE}
  IN /\ v.fat[Log] = TAIL
     /\ \A s \in DOMAIN files :
          files[s] # <<>> => v.fat[Last(files[s])] = TAIL /\ IsInjective(files[s])
     /\ \A s, t \in DOMAIN files :
          s # t => ToSet(files[s]) \cap ToSet(files[t]) = {}
     /\ used = UNION {ToSet(files[s]) : s \in DOMAIN files}
===============================================================================
