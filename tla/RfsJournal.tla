------------------------------ MODULE RfsJournal ------------------------------
(***************************************************************************)
(* The journal of RFS, the FAT file system of src/rfs: the transactions of *)
(* log.c, the FAT and directory changes their callers make (cluster.c,     *)
(* inode.c, namei.c, file.c), the write-back of buffers by the kernel, a   *)
(* power loss between any two of these steps, and the replay of            *)
(* log_replay.c with the release of orphans that follows it at mount.      *)
(*                                                                         *)
(* A file system operation runs under the log mutex.  It is one action     *)
(* that lays down the list of its elementary steps in `todo'; the steps    *)
(* run one at a time, so that write-back, inode synchronisation and power  *)
(* loss interleave with them.                                              *)
(***************************************************************************)
EXTENDS Naturals, FiniteSets, Sequences, SequencesExt

CONSTANTS Cluster,      \* data clusters of the volume
          Log,          \* the last cluster of the log file
          Slot,         \* directory entries
          File,         \* in-core inodes
          FREE, TAIL,   \* CLU_FREE and CLU_TAIL
          None,
          PreAlloc,     \* RFS_LOG_PRE_ALLOC
          MaxChunks,    \* RFS_LOG_MAX_CHUNKS, a chunk being one cluster
          MaxRecords    \* RFS_LOG_MAX_MULTI_BLOCK_RECORD

ASSUME RfsAssumption ==
  /\ IsFiniteSet(Cluster) /\ Log \notin Cluster
  /\ FREE # TAIL /\ FREE \notin Cluster \cup {Log} /\ TAIL \notin Cluster \cup {Log}
  /\ None \notin Slot \cup File
  /\ PreAlloc \in Nat \ {0} /\ MaxChunks \in Nat \ {0} /\ MaxRecords \in Nat \ {0}

VARIABLES disk,     \* what the device holds: the FAT and the directory entries
          cache,    \* the same, as the FAT cache and the buffer cache show it
          log,      \* the records written since the last COMMIT or ABORT mark
          ram,      \* inodes, segment list, open WRITE transaction, pre-allocation
          todo,     \* the steps left of the operation that holds the log mutex
          sync,     \* a rfs_sync_inode that has found its entry, not locked it yet
          mode      \* "down", "replay", "orphans" or "up"

vars == <<disk, cache, log, ram, todo, sync, mode>>

FatIndex == Cluster \cup {Log}
Volume == [fat : [FatIndex -> Cluster \cup {FREE, TAIL}],
           live : [Slot -> BOOLEAN],
           start : [Slot -> Cluster \cup {TAIL}]]

NoInode == [st |-> "none", slot |-> None, start |-> TAIL, last |-> TAIL]
NoRam == [ino |-> [f \in File |-> NoInode], segs |-> <<>>, writer |-> None, pre |-> <<>>]

-------------------------------------------------------------------------------
(* Chains of the FAT.                                                      *)

\* The chain from a cluster on; longer than the volume when it is circular.
ChainFrom(fat, c) ==
  LET N == Cardinality(Cluster)
      walk[n \in 0..N] ==
        IF n = 0 THEN <<c>>
        ELSE LET p == walk[n - 1]
             IN IF fat[Last(p)] \in Cluster THEN Append(p, fat[Last(p)]) ELSE p
  IN walk[N]

Chain(fat, c) == IF c = TAIL THEN <<>> ELSE ChainFrom(fat, c)

\* The chain of a file: an unlinked one ends inside the log file's chain.  The
\* walk stops at the last cluster of the inode, or where the chain ends.
ChainOf(f) ==
  LET i == ram.ino[f]
      c == Chain(cache.fat, i.start)
      ends == {k \in 1..Len(c) : c[k] = i.last}
  IN IF ends = {} THEN c ELSE SubSeq(c, 1, CHOOSE k \in ends : \A j \in ends : k <= j)

FreeClusters == {c \in Cluster : cache.fat[c] = FREE}

-------------------------------------------------------------------------------
(* Elementary steps and log records.                                       *)

Fat(c, v) == [op |-> "fat", at |-> c, val |-> v]         \* rfs_fat_write
Start(s, c) == [op |-> "start", at |-> s, val |-> c]     \* SET_START_CLUSTER
Live(s, b) == [op |-> "live", at |-> s, val |-> b]       \* name[0]: built or deleted
Rec(r) == [op |-> "log", rec |-> r]                      \* log_read, log_write
Flush == [op |-> "flush"]                                \* fcache_sync, sync_blockdev
Mark(r) == [op |-> "mark", ram |-> r]                    \* __log_mark_end
Ram(r) == [op |-> "ram", ram |-> r]

Frees(cs) == [i \in 1..Len(cs) |-> Fat(cs[i], FREE)]
If(b, steps) == IF b THEN steps ELSE <<>>

\* What an elementary step does to a volume.
Apply(v, s) ==
  CASE s.op = "fat"   -> [v EXCEPT !.fat[s.at] = s.val]
    [] s.op = "start" -> [v EXCEPT !.start[s.at] = s.val]
    [] s.op = "live"  -> [v EXCEPT !.live[s.at] = s.val]
    [] OTHER          -> v

ApplyAll(v, steps) ==
  LET after[n \in 0..Len(steps)] == IF n = 0 THEN v ELSE Apply(after[n - 1], steps[n])
  IN after[Len(steps)]

BuildRec(s) == [kind |-> "build", slot |-> s]
RemoveRec(s) == [kind |-> "remove", slot |-> s]
AllocRec(s, prev, next, cs) ==
  [kind |-> "alloc", slot |-> s, prev |-> prev, next |-> next, clus |-> cs]
MoveRec(s, prev, first, last) ==
  [kind |-> "move", slot |-> s, prev |-> prev, first |-> first, last |-> last]

-------------------------------------------------------------------------------
(* Commit.                                                                 *)

MetaCommitNoFlush(r, f) ==                                                 \* mutant
  If(f # None /\ r.ino[f].st = "alloc", <<Start(r.ino[f].slot, r.ino[f].start)>>)

\* rfs_meta_commit: the entry of the inode of a data transaction is brought
\* up to date, then every dirty block goes to the device.
MetaCommit(r, f) ==
  If(f # None /\ r.ino[f].st = "alloc", <<Start(r.ino[f].slot, r.ino[f].start)>>)
    \o <<Flush>>

Released(r) == [r EXCEPT !.writer = None, !.pre = <<>>]

CommitUnmarked(r) ==                                                       \* mutant
  If(r.writer # None, MetaCommit(r, r.writer) \o <<Ram(Released(r))>>)

\* __commit_deferred_tr, run by rfs_log_start when another transaction begins
CommitDeferred(r) ==
  If(r.writer # None, MetaCommit(r, r.writer) \o <<Mark(Released(r))>>)

\* rfs_log_end of a transaction that is not deferred
LogEnd(r, f) == MetaCommit(r, f) \o <<Mark(Released(r))>>

-------------------------------------------------------------------------------
(* The candidate segments: chains of unlinked files behind the log file.   *)

SegStart(r, i) == r.ino[r.segs[i]].start
SegLast(r, i) == IF i = 0 THEN Log ELSE r.ino[r.segs[i]].last
SegEnd(r) == SegLast(r, Len(r.segs))
SegNext(r, i) == IF i < Len(r.segs) THEN SegStart(r, i + 1) ELSE TAIL
SegIndex(r, f) == CHOOSE i \in 1..Len(r.segs) : r.segs[i] = f

MoveToHead(r, s, f) ==                                                     \* mutant
  <<Rec(MoveRec(s, Log, r.ino[f].start, r.ino[f].last)), Fat(Log, r.ino[f].start)>>

\* __log_move_chain, called by rfs_open_unlink_chain
MoveChain(r, s, f) ==
  <<Rec(MoveRec(s, SegEnd(r), r.ino[f].start, r.ino[f].last)),
    Fat(SegEnd(r), r.ino[f].start)>>

-------------------------------------------------------------------------------
(* Operations, as the steps they take from the state they start in.        *)

\* rfs_create, and rfs_mkdir when the new directory gets its cluster c
CreateSteps(f, s, c) ==
  LET r == Released(ram)
      i == [st |-> "alloc", slot |-> s,
            start |-> IF c = None THEN TAIL ELSE c, last |-> IF c = None THEN TAIL ELSE c]
      up == [r EXCEPT !.ino[f] = i]
  IN CommitDeferred(ram)
       \o If(c # None, <<Rec(AllocRec(None, TAIL, TAIL, <<c>>)), Fat(c, TAIL)>>)
       \o <<Rec(BuildRec(s)), Start(s, i.start), Live(s, TRUE), Ram(up)>>
       \o LogEnd(up, None)

DeletedListed(r, f) ==                                                     \* mutant
  [r EXCEPT !.ino[f].st = "free", !.segs = Append(@, f)]

\* The inode becomes FREE; its chain, if it has one, a candidate segment.
Deleted(r, f) ==
  [r EXCEPT !.ino[f].st = "free",
            !.segs = IF r.ino[f].start = TAIL THEN @ ELSE Append(@, f)]

\* rfs_unlink: rfs_remove_entry and rfs_open_unlink_chain
DeleteEntry(r, f) ==
  LET i == r.ino[f]
  IN <<Rec(RemoveRec(i.slot)), Live(i.slot, FALSE)>>
       \o If(i.start # TAIL, MoveChain(r, i.slot, f))
       \o <<Ram(Deleted(r, f))>>

UnlinkSteps(f) ==
  LET r == Released(ram)
  IN CommitDeferred(ram) \o DeleteEntry(r, f) \o LogEnd(Deleted(r, f), None)

\* rfs_rename to a free slot s, over the file g unless g is None
RenameSteps(f, s, g) ==
  LET r == Released(ram)
      i == r.ino[f]
      over == IF g = None THEN r ELSE Deleted(r, g)
      moved == [over EXCEPT !.ino[f].slot = s]
      entry == ApplyAll(cache, CommitDeferred(ram)).start[i.slot]
  IN CommitDeferred(ram)
       \o <<Rec(BuildRec(s)), Start(s, entry), Live(s, TRUE),
            Rec(RemoveRec(i.slot)), Live(i.slot, FALSE)>>
       \o If(g # None, DeleteEntry(r, g))
       \o <<Ram(moved)>> \o LogEnd(moved, None)

\* rfs_alloc_cluster in a WRITE or TRUNCATE_F transaction: rfs_log_get_cluster,
\* rfs_append_new_cluster, and the segment list when the file is unlinked.
\* p is what is pre-allocated once the cluster is taken from it.
AppendCluster(r, f, p) ==
  LET i == r.ino[f]
      new == Head(p)
      free == i.st = "free"
      first == i.start = TAIL
      k == SegIndex(r, f)
      after == [r EXCEPT !.pre = Tail(p), !.ino[f].last = new,
                         !.ino[f].start = IF first THEN new ELSE @,
                         !.segs = IF free /\ first THEN Append(@, f) ELSE @]
      unhung == [after EXCEPT !.segs = r.segs]
  IN [steps |-> <<Fat(new, TAIL)>> \o If(~first, <<Fat(i.last, new)>>)
                  \o (IF ~free THEN <<>>
                      ELSE IF first THEN MoveChain(unhung, None, f)
                      ELSE If(k < Len(r.segs), <<Fat(new, SegNext(r, k))>>))
                  \o <<Ram(after)>>,
      ram |-> after]

\* rfs_log_alloc_chain of the clusters p for __pre_alloc_clusters
PreAllocRec(r, f, p) ==
  LET i == r.ino[f]
      free == i.st = "free"
  IN Rec(AllocRec(IF free THEN None ELSE i.slot, i.last,
                  IF free /\ i.last # TAIL THEN cache.fat[i.last] ELSE TAIL, p))

\* rfs_write_begin .. rfs_write_end for one more cluster; p is the new
\* pre-allocation, <<>> when there is some left
WriteSteps(f, p) ==
  LET mine == ram.writer = f
      r == IF mine THEN ram ELSE Released(ram)
      open == [r EXCEPT !.writer = f]
      got == AppendCluster(open, f, IF p = <<>> THEN ram.pre ELSE p)
  IN If(~mine, CommitDeferred(ram))
       \o If(p # <<>>, If(mine, MetaCommit(ram, f) \o <<Mark(ram)>>)
                         \o <<PreAllocRec(r, f, p)>>)
       \o got.steps

\* rfs_truncate forward by one cluster
ExtendSteps(f, p) ==
  LET r == Released(ram)
      got == AppendCluster(r, f, p)
  IN CommitDeferred(ram) \o <<PreAllocRec(r, f, p)>> \o got.steps \o LogEnd(got.ram, f)

-------------------------------------------------------------------------------
(* Deallocation: redo records, several when the chain has many chunks.     *)

GroupSize == MaxChunks * MaxRecords

\* The records of one group, as __log_update_dealloc_chain fills them: d names
\* the source and the place in the log file's chain, next the first cluster
\* that is left.
DeallocRecs(d, cs, next) ==
  LET n == (Len(cs) + MaxChunks - 1) \div MaxChunks
  IN [k \in 1..n |-> Rec([kind |-> "dealloc", d |-> d, next |-> next, count |-> n,
                          clus |-> SubSeq(cs, (k - 1) * MaxChunks + 1,
                                          IF k = n THEN Len(cs) ELSE k * MaxChunks)])]

\* __free_chain's loop: record the chunks of a group, free them, and mark the
\* part that is done (rfs_log_commit_mrc) when there is more.
FreeGroup(d, cs, g) ==
  LET from == g * GroupSize + 1
      to == IF Len(cs) < from + GroupSize THEN Len(cs) ELSE from + GroupSize - 1
      more == to < Len(cs)
      next == IF more THEN cs[to + 1] ELSE TAIL
      part == SubSeq(cs, from, to)
  IN DeallocRecs(d, part, next) \o Frees(part)
       \o If(more, <<Flush, Rec([kind |-> "mrc", d |-> d, next |-> next])>>)

FreeChain(d, cs) ==
  FlattenSeq([g \in 1..((Len(cs) + GroupSize - 1) \div GroupSize) |->
                FreeGroup(d, cs, g - 1)])

\* rfs_delete_inode: the chain leaves the middle of the log file's chain.
DelInodeSteps(f) ==
  LET r == Released(ram)
      k == SegIndex(r, f)
      d == [trunc |-> FALSE, slot |-> None, newlast |-> TAIL,
            prev |-> SegLast(r, k - 1), succ |-> SegNext(r, k)]
      gone == [r EXCEPT !.ino[f] = NoInode, !.segs = RemoveAt(@, k)]
  IN IF r.ino[f].start = TAIL
     THEN CommitDeferred(ram) \o <<Ram([r EXCEPT !.ino[f] = NoInode])>>
     ELSE CommitDeferred(ram) \o FreeChain(d, ChainOf(f))
            \o <<Fat(d.prev, d.succ)>> \o LogEnd(gone, None)

\* rfs_truncate backward to n clusters, also run by a lookup that finds a
\* chain longer than the size of the entry.
TruncateSteps(f, n) ==
  LET r == Released(ram)
      cs == ChainOf(f)
      newlast == IF n = 0 THEN TAIL ELSE cs[n]
      d == [trunc |-> TRUE, slot |-> r.ino[f].slot, newlast |-> newlast,
            prev |-> SegEnd(r), succ |-> TAIL]
      cut == [r EXCEPT !.ino[f].last = newlast,
                       !.ino[f].start = IF n = 0 THEN TAIL ELSE @]
  IN CommitDeferred(ram) \o FreeChain(d, SubSeq(cs, n + 1, Len(cs)))
       \o <<Fat(d.prev, TAIL)>> \o If(n > 0, <<Fat(newlast, TAIL)>>)
       \o <<Ram(cut)>> \o LogEnd(cut, f)

-------------------------------------------------------------------------------
(* Replay.                                                                 *)

UndoAlloc(r) ==
  (IF r.prev # TAIL THEN <<Fat(r.prev, r.next)>>
   ELSE If(r.slot # None, <<Start(r.slot, TAIL)>>)) \o Frees(r.clus)

UndoMove(r) ==
  If(r.slot # None, <<Start(r.slot, r.first)>>)
    \o <<Fat(r.last, TAIL), Fat(r.prev, TAIL)>>

Undo(r) ==
  CASE r.kind = "alloc"  -> UndoAlloc(r)
    [] r.kind = "move"   -> UndoMove(r)
    [] r.kind = "build"  -> <<Live(r.slot, FALSE)>>
    [] r.kind = "remove" -> <<Live(r.slot, TRUE)>>
    [] OTHER             -> <<>>

RedoToSuccessor(r) ==                                                      \* mutant
  If(r.d.trunc, IF r.d.newlast = TAIL THEN If(r.d.slot # None, <<Start(r.d.slot, TAIL)>>)
                ELSE <<Fat(r.d.newlast, TAIL)>>)
    \o <<Fat(r.d.prev, r.d.succ)>>

\* __log_redo_dealloc_source_and_log
RedoSource(r) ==
  If(r.d.trunc, IF r.d.newlast = TAIL THEN If(r.d.slot # None, <<Start(r.d.slot, TAIL)>>)
                ELSE <<Fat(r.d.newlast, TAIL)>>)
    \o <<Fat(r.d.prev, IF r.next # TAIL THEN r.next ELSE r.d.succ)>>

\* __sanity_check_dealloc_tr_bhs: the record at i ends a whole group
WholeGroup(l, i) ==
  LET first == i - l[i].count + 1
  IN first >= 1 /\ \A j \in first..i : l[j].kind = "dealloc"

\* Where the walk back from the last record stops: at the first record that
\* is redone, or before the first record of the transaction.
Redone(l) ==
  LET stops == {i \in 1..Len(l) : \/ l[i].kind = "mrc"
                                  \/ l[i].kind = "dealloc" /\ WholeGroup(l, i)}
  IN IF stops = {} THEN 0 ELSE CHOOSE i \in stops : \A j \in stops : j <= i

RedoSteps(l, i) ==
  IF i = 0 THEN <<>>
  ELSE IF l[i].kind = "mrc" THEN RedoSource(l[i])
  ELSE LET first == i - l[i].count + 1
       IN RedoSource(l[first])
            \o FlattenSeq([k \in 1..l[i].count |-> Frees(l[first + k - 1].clus)])

\* __log_replay up to its rfs_sync_vol
ReplaySteps(l) ==
  LET n == Redone(l)
      undone == Reverse(SubSeq(l, n + 1, Len(l)))
  IN FlattenSeq([k \in 1..Len(undone) |-> Undo(undone[k])]) \o RedoSteps(l, n)

\* rfs_fill_inode on the log file, called by rfs_log_init: its chain is longer
\* than its size, so the rest of it is truncated.
OrphanSteps(v) ==
  LET d == [trunc |-> TRUE, slot |-> None, newlast |-> Log, prev |-> Log, succ |-> TAIL]
  IN IF v.fat[Log] = TAIL THEN <<>>
     ELSE FreeChain(d, Tail(ChainFrom(v.fat, Log))) \o <<Fat(Log, TAIL), Flush, Mark(NoRam)>>

-------------------------------------------------------------------------------
(* The state machine.                                                      *)

Init ==
  /\ disk = [fat |-> [c \in FatIndex |-> IF c = Log THEN TAIL ELSE FREE],
             live |-> [s \in Slot |-> FALSE], start |-> [s \in Slot |-> TAIL]]
  /\ cache = disk
  /\ log = <<>> /\ ram = NoRam /\ todo = <<>> /\ sync = None /\ mode = "up"

\* The log mutex is free.  While a rfs_sync_inode holds an entry its inode has
\* left (SyncFind), only the operations that give the entry to another inode are
\* let in: the others commute with the rest of it.
LogFree == mode = "up" /\ todo = <<>>
Idle == LogFree /\ sync = None
Takes(s) == LogFree /\ (sync # None => sync.slot = s)

Run(steps) == /\ todo' = steps
              /\ UNCHANGED <<disk, cache, log, ram, sync, mode>>

Create(f, s, c) ==
  /\ Takes(s) /\ ram.ino[f].st = "none" /\ ~cache.live[s]
  /\ Run(CreateSteps(f, s, c))

Unlink(f) == Idle /\ ram.ino[f].st = "alloc" /\ Run(UnlinkSteps(f))

Rename(f, s, g) ==
  /\ Takes(s) /\ ram.ino[f].st = "alloc" /\ ~cache.live[s]
  /\ g # None => g # f /\ ram.ino[g].st = "alloc"
  /\ Run(RenameSteps(f, s, g))

\* The clusters rfs_find_free_clusters may return for a pre-allocation.
PreAllocations ==
  LET n == IF Cardinality(FreeClusters) < PreAlloc THEN Cardinality(FreeClusters) ELSE PreAlloc
  IN {p \in [1..n -> FreeClusters] : \A i, j \in 1..n : p[i] = p[j] => i = j}

Write(f) ==
  /\ Idle /\ ram.ino[f].st # "none"
  /\ IF ram.writer = f /\ ram.pre # <<>> THEN Run(WriteSteps(f, <<>>))
     ELSE /\ FreeClusters # {}
          /\ \E p \in PreAllocations : Run(WriteSteps(f, p))

\* No cluster is left: rfs_log_end ends the transaction with an ABORT mark.
WriteNoSpace(f) ==
  /\ Idle /\ ram.writer = f /\ ram.pre = <<>> /\ FreeClusters = {}
  /\ Run(LogEnd(ram, f))

Extend(f) ==
  /\ Idle /\ ram.ino[f].st = "alloc" /\ FreeClusters # {}
  /\ \E p \in PreAllocations : Run(ExtendSteps(f, p))

DelInode(f) == Idle /\ ram.ino[f].st = "free" /\ Run(DelInodeSteps(f))

Truncate(f, n) ==
  /\ Idle /\ ram.ino[f].st = "alloc" /\ n < Len(ChainOf(f))
  /\ Run(TruncateSteps(f, n))

\* fsync, O_SYNC and the super block's write-out: rfs_log_force_commit
ForceCommit == Idle /\ ram.writer # None /\ Run(CommitDeferred(ram))

\* The next elementary step of the operation under way.
Step ==
  /\ mode # "down" /\ todo # <<>>
  /\ LET s == Head(todo)
     IN /\ s.op = "flush" => disk = cache
        /\ cache' = Apply(cache, s)
        /\ log' = CASE s.op = "log" -> Append(log, s.rec)
                    [] s.op = "mark" -> <<>>
                    [] OTHER -> log
        /\ ram' = IF s.op \in {"ram", "mark"} THEN s.ram ELSE ram
  /\ todo' = Tail(todo)
  /\ UNCHANGED <<disk, sync, mode>>

\* The device gets one dirty block: a FAT block or a directory entry.
WriteFat(c) ==
  /\ mode # "down" /\ disk.fat[c] # cache.fat[c]
  /\ disk' = [disk EXCEPT !.fat[c] = cache.fat[c]]
  /\ UNCHANGED <<cache, log, ram, todo, sync, mode>>

WriteEntry(s) ==
  /\ mode # "down" /\ <<disk.live[s], disk.start[s]>> # <<cache.live[s], cache.start[s]>>
  /\ disk' = [disk EXCEPT !.live[s] = cache.live[s], !.start[s] = cache.start[s]]
  /\ UNCHANGED <<cache, log, ram, todo, sync, mode>>

\* rfs_sync_inode called by the kernel, outside the log mutex: it finds the
\* entry of the inode, then takes write_lock, checks that the inode is still
\* there and writes the start cluster.  The two halves are one step unless an
\* unlink or a rename takes the entry away from the inode in between.
SyncInode(f) ==
  /\ mode = "up" /\ ram.ino[f].st = "alloc"
  /\ cache' = Apply(cache, Start(ram.ino[f].slot, ram.ino[f].start))
  /\ UNCHANGED <<disk, log, ram, todo, sync, mode>>

Leaves(f) == /\ todo # <<>> /\ Head(todo).op = "ram"
             /\ LET i == Head(todo).ram.ino[f]
                IN i.st # "alloc" \/ i.slot # ram.ino[f].slot

SyncFind(f) ==
  /\ mode = "up" /\ sync = None /\ ram.ino[f].st = "alloc" /\ Leaves(f)
  /\ sync' = [file |-> f, slot |-> ram.ino[f].slot]
  /\ UNCHANGED <<disk, cache, log, ram, todo, mode>>

SyncIfAlloc(i, slot) == i.st = "alloc"                                     \* mutant

SyncAllowed(i, slot) == i.st = "alloc" /\ i.slot = slot

SyncWrite ==
  /\ mode = "up" /\ sync # None
  /\ LET i == ram.ino[sync.file]
     IN cache' = IF SyncAllowed(i, sync.slot)
                 THEN Apply(cache, Start(sync.slot, i.start)) ELSE cache
  /\ sync' = None
  /\ UNCHANGED <<disk, log, ram, todo, mode>>

PowerOff ==
  /\ mode # "down" /\ mode' = "down"
  /\ cache' = disk /\ ram' = NoRam /\ todo' = <<>> /\ sync' = None
  /\ UNCHANGED <<disk, log>>

\* rfs_log_init: __log_replay, and its commit unless the last record is a mark
Mount ==
  /\ mode = "down" /\ mode' = "replay"
  /\ todo' = If(log # <<>>, ReplaySteps(log) \o <<Flush, Mark(NoRam)>>)
  /\ UNCHANGED <<disk, cache, log, ram, sync>>

FreeOrphans ==
  /\ mode = "replay" /\ todo = <<>> /\ mode' = "orphans"
  /\ todo' = OrphanSteps(cache)
  /\ UNCHANGED <<disk, cache, log, ram, sync>>

\* The mount is over; lookups read the inodes of the live entries.
LiveSlots == {s \in Slot : cache.live[s]}

InodeNoWalk(s) ==                                                          \* mutant
  [st |-> "alloc", slot |-> s, start |-> cache.start[s], last |-> cache.start[s]]

Inode(s) ==
  LET c == Chain(cache.fat, cache.start[s])
  IN [st |-> "alloc", slot |-> s, start |-> cache.start[s],
      last |-> IF c = <<>> THEN TAIL ELSE Last(c)]

Mounted ==
  /\ mode = "orphans" /\ todo = <<>> /\ mode' = "up"
  /\ \E g \in [LiveSlots -> File] :
       /\ \A s, t \in LiveSlots : g[s] = g[t] => s = t
       /\ ram' = [ram EXCEPT !.ino = [f \in File |->
                    IF \E s \in LiveSlots : g[s] = f
                    THEN Inode(CHOOSE s \in LiveSlots : g[s] = f) ELSE NoInode]]
  /\ UNCHANGED <<disk, cache, log, todo, sync>>

Operation ==
  \/ \E f \in File, s \in Slot :
       \/ \E c \in FreeClusters \cup {None} : Create(f, s, c)
       \/ \E g \in File \cup {None} : Rename(f, s, g)
  \/ \E f \in File :
       \/ Unlink(f) \/ Write(f) \/ WriteNoSpace(f) \/ Extend(f) \/ DelInode(f)
       \/ \E n \in 0..Cardinality(Cluster) : Truncate(f, n)
  \/ ForceCommit

Kernel ==
  \/ \E c \in FatIndex : WriteFat(c)
  \/ \E s \in Slot : WriteEntry(s)
  \/ \E f \in File : SyncInode(f) \/ SyncFind(f)
  \/ SyncWrite

Next ==
  \/ Operation \/ Step \/ Kernel
  \/ PowerOff \/ Mount \/ FreeOrphans \/ Mounted

Spec == Init /\ [][Next]_vars

-------------------------------------------------------------------------------
(* Properties.                                                             *)

\* Type invariant.  The candidate list holds the unlinked inodes that have
\* clusters, each once; pre-allocated clusters are distinct.
TypeOK ==
  /\ disk \in Volume /\ cache \in Volume
  /\ ram.ino \in [File -> [st : {"none", "alloc", "free"}, slot : Slot \cup {None},
                           start : Cluster \cup {TAIL}, last : Cluster \cup {TAIL}]]
  /\ ram.segs \in Seq(File) /\ IsInjective(ram.segs)
  /\ ToSet(ram.segs) = {f \in File : ram.ino[f].st = "free" /\ ram.ino[f].start # TAIL}
  /\ ram.writer \in File \cup {None}
  /\ ram.pre \in Seq(Cluster) /\ IsInjective(ram.pre)
  /\ mode \in {"down", "replay", "orphans", "up"}

\* Between two operations the in-core first and last clusters of an inode, from
\* which the next append, truncation or record starts (inode.c, log.c), are the
\* ends of its chain in the FAT: all allocated, shared with no other inode, and
\* followed by the next segment when the file is unlinked.
ChainsAgree ==
  LET inodes == {f \in File : ram.ino[f].st # "none"}
  IN LogFree =>
       /\ \A f \in inodes :
            LET i == ram.ino[f]
            IN IF i.start = TAIL THEN i.last = TAIL
               ELSE /\ \A k \in 1..Len(ChainOf(f)) : cache.fat[ChainOf(f)[k]] # FREE
                    /\ cache.fat[i.last] = IF i.st = "alloc" THEN TAIL
                                          ELSE SegNext(ram, SegIndex(ram, f))
       /\ \A f, g \in inodes :
            f # g => ToSet(ChainOf(f)) \cap ToSet(ChainOf(g)) = {}

\* Behind the log file hang the chains of the unlinked inodes, in the order of
\* the candidate list: it is this chain that the next mount releases, and a
\* deletion cuts its piece out of it by the list (update_segment, log.c).
SegmentsHang ==
  LogFree => Tail(ChainFrom(cache.fat, Log))
            = FlattenSeq([k \in 1..Len(ram.segs) |-> ChainOf(ram.segs[k])])

\* A rfs_sync_inode that raced an unlink or a rename never meets a start cluster
\* of another file, which the code would take for corruption (inode.c:1209).
StartNotCorrupted ==
  LET i == ram.ino[sync.file]
  IN sync # None /\ SyncAllowed(i, sync.slot) /\ i.start # TAIL =>
       cache.start[sync.slot] \in {TAIL, i.start}
===============================================================================
