# A TLA+ model of the FSR flash stack

The repository is a storage stack for OneNAND and Flex-OneNAND flash: the FSR
flash translation layer (`src/fsr`), a read-only subset of it for boot code
(`src/tfsr`) and the RFS FAT file system with a journal (`src/rfs`). It has no
design documents and no tests; what the code promises is said by its comments,
its assertions and its structure. This directory models three layers: the Bad
Block Manager (BBM) of FSR, which everything else rests on; the write path and
the recovery of FSR's sector translation layer (STL); and the journal of RFS.
All three have the same problem: what is in RAM is ahead of what is on
flash, the power may go off between any two steps, and what comes after must
look as if no step had been half done.

`PROJECT.json` lists every component, run, mapping from definitions to source
lines, finding, hazard and theorem. Short names below: `BB` is
`src/fsr/Core/BML/FSR_BML_BadBlkMgr.c`, `MT` is `FSR_BML_BBMMount.c`, `RO` and
`RW` are `FSR_BML_ROInterface.c` and `FSR_BML_RWInterface.c`, all in one
directory. Files of the STL are named without their prefix:
`Open.c` is `src/fsr/Core/STL/FSR_STL_Open.c`.

## Inventory

| Component | State | Operations | Talks to | What makes it correct |
|---|---|---|---|---|
| BML: meta-data store of the BBM (`BB`, `MT`) | three blocks per die (UPCB, LPCB, TPCB), ages, next free page, "may append" flags, reservoir bit map | `_Format`, `FSR_BBM_Mount`, `_UpdateUPCB`, `_UpdateLPCB`, `_AllocPCB` | LLD below; the rest of BBM calls it | a mount finds the newest whole copy of each table after any power loss; a block is never lent twice |
| BML: erase refresh and bad block replacement (`BB`, called from `RO`, `RW`) | Erase Refresh List, Block Map Field table, bit map, REF block | `FSR_BBM_UpdateERL`, `FSR_BBM_RefreshByErase`, `FSR_BBM_ChkRefreshBlk`, `FSR_BBM_HandleBadBlk`, `_RegBMF`, `_GetFreeRB` | the store above; LLD | moving a block never loses its data; translation leads to the block that holds the data; no two blocks share a replacement |
| BML: volume interface and deferred errors (`RO`, `RW`, `FSR_BML_BIFCommon.c`) | per-die log of the previous and next-previous operation | read, write, erase, copy back, `_HandlePrevWrErr`, `_HandlePrevErErr` | LLD reports an error one operation late; BBM repairs it | an error is charged to the operation that failed and its page is written again |
| BML: partitions and protection | partition table, lock state | load PI, lock, unlock, lock-tight, OTP | LLD | |
| STL: write path, log groups (`Write.c`, `MappingMgr.c`, `Read.c`) | active log list, log blocks of a data group, page map, free list | `FSR_STL_Write`, `FSR_STL_WriteZone`, `FSR_STL_GetLogToWrite`, eviction of an active log, merges, `FSR_STL_ReadZone` | BML; STL meta-data; buffer block | the newest version of a sector is the one a read returns, before and after a power loss |
| STL: meta-data and open (`MetaMgr.c`, `Open.c`, `Close.c`, `Format.c`) | root, directory, context, BMT and PMT pages with CRC | store, reclaim, `FSR_STL_OpenZone` with its scans, `FSR_STL_FlushAllMetaInfo` | BML; all of STL | an open brings back what was there before the power loss |
| STL: buffer block, delete, GC, wear levelling, defragmentation (`BufferBlkMgr.c`, `Delete.c`, `GCMgr.c` ...) | the buffered page, pending deletes, victim lists, erase counts | `FSR_STL_WriteSinglePage`, `FSR_STL_FlushBufferPage`, `FSR_STL_DeleteZone`, the rest per function | log groups and meta-data | an incomplete page in the buffer block is found again, or given up, exactly when its log lacks or has it; a block is reused only when nothing on flash refers to it |
| RFS journal (`log.c`, `log_replay.c`, `fcache.c`) | circular log file, transaction record, pre-allocated clusters, segments of unlinked files | `rfs_log_start`, `rfs_log_end`, undo and redo records, replay at mount | block device; FAT operations | a mount sees each transaction whole or not at all, and loses no cluster |
| RFS FAT operations (`cluster.c`, `dos.c`, `namei.c`, `file.c`, `inode.c`) | FAT chains, directory entries, inodes | create, unlink, rename, write, truncate, extend, `rfs_sync_inode` | journal, fcache | chains, entries and in-core inodes agree |
| LLD drivers | controller registers | program, erase, read, flush | hardware | taken as given |
| OAM, PAM | semaphores, addresses | kernel wrappers | kernel | taken as given |
| Linux block drivers | request queues under `fsr_mutex` | serial request loop | BML, STL | taken as given |
| TinyFSR | as BML, read only | mount, read | LLD | reads what BML wrote |

How they interact: every call from the block drivers takes `fsr_mutex`, and every
BML call takes the volume semaphore, so calls to FSR do not interleave; what
does interleave is the flash. A call is a sequence of page programs and block
erases, each of which may fail, and the power may go off before, after or in the
middle of each. A mount sees the flash only. That is where the hard behaviours
of this code are: torn pages, notes on flash that must precede the step they
protect, error paths that call the same update code again, and tables in RAM
that are ahead of the tables on flash. In RFS two more actors
come in: the kernel writes back any dirty buffer whenever it likes, and it
calls `rfs_sync_inode` without the log mutex.

## What is modelled now

| Module | Models |
|---|---|
| `DurableMeta` | abstract: two tables with a version in RAM and a version on flash; updates are atomic and durable when they return |
| `PcbStore` | the store: pages, headers with ages, append or rewrite on the spare, replacement of a failing block, mount |
| `PcbStoreRefinement` | `PcbStore` implements `DurableMeta`; "on flash" is what a mount of the present pages would load |
| `PcbStoreProofs` | theorems about `PcbStore`, and the refinement |
| `MCPcbStore` | values for TLC |
| `EraseRefreshList` | the Erase Refresh List as the code keeps it: an array with holes and a separate count |
| `EraseRefresh` | refresh by erase, recovery at open, bad block replacement, and the calls that start them |
| `EraseRefreshProofs` | theorems about `EraseRefresh`: types, the reservoir, no data is lost, the list and its count |
| `StlBuffer`, `MCStlBuffer` | one zone of the STL: writes to log blocks and to the buffer block, deletes, eviction of active logs, close, and the open that scans what the stored maps lack |
| `StlBufferProofs` | theorems about `StlBuffer`: types, the room for the flush |
| `StlBufferSecuredProofs` | theorems about `StlBuffer`: what was secured stays, and between calls nothing depends on the RAM |
| `RfsFiles` | abstract: a file system whose files change by whole operations |
| `RfsJournal` | the transactions of RFS, the FAT and directory changes they protect, write-back, power loss, replay and release of orphans |
| `RfsDurability`, `MCRfsJournal` | what the journal promises: recovery to the last commit point, and the refinement of `RfsFiles` |
| `RfsJournalProofs` | theorems about `RfsJournal`: types, the entries of the inodes; what chains and the replay of a log are |
| `RfsDurabilityProofs` | lemmas: each operation leads from one sound volume to the next, and the log restores the first at every step |
| `RfsRecoveryProofs` | theorems: what a mount recovers, the chains and the candidate list |
| `RfsLogRing` | the circular log file: where records go, and the search of the mount |
| `RfsLogRingProofs` | theorems about `RfsLogRing` |

`EraseRefresh` extends `EraseRefreshList`. It writes its tables to flash in one step
(`StoreTables`): that step is what `PcbStore` justifies through `DurableMeta`
when the blocks of the store itself do not fail.

### PcbStore

One die. A block is an array of pages; a page is free, junk (torn,
uncorrectable or user data), a header, a body or a confirm page. The header
carries both ages, the spare's number, and an abstract of the tables of the set:
a version, the replacement blocks, the bit map. A meta set has `MetaPgs` data
pages and a confirm page.

The variables keep the code's roles: `pcb`, `tpcb`, `next`, `age`, `gage`,
`keep`, `first` are the fields of `BmlReservoirSh`; `alloc` is `pBABitMap`.
`Begin` is the entry of `_UpdateUPCB` or `_UpdateLPCB` with its choice between append
and rewrite; `EraseOK`/`EraseFails` are the erase of `_MakeUPCB`/`_MakeLPCB`;
`ProgramOK`/`ProgramFails` are one turn of the page loop of `_UpdateMetaData`;
`Relocate` is what follows an error: `_AllocPCB` (`AllocPCB`), then `_RegBMF`
(`RegBMF`); `Retire` is `_MakeBadBlk` with `_DeletePcb`. `Mount`
reads `View`, which is written as functions of the flash: `HdrBlks` and `Newest`
(`_ScanReservoir`), `LastConfirmOff`, `ValidOff` (`_FindValidMetaData`),
`Locate` (`_Mount`), `Loaded` (`_LoadMetaData`). `Init` is the state after `_Format`
and a mount.

A replaced PCB is a bad block like any other, so the code gives it a Block Map
Field: the new PCB is the replacement block that field names. `bmf` holds these
fields; `rbn[t]` holds the replacement blocks of the user's fields in table t. A PCB
belongs to no partition, so its fields are written with the UPCB (`Unlocked`).
All fields share one table of `MaxBMFs` (`BMFRoom`). With the table full, an update
that has just replaced its PCB ends in `FSR_BML_CRITICAL_ERROR`, as it does with no
free block: `pc = "dead"`, the flash left as it is, and the model ends there. `HandleBadBlk` goes on instead, and
the field is lost (`Begin`). When a PCB fails that is a replacement itself, `RegBMF`
keeps the chain as the code does: the loop of a failed append names the block that failed
last, the loop of a failed rewrite always the first one (`Failed`).

Two details are kept because they look wrong and need an argument:
`_UpdateLPCB` clears `bKeepUPCB` on its first update, not `bKeepLPCB`
(`BB`:3590); and the bit map is written with the UPCB only.

### EraseRefresh

One plane of one die; a block holds one page of data. `data` is the flash; `disk` are
the tables a mount would load; `erl`, `bmf`, `rb`, `ref` are the same tables in
RAM. `pc` names the next flash operation and `who` the caller: `"run"` a refresh
in use, `"open"` the refresh of `FSR_BML_Open`, `"chk"`
`FSR_BBM_ChkRefreshBlk`, `"user"` an erase or write. The steps are those the
source numbers:

1. erase the REF block (`EraseREF`),
2. copy the block to it (`CopyOut`),
3. note COPIED in the list on flash (`StoreCopied`),
4. erase the block (`EraseOrg`),
5. copy back (`CopyBack`),
6. take it off the list on flash (`Remove`, `StoreDone`),
7. erase the REF block at the end (`EndLoop`, `EraseREFLast`).

Any erase or program that fails calls `FSR_BBM_HandleBadBlk`: `HbTake` takes a
reserved block and registers it, `HbStore` writes the tables, `HbMark` marks the
bad block and lets the caller look its block up again; `HbNoRsv` is the empty
reservoir. After a failed erase of the user, `_HandlePrevErErr` erases the new
block once (`UserReErase`).

A refreshed block goes through COPIED on flash because after step 4 the REF block
is its only copy; an open that finds COPIED starts again at step 4.

`Opens` says how the volume is opened: with the refresh of some or all listed
blocks, or without (`FSR_BML_FLAG_DO_NOT_REFRESH`). `want` is a history variable:
the blocks whose data the user has not erased.

### StlBuffer

The STL writes a page either to the active log block of its data group or, when
it is the last, incomplete page of a sequential write (or an overwrite of what is
buffered already), to the buffer block, one block of the zone that holds such
pages one behind the other. The last of them is *the* buffered page; it is
flushed into its log before another takes its place.

On flash are `pages` (the newest log block of each group), `active` and
`storedBBlk` (the context page: active logs and buffer block), `stored` and
`pmt` (the map of each group and how far into its log that map goes) and `bblk`
(two blocks that take turns as buffer block). In RAM are `map`, `cp`
(`nCPOffs`), `buf` (`STLBUCtxObj`), `unscanned` (`abInitActLogDgn`), `delGrp`
(`nDelPrevDgn`) and `op`, the call in progress. The contents of a page are the
numbers of the writes that put its sectors there, so "older" means something.

A call is a chain of steps, each with at most one program on flash:

| Code | Actions |
|---|---|
| `FSR_STL_Write`, `FSR_STL_WriteZone` | `BeginWrite` (one zone call per block of the request), `WriteStart`, then per page `WriteTakeLog`, `WriteLogPage` or `WriteToBuffer`, `WriteBufferPage`, `WriteStoreBMTCtx`; `ReserveForFlush`, `EndOfGroup` |
| `FSR_STL_FlushBufferPage` | `FlushTakeLog`, `FlushPage` (from a write, delete, eviction, close or open: `flushing`) |
| `FSR_STL_MakeRoomForActLogGrpList` | `EvictFlush`, `EvictStore` |
| `FSR_STL_DeleteZone`, `FSR_STL_StoreDeletedInfo` | `BeginDelete`, `DeleteInvalidate`, `DeletePage`; the store is deferred to the next write, read, close or delete in another group (`StoreDeletedInfo`) |
| `FSR_STL_CloseZone`, `FSR_STL_FlushAllMetaInfo` | `BeginClose`, `CloseStart`, `CloseErase`, `CloseStore`, `CloseDone` |
| `FSR_STL_OpenZone` | `BeginOpen` (`ScanBufferBlk`), `OpenFlush`, `OpenErase`, `OpenStore` |
| `FSR_STL_ScanActLogBlock`, `_MakeActivePMT` | `Scan`, whenever a call first needs a log (`ToScan`) |

`Read` is what `FSR_STL_ReadZone` returns. A page whose program the power
interrupts is `Torn`; it is always the last one, because the scan closes the log
and makes the read error permanent (`_ForceToCorruptPage`). The scan trusts the
pages of a log up to the last *confirmed* one: a page with a confirm mark in its
spare area, or the last page if the buffered page follows it.

Left out: merges, compaction, garbage collection and wear levelling (they move
pages without changing what a sector reads as; free blocks are always there),
the order of the free list, program errors, LSB backup on MLC, several ways,
groups of several blocks, read-only opens, the reclaim of meta-data. A stored
map and the context it comes with are one atomic step, an erase is atomic.
`FSR_STL_WriteBufferMgr.c` is compiled out (`OP_SUPPORT_WRITE_BUFFER` is 0).
Deletes are of one whole page that is never buffered (`Deletable`): see
the limits below.

### RfsJournal and RfsDurability

An operation of the file system runs under the log mutex. It is one action that
lays down its elementary steps in `todo` (a FAT write, a change of a directory
entry, a log record, a flush, a mark); `Step` runs them one at a time. Between
any two, the kernel may write back one dirty FAT block or entry (`WriteFat`,
`WriteEntry`), call `rfs_sync_inode`, or the power may go off. `disk` is the
device, `cache` what the caches show, `log` the records since the last mark,
`ram` the inodes, the list of candidate segments, the open WRITE transaction and
its pre-allocated clusters.

- A WRITE is not committed when it ends: `__commit_deferred_tr` commits it when
  another transaction starts (`CommitDeferred`), so one undo chain spans several calls.
- The chain of an unlinked file that is still open is hung behind the log file
  (`MoveChain`); a mount releases what hangs there (`OrphanSteps`).
- A truncation or deletion of many clusters is a group of redo records, freed
  piece by piece after the whole group is on the device (`FreeGroup`).
- A mount undoes or redoes the records of the open transaction (`ReplaySteps`),
  may be cut short itself, and starts again from the same records.
- `rfs_sync_inode` finds the entry of an inode before it takes the lock. It is
  one step (`SyncInode`) unless an unlink or rename takes the entry away in
  between (`SyncFind`, `SyncWrite`); while such a call is pending only operations
  that may give the entry to another inode are let in.
- `Truncate` also stands for the repair that a lookup makes in `rfs_fill_inode`
  when a chain is longer than the size says.
- A sector with the kind NONE acts as a mark, a chunk is one cluster, and
  `NOT_ASSIGNED` is `CLU_TAIL`.

`RfsDurability` adds the history variable `files`, which moves at the commit
points alone (a mark, or the last record of a truncation), and the operator
`Recovered(d, l)`, what a mount makes of a device `d` with the log `l`.

Left out: extended attributes (not configured), I/O errors, read-only mounts,
names, sizes and times, the growth of directories.

### RfsLogRing

`RfsJournal` takes the log as the sequence of records since the last mark.
`RfsLogRing` is about why it may: a ring of `N` sectors with sequence numbers,
written one at a time or in groups, and a mount that searches for the last one
(`SearchMax`) and walks back from it. The sectors of a group reach the device in
the order they are handed to the block layer. The creation of the log file is
modelled with its entry and its cleared sectors reaching the device in any order.

## What the runs show

| Run | Question | Size |
|---|---|---|
| `power_loss` | power off at any point of any update, twice, no flash errors: always mountable, nothing that returned is lost, pages never programmed twice, `DurableMeta` is implemented | 263 thousand states |
| `write_errors` | program and erase errors; a PCB is replaced, the replacement fails, no block is free, the table of Block Map Fields is full; power off at rest | 112 thousand |
| `refresh` | refresh with erase errors and a power loss anywhere, disturbances while the list has holes | 1.4 million |
| `all_faults` | erase and program errors, full mapping table, empty reservoir, locked-tight blocks, opens without refresh | 282 thousand |
| `buffer` | writes, deletes, evictions, closes, lazy scans and two power losses anywhere: reads before and after a loss agree, nothing secured goes back, the flush has its page | 673 thousand |
| `journal` | every operation, any order of write-back, power loss also in a replay: a mount gives the files of the last commit point | 212 thousand |
| `log_ring` | several laps of the ring with crashes at every write: the search finds the last record | 952 |

Five more runs show a disagreement between the code and what it says of itself:

- `locked_relocation`: a replaced LPCB is free in the bit map the next mount loads.
  The bit is set in RAM only, and only the UPCB carries the bit map.
- `copy_back_fails`: an error in the copy back takes the entry COPIED off the list on flash
  before the data is back. A power loss then loses the block.
- `copy_back_remapped`: `FSR_BBM_RefreshByErase` hands the physical block to
  `FSR_BBM_HandleBadBlk` where the parameter is the block's own address (its
  sibling `FSR_BBM_ChkRefreshBlk` does that right); for a block that had been
  replaced, the mapping then goes wrong.
- `list_creeps`: an entry is written behind the last cell of the list, because
  entries are added at the end, removed in place, and the test for "full" counts
  entries.
- `buffer_stale`: a delete of page 0 flushes the buffered page 1 and forgets it in RAM, not
  in the buffer block. With that block full, the close does not erase it. Page 1
  is then written again, to the log; the next open finds the old page 1 newest
  in the buffer block, flushes it, and the read returns the older sector.

Limits met on the way are recorded as hazards and not as findings, since no
comment claims otherwise. After the loop of step 4 ran out of reserved blocks, the
loop over the list goes on to the next entry and erases the REF block, the only
copy of the previous one: `DataSafe` fails when `Refresh.cfg` gets one reserved
block less. A program error in an append, followed by a power loss while the set
is rewritten in a new block, leaves no mountable table. Likewise, an update that
gives up after it has replaced its PCB once leaves an older table or none, since
`_MakeBadBlk` has destroyed the old block: `GivesUpWhole` is about the first error.

In the STL there are three. The scan takes the last page of a log for the flush of
the buffered page whenever both are of one logical page, also when the buffer was
written later; the newer sectors are then given up (`Masked`). A page in front of
a buffered one has no confirm mark of its own and is confirmed by being the
last of its log; when the *next* program there is torn, it is rolled back although
its write had returned. And `FSR_STL_DeleteZone` neither flushes nor drops the
buffered copy of the page it deletes: with a page that is buffered in `Deletable`,
`AtRestDurable` fails.

In RFS, a power loss while the log file is created can leave a file whose
sectors still hold what was there before; the mount then fails or replays it. The
properties of `RfsLogRing` are about a file that one mount has made (`made`).

### The properties

- `AlwaysMountable`, `RestRestores`: what a mount finds now, at every step; at
  rest it restores roles, versions, replacement blocks, the fields of replaced PCBs
  and the bit map.
- `GivesUpWhole`: an update that gives up on its first error has swapped the roles in RAM for
  nothing; a mount still finds the other table as it was, and this one before or
  after the update.
- `NewestIsUnique`: ages tell blocks with the same signature apart.
- `ProgramsErasedPages`: nothing is programmed behind a torn set.
- `LiveBlocksAllocated`: the PCBs, the replacement blocks of the user's blocks and the
  replaced PCBs are distinct, and all of them are marked, with every block a field
  names.
- `ImplementsDurableMeta`: refinement, with `disk` = the versions in `View`.
- `DataSafe`: at every step, the tables on flash lead to the data of every block.
- `AtRestReadable`: in use, translation leads to the data.
- `NoSharedBlock`: translation never leads two blocks to one, in RAM or on flash.
- `CallsReturn`: every call ends.
- `ERLCountMatches`, `ListedOnce`, `ERLInBounds`: the list, its count and its array agree.
- `AtRestDurable`: between calls, what a read returns is what an open after a
  power loss would bring back (`Recovered`), for every page whose log has been scanned.
  Left out by name are a delete not yet stored, `Stale` (the case of
  `buffer_stale`) and `Masked`.
- `SecuredSurvives`: `secured` holds, per sector, the newest write that a
  confirmed log page, a stored map or a named buffer block has held; no read between
  calls returns an older one, whatever calls the losses cut short. `reverted`
  names the pages that the two cases above have taken back.
  `GivenUpNotFlushed` is the same without that exception.
- `FlushHasRoom`: between calls the log of the buffered page is active and has a
  free page, so the flush that an eviction, a close or a delete starts takes none.
- `RecoversCommitted`: at every step, whatever was written back, a power loss and a
  mount give exactly the files of the last commit point.
- `RecoversSound`: and a volume without shared, circular or lost clusters.
- `ImplementsRfsFiles`: each commit point is one whole operation of `RfsFiles`.
- `ChainsAgree`, `SegmentsHang`: in-core first and last clusters and the segment list
  say what the FAT says.
- `StartNotCorrupted`: the race of `rfs_sync_inode` never looks like corruption.
- `SearchFindsNewest`, `WalkReturnsOpen`, `PositionFollows`: the search, the walk
  back and the position after a mount.

Each property of a passing run has a mutant in `PROJECT.json`: a plausible bug of
one definition, under which TLC finds the property violated.

### Bounds, and why they are enough

- `PcbStore`: `MetaPgs` = 2 gives a header, a body and a confirm page, so a set can be torn
  in each of them. `PgsPerPCB` = 6 holds two sets: first set, append, full.
  `MaxVer` = 3 updates per table fill the block and rewrite it, and a rewrite
  follows a rewrite. Two power losses catch the recovery of the first. Rsv of
  4 leaves one block for a replacement; `write_errors` has 7 and two failures,
  so the replacement itself may fail. `MaxBMFs` = 3 is smaller than the
  code's table (3/2 of the reservoir, `BB`:4809): with four spare blocks either the table
  or the reservoir is used up first. In `power_loss` the environment brings in replacements for table
  U only (`Remaps`): locked-tight blocks are neither written nor erased, so nothing
  asks for a replacement, and `rbn["L"]` stays empty. What `LiveBlocksAllocated` says of
  it holds trivially there and in its theorem.
- `EraseRefresh`: two user blocks are the least that share a list, a REF block and a
  reservoir. Three disturbances make holes in the list while
  it is in use. Two erase failures let a replaced block be replaced again.
  `all_faults` has more faults than reserved blocks, so the reservoir runs out.
  `MaxItem` = 2 or 3 stands for 127.
- `StlBuffer`: two groups and one place in the active list, so that every change of
  group evicts a log. Two pages of two sectors per block: a log fills
  and is replaced within one request, a page is half in the log and half in the buffer.
  Two pages in the buffer block: it fills and turns over. The requests of
  `MCStlBuffer` are those that tell the paths apart: a full page with and without half of the next,
  each half of a page, and one across the border of two groups. Three writes
  let a page be buffered, flushed and overwritten; the second power loss cuts
  the recovery from the first.
- `RfsJournal`: three clusters and three entries, so that a rename has a source, a
  target and a bystander; two inodes, so that a segment has a neighbour;
  pre-allocation of two clusters, groups of two records with one chunk each.
  Nothing else is bounded: operations, write-backs and power losses go on forever.
  Clusters, entries and inodes are symmetric; no definition tells one from
  another except by a CHOOSE with one candidate.
- `RfsLogRing`: four sectors, groups of two, transactions of up to three records;
  13 sequence numbers are three laps. At the last number the model stops, and
  a mount that failed is not tried again, so deadlock is not checked.
- `MaxDisturb`, `MaxEraseFail`, `MaxProgFail`, `MaxOff`, `MaxVer`, `MaxFail`
  bound the environment. They appear only in guards of the actions that count
  them. When the environment is used up the system stops, which is why the BBM
  configurations do not check deadlock; `CallsReturn` shows that a call never stops half way.

### Fairness

Safety needs none, and `StlBuffer`, `RfsJournal` and `RfsLogRing` state none: what
they promise is safety. That a call of the STL does not get stuck half way is checked in
`buffer` as the absence of deadlock: once the power losses (`MaxLosses`) are used up
a stuck call is a state without successor. In RFS the steps of an operation need
no condition to run. `CallsReturn` is checked under `FairSpec`, weak fairness of
`Step`: a call runs in its caller's thread, holds the volume semaphore to its
end, and every flash operation is polled with a result. Users, faults, power and
mounts have no fairness.

## What is proved

Every theorem holds for all values of the constants that satisfy the named
assumptions of the module (`BlockAssumption`, `LimitAssumption`, `CountAssumption`,
`MaxItemAssumption`, `SizesAssumption`, `RingAssumption` ...) and the hypothesis named
with it. The inductive invariants were checked by TLC on small instances before they were
proved, except `InCourse`, which quantifies over courses of points: there only what
follows from it was. Where a hypothesis is listed TLC has shown what happens without it.

### The reservoir (`EraseRefreshProofs`, no hypothesis)

- `TypeCorrect`: `Spec => []TypeOK`.
- `BlocksNotShared`: `Spec => []NoSharedBlock`.

The user blocks and the reservoir are disjoint sets of positive
numbers, the first REF block is reserved, the limits are numbers.

`NoSharedBlock` is not inductive. `_RegBMF` also lets a replaced *reserved* block
lead to its successor, and the REF block is replaced through the same table, so
the table may hold chains whose start is no user block. The strengthening `FamilyInv`
says that there is a set F of reserved blocks, those that are or were the REF
block and their replacements, such that the table never leads into F from
outside or out of F; that the block the running call works on is outside F; and that the call of
`FSR_BBM_HandleBadBlk` under way is for the REF block or a block outside F. The same holds
of the tables on flash, with a set F of their own. `FamilyTake` shows that one replacement keeps it
(the new block joins F exactly when the replaced one is in F), `FamilyHbTake`,
`FamilyHbMark` and `FamilyMount` do the three actions that change the tables,
and `FamilyOtherSteps` the rest.

### The data (`EraseRefreshProofs`, hypothesis `Careful`)

- `RefreshLosesNothing`: `Spec => []DataSafe`.
- `ReadsBack`: `Spec => []AtRestReadable`.

`Careful` says that no program fails, that no open skips the refresh, and that the
reservoir has more blocks than erases fail. Each part is needed: a program error in
the copy back loses a block (`copy_back_fails`, `copy_back_remapped`), an open that
skips the refresh puts a volume in use whose only copy of a block is in the REF block, and an
empty reservoir lets the loop erase that copy. The number of failing erases, of
disturbed reads and of power losses is not bounded otherwise.

The invariant `DataInv` has six parts. `Content` is the argument: until the list
on flash says COPIED every block is in its place (`Whole`); from then until the list on
flash is cleared, every block but one is, and that one is in the REF block that
the tables on flash name (`Standing`). `Located` says that the locals of the call point at
the entry and the block they are about, `Called` that `FSR_BBM_HandleBadBlk` marks nothing
that is needed, `Synced` which table in RAM is the one on flash, `Calm` which branches
cannot be taken, and `Counted` that each block taken from the reservoir answers one failed
erase, so one is left for the next. That no step for one block hits another rests on
`FamilyInv`.

### The list (`EraseRefreshProofs`, hypothesis `ProgramsHold`)

- `CountRight`: `Spec /\ []ERLInBounds => []ERLCountMatches`.
- `EntriesDiffer`: `Spec /\ []ERLInBounds => []ListedOnce`.
- `FitsUntilFull`: with at most `MaxItem` disturbed reads,
  `Spec => [](ERLInBounds /\ ERLCountMatches /\ ListedOnce)`.

`ProgramsHold` says that no program fails (else an entry leaves the list twice:
`FSR_BBM_HandleBadBlk` takes it off, and step 6 counts it off again) and that the array has fewer than
65536 cells. Erases may fail, the reservoir may run out, an open may skip the
refresh. `[]ERLInBounds` cannot be dropped: `list_creeps` shows a write behind the last cell, and then
the count is wrong. `FitsUntilFull` shows that the two hypotheses are consistent.

The invariant `Good` adds to the two properties that a slot out of use is empty
altogether (`Clean`): `Entries` tests the whole slot, the other loops test `nSbn`. `Pointed` says
that the slot the running refresh is going to empty still has its block.
`LastIs` is the pigeonhole argument behind the scan for the last entry: it
starts at `nCnt - 1` and yet misses no entry. `PackUsed` and `GoodPack` are about the pack:
ranks grow with the slots and no two entries have the same one, so no entry is lost or
doubled. `Reach` bounds how far the list extends.

### The meta-data store (`PcbStoreProofs`, hypothesis `NoFaults`)

- `TypeCorrect`, `LentOnce` (`LiveBlocksAllocated`), `ErasedFirst` (`ProgramsErasedPages`),
  `MountNeverFails` (`AlwaysMountable`), `MountRestores` (`RestRestores`),
  `NewestDecided` (`NewestIsUnique`).
- `Durable`: `Spec => ImplementsDurableMeta`.

`NoFaults` says that no program and no erase of a block of the store fails, and that
only the UPCB names new replacement blocks: the bit map is written with it alone. No
PCB is replaced then, `bmf` stays empty and `LentOnce` is about the three PCBs and the
replacement blocks of the user; the replaced PCBs are model-checked (`write_errors`). The
power may go off anywhere, any number of times, also in the middle of a page. With
failures two of them are not true: a replaced LPCB is free in the bit map that the next mount loads
(`locked_relocation`), and a program error in an append followed by a power loss
leaves no mountable table.

The invariant speaks of the flash and not of the calls: `Stable` says that each
table has whole sets in its block with the last one where the call left it, and that the spare starts with
something that is too old to matter or leads back to the same two blocks.
`ViewIs` shows that a mount of such a flash takes exactly those roles and loads those
sets; the lemmas after it show that a page programmed, torn, or erased keeps the flash
stable. `Inv` adds what RAM knows of it: `Lent` (blocks in use are distinct and
marked), `Tails` (erased pages behind the next free one), `Up` and `Restorable`. The
refinement (`InvR`) adds `disk = Versions(View)`: the step that moves the abstract
version is the confirm page of a set, every other step of an update is a stutter.

### The write path (`StlBufferProofs`, no hypothesis)

- `TypeCorrect`: `Spec => []TypeOK`.
- `FlushRoomReserved`: `Spec => []FlushHasRoom`.

`FlushHasRoom` speaks of the moments between calls only, and even its types depend on more
than types: a page fits in its log because `nCPOffs` is where the log ends. `Ends` says so, of a
log out of use by the map on flash and of a scanned log by the one in RAM, and `BufEnds` of the
buffer block. `Ranged` keeps a write within its request and, page by page, within
one group; `Phases` says what each step of a call may rely on (a close stores when
every log is scanned and nothing is buffered, a deferred delete waits for a log
that is scanned). `Room` extends `FlushHasRoom` to the middle of a call: the page is
reserved, or the running write is still in the group of the buffered page and
passes `ReserveForFlush` before it leaves. An eviction and a close never take the log of a dirty buffered page, and the
store of a delete frees a log only if it has no page left.

### What was secured stays (`StlBufferSecuredProofs`, hypothesis `DeletesUnbuffered`)

- `SecuredCorrect`: `Spec => []SecuredSurvives`.

`DeletesUnbuffered` says that no request ends in the middle of a page that
`FSR_STL_Delete` may be called for, so that such a page is never in the buffer
block. It is a condition on the caller and not one the code checks: a delete drops neither
the buffered copy in RAM nor the one on flash (the hazard at `FSR_STL_Delete.c:524`),
and then the invariant below is false, though `SecuredSurvives` may still
hold. TLC has not seen it violated without the hypothesis, on the bounds of
`buffer` with page 1 deleted instead of page 0, on pages of three sectors
(137 thousand states), and in a search of 12 million states with all pages
deleted that was not complete. `buffer` itself satisfies the hypothesis.

`SecuredSurvives` compares what is read with a history. The invariant `Kept` says
where on flash that history is. For every page an open has not reverted:

- `Rising`: in the log of its group a later copy is newer than an earlier one and than
  the stored map. A write reads what it does not overwrite, so this rests on
  `Newest` and on `Past` and `ToCome` (nothing is newer than the running write, and what that write
  has still to reach is older).
- `Safe`: what was secured is in the stored map or in a page of the log that a
  scan will take over (`Marked`: confirmed, or one behind it is), or else the page
  is the one in the buffer block of the stored context (`Old`).
- `Mapped`, `Traced`, `Newest`, `Covered`: the map in RAM of a scanned group has what was
  secured, has nothing that is not on flash, and is as new as all of its log while it is
  written, or as all that a scan would find once it is closed.
- `OldKept`: the page in the buffer block on flash is in the log, or it is newer than every page
  of the log (so the scan must not mistake it for one it has found); and while the zone is open
  it is in the log or still buffered in RAM.
- `BufNewest`, `BufTops`, `BufClean`: the same for the buffered page in RAM.

`Place` ties the buffered page to the block it is in, through the change of the block, the flush and
the store of the context; `Calls` says what each step of a call may rely on. The
steps fall into families with a lemma each: a map is stored (`Stores`), a page goes to a log
(`Programs`), a page goes to the buffer block, the buffered page is given up
(`Forgets`), a scan, and the power loss, after which `Rising`, `Safe` and `OldKept` are
all that is left.

### Between calls nothing depends on the RAM (`StlBufferSecuredProofs`, hypothesis `DeletesUnbuffered`)

- `AtRestCorrect`: `Spec => []AtRestDurable`.

Here the hypothesis cannot be dropped: with a buffered page that may be deleted TLC finds
`AtRestDurable` violated (the copy in the buffer block comes back).

`Kept` says how old things may be; this property says that two pages are equal, so it needs
the map itself. The invariant `Durable`, on top of `Inv` and `Kept`, says of each group that has been
scanned and has no delete to store:

- a log that is not in the active list is in the stored map altogether (`MapStored`);
- the map of an active log is the stored one with the pages up to the last confirm
  mark (`Settled`), or with all of the log (`Pending`) while its last page, which has
  no mark, is the one in front of the buffered page (`Hangs`) or in front of the page the
  running write is about to program (`Writing`).

`Recovers` shows that this is what `RecoverTo` distinguishes: a scan takes the last page
without a mark exactly when the buffered page is its neighbour. So a `Settled` log must not end in
front of the page in the buffer block, of the context on flash or in RAM, and one that can still be written must
not end without a mark (or the next mark would confirm what the map lacks): the
second half of `Settled`. `Borders` says that the page without a mark is never
the last of its group, which keeps a log from hanging on another group's page. `BufAbove` says that a
dirty page is no older than the map, reverted or not; with `Room`, which keeps its log open, it follows that a page of
the log that passes for the flush of the buffered one is equal to it unless it was `Overtaken`.

The steps fall into the families of `Kept`: a store makes its group `Settled` with nothing
behind the map (`StoredFollows`), a program makes it `Settled` or `Pending` (`ProgramDurable`), a
scan is `Recovers`, and `StillFollows` does the groups a step is not about.

### The journal (`RfsJournalProofs`, no hypothesis)

- `JournalInv`: `Spec => []JInv`, the inductive invariant.
- `TypeCorrect`: `Spec => []TypeOK`.
- `StartsMatch`: `Spec => []StartNotCorrupted`.

`TypeOK` needs the types of what is planned and of what was logged: a step left in `todo` carries
the in-core state it will set, and a mount makes its steps from the records. `Types` states them, and
the lemmas up to `OrphanStepsType` show them of every list of steps the operations
and the replay lay down, whatever the length of a chain and the size of a group. `RamOK` is
what a step keeps of the candidate list: `ListAppend` and `ListRemove` are the two ways it changes.

`StartNotCorrupted` compares an inode in RAM with an entry on the volume at a moment when an
operation may be half done. An operation changes the inodes at most twice: a rename over a file sheds the
inode it replaces, then every operation turns to its new inodes. So `TurnsBy` cuts what is left of an operation in four,
`a` before the change, `m` the inode shed, `x` the change, `b` behind it, and says what may
stand in each:

- in `a` the start clusters of the old inodes go to their entries, or an entry no
  inode owns yet gets the start cluster of the inode that will own it (`Leading`);
- in `b` the start clusters of the new inodes go to theirs (`Calm`);
- an entry that will have an owner is up to date when the change comes, or the first
  step behind it writes it: a truncation to nothing (`Settles`).

`Entries` adds `Distinct` (no entry has two inodes; a create or a rename takes an entry that
is not live, and `AllLive` says that an inode in use has a live one) and `Agrees`, from which the
property follows. There is a lemma per operation that its plan has this shape (`CreatePlan`, `UnlinkPlan`,
`RenamePlan`, `DelInodePlan`, `WritePlan`, `ExtendPlan`, `TruncatePlan`),
`TurnsStep` and `QuietStep` show that it keeps it step by step, `SyncKeeps` that a `rfs_sync_inode`
in between disturbs nothing, and `MountedInv` that the inodes a mount reads from the live entries
are `Distinct` and `Agree`.

### Recovery (`RfsDurabilityProofs`, `RfsRecoveryProofs`, no hypothesis)

- `CommittedRecovered`: `SpecD => []RecoversCommitted`; `RecoveredSound`: `SpecD => []RecoversSound`.
- `ChainEndsAgree`: `Spec => []ChainsAgree`; `CandidatesHang`: `Spec => []SegmentsHang`.

The proof compares a volume with the one a mount would come to, place by place: a place is an
index of the FAT, the liveness of an entry or its start cluster (`Spots`). `Agree(v, b, m)` says that v
holds what b holds outside of the places m; `Restores(l, b, m)` that replaying the log l
makes b of every volume that agrees with b outside of m. That is the heart: which blocks the device
has got does not matter as long as they differ from b in m only, and a replay
cut short differs in no other place, since it writes in m only.

A point in the course of an operation (`Point`) is the volume in the caches, the log, the
in-core state, b and m. `Sane` says that the log restores b and that b is sound: the chains
of its entries, and the one behind the log file, are disjoint, end, and cover the used clusters.
`StepTo` is what one step may do to a point: change a place of m (the record that covers it
comes first), flush, add a record, which widens m or, at the end of a group of deallocations, moves b,
or mark, which makes b the volume of the caches. `Reach` is a course of such steps.

`Shape(v, r, K)` describes a volume between two operations: the chains K of the inodes
lead from their first to their last cluster, those of the unlinked ones one into the
next in the order of the list, and behind the last comes the end. There is one lemma per
operation that its plan leads from a shape to a shape (`CreateReaches`, `UnlinkReaches`,
`RenameReaches`, `ExtendReaches`, `WriteReaches`, `TruncateReaches`, `DelInodeReaches`,
`CommitReaches`), and one for the mount, which replays, marks, frees what hangs behind the log and
builds the inodes from the live entries. Deallocation is the long case: a chain goes in groups of
records, each of which says what is left to free when it is the last one found. `InCourse` says that the
state is at such a point with the rest of the operation before it, or lost its power at one; `NextOn` is
its induction step, and the four theorems follow from it.

A chain is a recursive function of the FAT. The proofs do not compute it: `Trail(fat, p, e)`
says that p leads to e, and `ChainTrail` that a sequence of different clusters that leads to
the end is the chain. That, and every other fact about a recursive function here, goes by a least
counterexample (`WFMin`).

### The ring of the log (`RfsLogRingProofs`, no hypothesis)

- `TypeCorrect`, `SearchCorrect` (`SearchFindsNewest`), `WalkCorrect`
  (`WalkReturnsOpen`), `PositionCorrect` (`PositionFollows`).

`Ring(s, h, t)` says which sequence number each sector has when the next record is number t
and goes to sector h: they rise up to h, and behind it are those of the lap before. From it follows where
the search ends, for every size of the ring and of a group; `Chain` follows the records of
the open transaction backwards. The theorems are about a file that one mount has made (`made`), as the
invariants are.

### Model-checked only

- `ImplementsRfsFiles`: the volume a record or a mark leads to is known from the proof of
  `CommittedRecovered`, but not that each such change is one action of `RfsFiles`.
- `GivesUpWhole`, and what `write_errors` says of replaced PCBs.
- `CallsReturn`: liveness.

Least and greatest elements of bounded sets of numbers, which `Min` and `Max` need, do
not take an induction over data: they come from `WFMin` of `WellFoundedInduction`.

## What is not modelled

- Pairs of planes: the reserved candidate blocks (RCB), paired replacement, and the
  backup of interrupted LSB pages in the REF block.
- Errors of the controller's lock and unlock commands; pre-programming.
- Volume-wide data in a meta set (partition information, init codes).
- `BML_FLAG_ERL_UPCB_DELETE`: a PCB is never listed, only reads of user blocks list a block.
- `BML_FLAG_ERL_FORCED_PROGRAM`, a rewrite of the UPCB at mount after a disturbed
  read: in `PcbStore` it is an update of table U that follows a mount.
- The counts of ages never wrap (32 bits, one step per update).
- STL: merges, compaction, garbage collection, wear levelling, defragmentation, the free list,
  the reclaim of meta-data, program errors, MLC and several ways (see `StlBuffer`).
- RFS: extended attributes, I/O errors, names and attributes, VFS plumbing (see
  `RfsJournal`).
- The block drivers are one serial loop under `fsr_mutex` and hold no state a model
  would add to. LLD, OAM and PAM are what the flash actions assume. TinyFSR is a
  read-only copy of what `PcbStore` models as its mount.

## Plan

Done: `PcbStore`, `EraseRefresh`; the RFS journal; the STL write path with its
recovery. Next:

1. Theorems. `StlBuffer`: `SecuredSurvives` without `DeletesUnbuffered` (or the run
   that violates it). `RfsDurability`: the refinement of `RfsFiles`. `PcbStore`:
   type correctness and `LiveBlocksAllocated` with failing blocks.
2. BML deferred errors: `DeferredErrors`, the log of previous and next-previous
   operations, repair of the page that failed, flush. Property: after a flush
   every acknowledged page holds what was written. What a reading of the code
   says this has to look at, none of it checked yet: a failed program of the
   backup in the REF block is not repeated (`BB:7361` and `BB:7407` are a
   `continue` in a `do ... while (0)`), so the restore may read another page; a
   failed rewrite of the second restored page repeats the loop with the first
   page forgotten (`RW:957`); and two blocks in error restore twice (`RW:789`)
   where the table above (`RW:768`) says once.
3. STL meta-data: `StlMeta` (context, BMT, PMT pages in a ring of meta blocks,
   reclaim, the search for the newest at open). `StlBuffer` takes its atomic
   store from it. The window to look at: garbage collection puts a block on the
   free list in RAM before the BMT that gives it up is stored, and a reclaim in
   between stores the context with that list.
4. Two planes: RCB and paired replacement in `EraseRefresh`.
