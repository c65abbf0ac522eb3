----------------------------- MODULE StlBuffer -----------------------------
(***************************************************************************)
(* The write path of the Sector Translation Layer for one zone: sectors    *)
(* are written to the active log block of their data group, except the     *)
(* last, incomplete page of a sequential write, which is collected in the  *)
(* buffer block (PAGE_MISALIGNED_WRITE with BU_DELAYED_FLUSH).  What is on *)
(* flash is the log pages with their confirm marks, the page map (PMT) of  *)
(* each group as of its last store, the pages of the buffer block, and the *)
(* context page that names the active logs and the buffer block.  The      *)
(* power may go off at any step.  An open reads the buffer block, scans    *)
(* the active logs behind the stored map, lazily (RUNTIME_PMT_BUILDING),   *)
(* and writes the buffered page back.                                      *)
(*                                                                         *)
(* SLC device with one way and data groups of one block.  Free blocks are  *)
(* always available: merges, compaction and garbage collection move pages  *)
(* without changing what a sector reads as, and are not modelled here.     *)
(***************************************************************************)
EXTENDS Integers, Sequences, FiniteSets, SequencesExt, FiniteSetsExt

CONSTANTS
    NumGroups,       \* data groups
    PagesPerSBlk,    \* pages of a log block, and logical pages of a group
    SecPerVPg,       \* sectors of a page
    BufPages,        \* pages of the buffer block
    MaxActive,       \* MAX_ACTIVE_LBLKS: places in the active log list
    Requests,        \* <<first sector, number of sectors>> a write may have
    Deletable,       \* logical pages FSR_STL_Delete may be called for
    MaxWrites,       \* bound on the number of writes
    MaxLosses        \* bound on the number of power losses

ASSUME SizesAssumption ==
    /\ NumGroups \in Nat \ {0}
    /\ PagesPerSBlk \in Nat \ {0}
    /\ SecPerVPg \in Nat \ {0}
    /\ BufPages \in Nat \ {0}
    /\ MaxActive \in Nat \ {0}
    /\ MaxWrites \in Nat
    /\ MaxLosses \in Nat

Groups  == 0 .. NumGroups - 1
Lpns    == 0 .. NumGroups * PagesPerSBlk - 1
Secs    == 0 .. SecPerVPg - 1
None    == -1
Grp(l)  == l \div PagesPerSBlk

ASSUME RequestsAssumption ==
    /\ Deletable \subseteq Lpns
    /\ \A r \in Requests : /\ r[1] \in Nat
                           /\ r[2] \in Nat \ {0}
                           /\ r[1] + r[2] <= Cardinality(Lpns) * SecPerVPg

\* The contents of a page: for each sector the number of the write that put
\* it there, 0 when it was never written (a deleted or unwritten page).
Data    == [Secs -> 0 .. MaxWrites]
Blank   == [s \in Secs |-> 0]

\* A page of a log block: its logical page, its contents, its confirm mark.
\* A page whose program the power loss interrupted is Torn.
LogPage == [lpn : Lpns \cup {None}, data : Data, confirm : BOOLEAN]
Torn    == [lpn |-> None, data |-> Blank, confirm |-> FALSE]

\* A page of the buffer block, with the sectors its spare area calls valid.
BufPage == [lpn : Lpns \cup {None}, data : Data, valid : SUBSET Secs]
TornBuf == [lpn |-> None, data |-> Blank, valid |-> {}]

VARIABLES
    \* on flash
    pages,      \* group -> pages programmed in its newest log block
    active,     \* the groups whose log is in the active log list of the context
    stored,     \* group -> nCPOffs of that log in the PMT on flash
    pmt,        \* logical page -> contents, by the PMT on flash
    bblk,       \* the two blocks that take turns as buffer block -> pages
    storedBBlk, \* nBBlkVbn of the context on flash
    \* in RAM
    open,       \* the zone is open
    map,        \* logical page -> contents, by the PMT in RAM
    cp,         \* group -> nCPOffs of its newest log
    unscanned,  \* abInitActLogDgn: groups whose active log is not scanned yet
    buf,        \* STLBUCtxObj: lpn, dirty, valid, data (at nBufferedVpn), cp
    bBlkVbn,    \* nBBlkVbn of the context in RAM
    delGrp,     \* nDelPrevDgn: the group with a delete that is not on flash
    op,         \* the call in progress and where it stands
    flushing,   \* FSR_STL_FlushBufferPage is running
    \* bounds and history
    writes,     \* number of writes so far
    losses,     \* number of power losses so far
    secured,    \* lpn -> newest contents that a PMT on flash, a confirmed log
                \* or the buffer block has held
    dropped,    \* the newest page of the buffer block was given up in RAM, and
                \* is still the newest page of the block on flash
    reverted    \* pages an open has flushed from such a page, or given up for
                \* an older page of the log

flash == <<pages, active, stored, pmt, bblk, storedBBlk>>
ram   == <<open, map, cp, unscanned, buf, bBlkVbn, delGrp, op, flushing>>
hist  == <<writes, losses, secured, dropped, reverted>>
vars  == <<flash, ram, hist>>

\* STLBUCtxObj with nothing buffered.
NoBuf(n) == [lpn |-> None, dirty |-> FALSE, valid |-> {}, data |-> Blank,
             cp |-> n]

\* No call in progress.
Idle == [kind |-> "none", step |-> "none", from |-> 0, to |-> 0, last |-> 0,
         lpn |-> None]

------------------------------------------------------------------------------
\* Reading

\* What FSR_STL_ReadZone returns for a page: the buffered sectors of a dirty
\* buffer, the mapped page for the others.
Merged(l, m, b) ==
    [s \in Secs |-> IF b.dirty /\ b.lpn = l /\ s \in b.valid
                    THEN b.data[s] ELSE m[l][s]]
Read(l) == Merged(l, map, buf)

\* The part of a map that belongs to one group replaces that part of another.
Overlay(m, g, n) == [l \in Lpns |-> IF Grp(l) = g THEN n[l] ELSE m[l]]

------------------------------------------------------------------------------
\* Scanning an active log

\* The index of the last page that is not torn, 0 when there is none.
LastValid(ps, first) ==
    LET ok == {i \in first .. Len(ps) : ps[i].lpn # None}
    IN  IF ok = {} THEN 0 ELSE Max(ok)

\* A page counts as confirmed by its mark; the last page written does too
\* when the page after it is the buffered one.
Confirmed(ps, i, b) ==
    \/ ps[i].confirm
    \/ /\ i = Len(ps)
       /\ b.lpn # None
       /\ ps[i].lpn + 1 = b.lpn

\* Mutant: the scan stops at the first page without a confirm mark.
RecoverToUnconfirmed(ps, first, b) ==
    LET bad == {i \in first .. Len(ps) : ps[i].lpn = None \/ ~Confirmed(ps, i, b)}
    IN  IF bad = {} THEN Len(ps) ELSE Min(bad) - 1

\* The last confirmed page: the scan takes over everything up to it.
RecoverTo(ps, first, b) ==
    LET last == LastValid(ps, first)
        good == {i \in first .. last : ps[i].lpn # None /\ Confirmed(ps, i, b)}
    IN  IF last = 0 \/ good = {} THEN first - 1 ELSE Max(good)

\* The map after the pages first..n of a log have been taken over.
Apply(m, ps, first, n) ==
    [l \in Lpns |-> LET at == {i \in first .. n : ps[i].lpn = l}
                    IN  IF at = {} THEN m[l] ELSE ps[Max(at)].data]

\* The last page of the log is for the buffered logical page: the scan takes
\* this for its flush.
LastIsBuffered(ps, first, b) ==
    /\ LastValid(ps, first) # 0
    /\ b.lpn # None
    /\ ps[LastValid(ps, first)].lpn = b.lpn
\* Mutant: any page of the log passes for the flush of the buffered one.
FoundAnyInLog(ps, first, b) == LastValid(ps, first) # 0 /\ b.lpn # None
FoundInLog(ps, first, b) == LastIsBuffered(ps, first, b)

------------------------------------------------------------------------------
\* The log of a group

\* Mutant: a page too many.
HasRoomToo(g) == g \in active /\ cp[g] <= PagesPerSBlk

\* nNumAvailPgs > 0 for an active log.
HasRoom(g) == g \in active /\ cp[g] < PagesPerSBlk

\* The history after everything group g reads as is on flash for good.
Secure(g, m, b) ==
    [l \in Lpns |-> [s \in Secs |-> IF Grp(l) = g
                                   THEN Max({secured[l][s], Merged(l, m, b)[s]})
                                   ELSE secured[l][s]]]

\* FSR_STL_StorePMTCtx: the map of a group and the context, in one page.
StorePMTCtx(g, offs) ==
    /\ pmt' = Overlay(pmt, g, map)
    /\ stored' = [stored EXCEPT ![g] = offs]
    /\ storedBBlk' = bBlkVbn
    /\ secured' = Secure(g, map, buf)
    /\ dropped' = (dropped /\ bBlkVbn = storedBBlk)

\* History: the buffered page was written after the last page of the log.
Overtaken(g) ==
    /\ LastIsBuffered(pages[g], stored[g] + 1, buf)
    /\ LET last == pages[g][LastValid(pages[g], stored[g] + 1)]
       IN  \E s \in buf.valid : buf.data[s] > last.data[s]

\* FSR_STL_ScanActLogBlock with _MakeActivePMT: take the log's pages up to
\* the last confirmed one into the map, forget the buffered page when the log
\* has it already, and close the log for further writes.
Scan(g) ==
    /\ g \in unscanned
    /\ unscanned' = unscanned \ {g}
    /\ LET first == stored[g] + 1
           to    == RecoverTo(pages[g], first, buf)
           found == FoundInLog(pages[g], first, buf)
       IN  IF cp[g] < PagesPerSBlk
           THEN /\ map' = Apply(map, pages[g], first, to)
                /\ cp' = [cp EXCEPT ![g] = PagesPerSBlk]
                /\ buf' = IF found THEN NoBuf(BufPages) ELSE buf
                /\ dropped' = (dropped \/ found)
                /\ reverted' = IF found /\ Overtaken(g)
                               THEN reverted \cup {buf.lpn} ELSE reverted
           ELSE UNCHANGED <<map, cp, buf, dropped, reverted>>
    /\ UNCHANGED <<flash, open, bBlkVbn, delGrp, op, flushing,
                   writes, losses, secured>>

\* The active log list is full, and has no log of group g to give up.
NeedsSlot(g) == g \notin active /\ Cardinality(active) = MaxActive

\* The log of group g leaves the active list and the map of g is stored.
Deactivate(g) ==
    /\ active' = active \ {g}
    /\ StorePMTCtx(g, cp[g])

\* FSR_STL_GetLogToWrite when the group has no active log with room: a log
\* with room is activated again, or a new one taken, and the map is stored
\* before anything is written to it.
TakeLog(g) ==
    /\ g \notin unscanned
    /\ ~HasRoom(g)
    /\ ~NeedsSlot(g)
    /\ LET n == IF cp[g] < PagesPerSBlk THEN cp[g] ELSE 0
       IN  /\ pages' = [pages EXCEPT ![g] = SubSeq(@, 1, n)]
           /\ cp' = [cp EXCEPT ![g] = n]
           /\ StorePMTCtx(g, n)
    /\ active' = active \cup {g}
    /\ UNCHANGED <<bblk, open, map, unscanned, buf, bBlkVbn, delGrp, op,
                   flushing, writes, losses, reverted>>

\* What a power loss leaves of the RAM.
Off ==
    /\ open' = FALSE
    /\ map' = [l \in Lpns |-> Blank]
    /\ cp' = [g \in Groups |-> PagesPerSBlk]
    /\ unscanned' = {}
    /\ buf' = NoBuf(0)
    /\ bBlkVbn' = 1
    /\ delGrp' = None
    /\ op' = Idle
    /\ flushing' = FALSE

\* The power goes off in the middle of the program of a log page.
TornLogPage(g) ==
    /\ losses < MaxLosses
    /\ losses' = losses + 1
    /\ pages' = [pages EXCEPT ![g] = Append(@, Torn)]
    /\ Off
    /\ UNCHANGED <<active, stored, pmt, bblk, storedBBlk,
                   writes, secured, dropped, reverted>>

\* A log page is programmed: FSR_STL_FlashProgram, FSR_STL_UpdatePMT and
\* FSR_STL_ChangeLogState.
ProgramLogPage(g, page) ==
    /\ pages' = [pages EXCEPT ![g] = Append(@, page)]
    /\ cp' = [cp EXCEPT ![g] = @ + 1]
    /\ map' = [map EXCEPT ![page.lpn] = page.data]

------------------------------------------------------------------------------
\* FSR_STL_FlushBufferPage

\* The buffered page, completed from the log, becomes a confirmed log page.
FlushPage ==
    /\ flushing
    /\ buf.dirty
    /\ LET g    == Grp(buf.lpn)
           page == [lpn |-> buf.lpn, data |-> Read(buf.lpn), confirm |-> TRUE]
       IN  /\ g \notin unscanned
           /\ HasRoom(g)
           /\ \/ /\ ProgramLogPage(g, page)
                 /\ buf' = [buf EXCEPT !.dirty = FALSE]
                 /\ flushing' = FALSE
                 /\ secured' = Secure(g, map', buf')
                 /\ reverted' = IF op.kind = "open" /\ dropped
                                THEN reverted \cup {buf.lpn} ELSE reverted
                 /\ UNCHANGED <<active, stored, pmt, bblk, storedBBlk, open,
                                unscanned, bBlkVbn, delGrp, op, writes, losses,
                                dropped>>
              \/ TornLogPage(g)

FlushTakeLog == flushing /\ buf.dirty /\ TakeLog(Grp(buf.lpn))

FlushStep == FlushPage \/ FlushTakeLog

------------------------------------------------------------------------------
\* FSR_STL_MakeRoomForActLogGrpList

\* GetLogToWrite is at work for group g and needs a place in the active list.
WantsSlot(g) ==
    /\ NeedsSlot(g)
    /\ IF flushing THEN g = Grp(buf.lpn)
       ELSE op.kind = "write" /\ op.step = "page" /\ g = Grp(op.lpn)

\* A victim group whose page is buffered gets it flushed first,
EvictFlush ==
    /\ ~flushing
    /\ \E g \in Groups \ unscanned : WantsSlot(g)
    /\ buf.dirty
    /\ Grp(buf.lpn) \in active
    /\ flushing' = TRUE
    /\ UNCHANGED <<flash, open, map, cp, unscanned, buf, bBlkVbn, delGrp, op,
                   hist>>

\* then its log is deactivated.
EvictStore ==
    /\ \E g \in Groups \ unscanned : WantsSlot(g)
    /\ \E v \in active \ unscanned :
          /\ ~(buf.dirty /\ Grp(buf.lpn) = v)
          /\ Deactivate(v)
    /\ UNCHANGED <<pages, bblk, open, map, cp, unscanned, buf, bBlkVbn, delGrp,
                   op, flushing, writes, losses, reverted>>

EvictStep == EvictFlush \/ EvictStore

------------------------------------------------------------------------------
\* FSR_STL_StoreDeletedInfo

\* No page of the newest log, closed for writing, is mapped any more.
LogEmptied(g) ==
    /\ cp[g] = PagesPerSBlk
    /\ \A p \in Range(pages[g]) : p.lpn # None => map[p.lpn] # p.data

\* The map of a group with deleted pages is stored; an emptied log is freed.
StoreDeletedInfo ==
    /\ delGrp # None
    /\ StorePMTCtx(delGrp, cp[delGrp])
    /\ active' = IF LogEmptied(delGrp) THEN active \ {delGrp} ELSE active
    /\ delGrp' = None
    /\ UNCHANGED <<pages, bblk, open, map, cp, unscanned, buf, bBlkVbn, op,
                   flushing, writes, losses, reverted>>

------------------------------------------------------------------------------
\* FSR_STL_Write and FSR_STL_WriteZone

\* FSR_STL_Write calls FSR_STL_WriteZone once for each block the request
\* touches: here for the sectors from..to, of a request that ends at last.
SctsPerBlk == PagesPerSBlk * SecPerVPg
ZoneCall(from, last) ==
    [kind |-> "write", step |-> "start", from |-> from, last |-> last,
     to |-> Min({last, (from \div SctsPerBlk + 1) * SctsPerBlk - 1}),
     lpn |-> from \div SecPerVPg]

\* The sectors of page l the call covers, and its last page (nEndLpn, which is
\* nDgrpEndLpn too: a call stays in one group).
Bits(l) == {s \in Secs : l * SecPerVPg + s \in op.from .. op.to}
EndLpn  == op.to \div SecPerVPg

\* The log holds exactly the pages of its group in front of l, in order
\* (LS_ALLOC at the first page, LS_SEQ with nExpectedPOffs = nCurPOffs).
InSequence(l) ==
    LET g == Grp(l)
    IN  /\ Len(pages[g]) = l % PagesPerSBlk
        /\ \A i \in 1 .. Len(pages[g]) :
               pages[g][i].lpn = g * PagesPerSBlk + i - 1

\* FSR_STL_DetermineBufferWrite: an overwrite of buffered sectors, or the
\* incomplete last page of a sequential write.
DetermineBufferWrite(l) ==
    \/ /\ l = buf.lpn
       /\ Bits(l) \cap buf.valid # {}
    \/ /\ SecPerVPg - 1 \notin Bits(l)
       /\ op.to - op.from + 1 >= SecPerVPg
       /\ InSequence(l)

\* The page in hand gets its data from the request, then from a dirty buffer,
\* then from the map.
NewData(l) ==
    [s \in Secs |-> IF s \in Bits(l) THEN writes ELSE Read(l)[s]]
BufSrc(l) == IF buf.dirty /\ buf.lpn = l THEN buf.valid \ Bits(l) ELSE {}

BeginWrite ==
    /\ open
    /\ op.kind = "none"
    /\ writes < MaxWrites
    /\ writes' = writes + 1
    /\ \E r \in Requests : op' = ZoneCall(r[1], r[1] + r[2] - 1)
    /\ UNCHANGED <<flash, open, map, cp, unscanned, buf, bBlkVbn, delGrp,
                   flushing, losses, secured, dropped, reverted>>

At(kind, step) == op.kind = kind /\ op.step = step /\ ~flushing
GoTo(step) == op' = [op EXCEPT !.step = step]

WriteStart ==
    /\ At("write", "start")
    /\ \/ StoreDeletedInfo
       \/ /\ delGrp = None
          /\ GoTo("page")
          /\ UNCHANGED <<flash, open, map, cp, unscanned, buf, bBlkVbn, delGrp,
                         flushing, hist>>

WriteTakeLog == At("write", "page") /\ TakeLog(Grp(op.lpn))

\* The page goes to the buffer block: whatever else is buffered and dirty is
\* flushed first.
WriteToBuffer ==
    /\ At("write", "page")
    /\ Grp(op.lpn) \notin unscanned
    /\ HasRoom(Grp(op.lpn))
    /\ DetermineBufferWrite(op.lpn)
    /\ GoTo("buffer")
    /\ flushing' = (buf.dirty /\ buf.lpn # op.lpn)
    /\ UNCHANGED <<flash, open, map, cp, unscanned, buf, bBlkVbn, delGrp, hist>>

\* After a page: on to the next one, or to the end of the group.
Advance(l) ==
    op' = IF l = EndLpn THEN [op EXCEPT !.step = "reserve"]
          ELSE [op EXCEPT !.lpn = l + 1, !.step = "page"]

\* The page goes to the log block, confirmed when it ends the call or takes over
\* buffered sectors.
WriteLogPage ==
    /\ At("write", "page")
    /\ LET l    == op.lpn
           g    == Grp(l)
           full == Bits(l) = Secs
           page == [lpn |-> l, data |-> NewData(l),
                    confirm |-> l = EndLpn \/ BufSrc(l) # {}]
       IN  /\ g \notin unscanned
           /\ HasRoom(g)
           /\ ~DetermineBufferWrite(l)
           /\ \/ /\ ProgramLogPage(g, page)
                 /\ buf' = IF ~full /\ l = buf.lpn
                           THEN [buf EXCEPT !.dirty = FALSE] ELSE buf
                 /\ Advance(l)
                 /\ secured' = IF page.confirm THEN Secure(g, map', buf')
                               ELSE secured
                 /\ UNCHANGED <<active, stored, pmt, bblk, storedBBlk, open,
                                unscanned, bBlkVbn, delGrp, flushing, writes,
                                losses, dropped, reverted>>
              \/ TornLogPage(g)

\* The buffer block is full: it changes places with the head of the free list,
\* which is erased.
BBlkFull == buf.cp >= BufPages
NextBBlk == IF BBlkFull THEN 3 - bBlkVbn ELSE bBlkVbn
Append2BBlk(page) ==
    [bblk EXCEPT ![NextBBlk] = IF BBlkFull THEN <<page>> ELSE Append(@, page)]

\* The missing sectors in front of the last one are copied from the log.
BufferBits(l) ==
    LET dst == Bits(l) \cup BufSrc(l)
    IN  IF map[l] = Blank THEN dst ELSE dst \cup 0 .. Max(dst)

WriteBufferPage ==
    /\ At("write", "buffer")
    /\ LET l    == op.lpn
           bits == BufferBits(l)
           data == [s \in Secs |-> IF s \in bits THEN NewData(l)[s] ELSE 0]
       IN  \/ /\ bblk' = Append2BBlk([lpn |-> l, data |-> data, valid |-> bits])
             /\ bBlkVbn' = NextBBlk
             /\ buf' = [lpn |-> l, dirty |-> TRUE, valid |-> bits, data |-> data,
                        cp |-> IF BBlkFull THEN 1 ELSE buf.cp + 1]
             /\ dropped' = (dropped /\ BBlkFull)
             /\ GoTo("bmt")
             /\ UNCHANGED <<pages, active, stored, pmt, storedBBlk, open, map, cp,
                            unscanned, delGrp, flushing, writes, losses, secured,
                            reverted>>
          \/ /\ losses < MaxLosses
             /\ losses' = losses + 1
             /\ bblk' = Append2BBlk(TornBuf)
             /\ Off
             /\ UNCHANGED <<pages, active, stored, pmt, storedBBlk,
                            writes, secured, dropped, reverted>>

\* FSR_STL_StoreBMTCtx: the context now names the buffer block.
WriteStoreBMTCtx ==
    /\ At("write", "bmt")
    /\ storedBBlk' = bBlkVbn
    /\ secured' = [secured EXCEPT ![buf.lpn] =
                      [s \in Secs |-> IF s \in buf.valid
                                      THEN Max({@[s], buf.data[s]}) ELSE @[s]]]
    /\ dropped' = FALSE
    /\ Advance(op.lpn)
    /\ UNCHANGED <<pages, active, stored, pmt, bblk, open, map, cp, unscanned,
                   buf, bBlkVbn, delGrp, flushing, writes, losses, reverted>>

\* Mutant: nothing is reserved.
NothingReserved(g) == TRUE

\* At the end of a group its log has a page for the flush of the buffered one.
FlushReserved(g) == buf.dirty /\ Grp(buf.lpn) = g => HasRoom(g)

ReserveForFlush ==
    /\ At("write", "reserve")
    /\ ~FlushReserved(Grp(op.lpn))
    /\ TakeLog(Grp(op.lpn))

EndOfGroup ==
    /\ At("write", "reserve")
    /\ FlushReserved(Grp(op.lpn))
    /\ op' = IF op.to = op.last THEN Idle ELSE ZoneCall(op.to + 1, op.last)
    /\ UNCHANGED <<flash, open, map, cp, unscanned, buf, bBlkVbn, delGrp,
                   flushing, hist>>

WriteStep ==
    \/ WriteStart \/ WriteTakeLog \/ WriteToBuffer \/ WriteLogPage
    \/ WriteBufferPage \/ WriteStoreBMTCtx \/ ReserveForFlush \/ EndOfGroup

------------------------------------------------------------------------------
\* FSR_STL_ReadZone: a read stores what a delete left, before it scans the logs
\* it needs (ScanStep) and returns Read.
ReadStart == open /\ op.kind = "none" /\ StoreDeletedInfo

------------------------------------------------------------------------------
\* FSR_STL_DeleteZone for one page

\* The buffered page is flushed, unless it is the page to delete.
BeginDelete(l) ==
    /\ open
    /\ op.kind = "none"
    /\ flushing' = (buf.dirty /\ buf.lpn # l)
    /\ op' = [Idle EXCEPT !.kind = "delete", !.lpn = l,
                          !.step = IF flushing' THEN "invalidate" ELSE "map"]
    /\ UNCHANGED <<flash, open, map, cp, unscanned, buf, bBlkVbn, delGrp, hist>>

\* STL_BUFFER_CTX_AFTER_INVALIDATE: after the flush the buffer is forgotten.
DeleteInvalidate ==
    /\ At("delete", "invalidate")
    /\ buf' = NoBuf(buf.cp)
    /\ dropped' = TRUE
    /\ GoTo("map")
    /\ UNCHANGED <<flash, open, map, cp, unscanned, bBlkVbn, delGrp, flushing,
                   writes, losses, secured, reverted>>

DeletePage ==
    /\ At("delete", "map")
    /\ LET l == op.lpn
           g == Grp(l)
       IN  /\ g \notin unscanned
           /\ \/ /\ delGrp # g
                 /\ StoreDeletedInfo
              \/ /\ delGrp \in {None, g}
                 /\ map' = [map EXCEPT ![l] = Blank]
                 /\ delGrp' = IF map[l] # Blank THEN g ELSE delGrp
                 /\ secured' = [secured EXCEPT ![l] = Blank]
                 /\ op' = Idle
                 /\ UNCHANGED <<flash, open, cp, unscanned, buf, bBlkVbn,
                                flushing, writes, losses, dropped, reverted>>

DeleteStep == DeleteInvalidate \/ DeletePage

------------------------------------------------------------------------------
\* The erase of the buffer block when all it holds is in the logs: the block
\* itself, or the head of the free list in its place when that is less worn.
EraseBBlk ==
    \E b \in {1, 2} :
        /\ bblk' = [bblk EXCEPT ![b] = <<>>]
        /\ bBlkVbn' = b
        /\ dropped' = (dropped /\ b # bBlkVbn)

------------------------------------------------------------------------------
\* FSR_STL_CloseZone and FSR_STL_FlushAllMetaInfo

BeginClose ==
    /\ open
    /\ op.kind = "none"
    /\ op' = [Idle EXCEPT !.kind = "close", !.step = "start"]
    /\ UNCHANGED <<flash, open, map, cp, unscanned, buf, bBlkVbn, delGrp,
                   flushing, hist>>

CloseStart ==
    /\ At("close", "start")
    /\ \/ StoreDeletedInfo
       \/ /\ delGrp = None
          /\ unscanned = {}
          /\ flushing' = buf.dirty
          /\ GoTo(IF buf.dirty \/ buf.cp \in 1 .. BufPages - 1
                  THEN "erase" ELSE "store")
          /\ UNCHANGED <<flash, open, map, cp, unscanned, buf, bBlkVbn, delGrp,
                         hist>>

CloseErase ==
    /\ At("close", "erase")
    /\ EraseBBlk
    /\ buf' = NoBuf(0)
    /\ GoTo("store")
    /\ UNCHANGED <<pages, active, stored, pmt, storedBBlk, open, map, cp,
                   unscanned, delGrp, flushing, writes, losses, secured,
                   reverted>>

CloseStore ==
    /\ At("close", "store")
    /\ \E g \in active : Deactivate(g)
    /\ UNCHANGED <<pages, bblk, open, map, cp, unscanned, buf, bBlkVbn, delGrp,
                   op, flushing, writes, losses, reverted>>

CloseDone ==
    /\ At("close", "store")
    /\ active = {}
    /\ Off
    /\ UNCHANGED <<flash, hist>>

CloseStep == CloseStart \/ CloseErase \/ CloseStore \/ CloseDone

------------------------------------------------------------------------------
\* FSR_STL_OpenZone: _OpenZoneMeta and _OpenZonePost

\* _ScanBufferBlk: the page before the first one that is clean or torn.
ScanBufferBlk(ps) ==
    LET bad == {i \in 1 .. Len(ps) : ps[i].lpn = None}
        n   == IF bad = {} THEN Len(ps) ELSE Min(bad) - 1
    IN  IF n = 0 THEN NoBuf(BufPages)
        ELSE [lpn |-> ps[n].lpn, dirty |-> TRUE,
              valid |-> 0 .. Cardinality(ps[n].valid) - 1,
              data |-> ps[n].data, cp |-> BufPages]

\* The context and the maps are loaded; the active logs are scanned later.
BeginOpen ==
    /\ ~open
    /\ open' = TRUE
    /\ map' = pmt
    /\ cp' = stored
    /\ unscanned' = active
    /\ bBlkVbn' = storedBBlk
    /\ buf' = ScanBufferBlk(bblk[storedBBlk])
    /\ op' = [Idle EXCEPT !.kind = "open", !.step = "flush"]
    /\ UNCHANGED <<flash, delGrp, flushing, hist>>

\* _FlushBufferBlk, when the log of the buffered page has been scanned.
OpenFlush ==
    /\ At("open", "flush")
    /\ buf.lpn # None => Grp(buf.lpn) \notin unscanned
    /\ flushing' = buf.dirty
    /\ IF buf.dirty THEN GoTo("erase") ELSE op' = Idle
    /\ UNCHANGED <<flash, open, map, cp, unscanned, buf, bBlkVbn, delGrp, hist>>

OpenErase ==
    /\ At("open", "erase")
    /\ EraseBBlk
    /\ buf' = [buf EXCEPT !.cp = 0]
    /\ GoTo("store")
    /\ UNCHANGED <<pages, active, stored, pmt, storedBBlk, open, map, cp,
                   unscanned, delGrp, flushing, writes, losses, secured,
                   reverted>>

OpenStore ==
    /\ At("open", "store")
    /\ StorePMTCtx(Grp(buf.lpn), cp[Grp(buf.lpn)])
    /\ buf' = NoBuf(0)
    /\ op' = Idle
    /\ UNCHANGED <<pages, active, bblk, open, map, cp, unscanned, bBlkVbn,
                   delGrp, flushing, writes, losses, reverted>>

OpenStep == OpenFlush \/ OpenErase \/ OpenStore

------------------------------------------------------------------------------

\* The groups whose log the running call scans before it goes on; between
\* calls a read may be for any group.
ToScan ==
    IF \E g \in Groups \ unscanned : WantsSlot(g) THEN active
    ELSE CASE op.kind = "none"  -> Groups
           [] op.kind = "write" /\ op.step = "page" -> {Grp(op.lpn)}
           [] op.kind = "delete" /\ op.step = "map" -> {Grp(op.lpn)}
           [] op.kind = "close" /\ delGrp = None -> Groups
           [] op.kind = "open"  -> {Grp(l) : l \in {buf.lpn} \cap Lpns}
           [] OTHER             -> {}

ScanStep == open /\ \E g \in ToScan : Scan(g)

PowerLoss ==
    /\ open
    /\ losses < MaxLosses
    /\ losses' = losses + 1
    /\ Off
    /\ UNCHANGED <<flash, writes, secured, dropped, reverted>>

\* A formatted zone that has been closed.
Init ==
    /\ pages = [g \in Groups |-> <<>>]
    /\ active = {}
    /\ stored = [g \in Groups |-> PagesPerSBlk]
    /\ pmt = [l \in Lpns |-> Blank]
    /\ bblk = [b \in {1, 2} |-> <<>>]
    /\ storedBBlk = 1
    /\ open = FALSE
    /\ map = [l \in Lpns |-> Blank]
    /\ cp = [g \in Groups |-> PagesPerSBlk]
    /\ unscanned = {}
    /\ buf = NoBuf(0)
    /\ bBlkVbn = 1
    /\ delGrp = None
    /\ op = Idle
    /\ flushing = FALSE
    /\ writes = 0
    /\ losses = 0
    /\ secured = [l \in Lpns |-> Blank]
    /\ dropped = FALSE
    /\ reverted = {}

Next ==
    \/ BeginOpen \/ OpenStep
    \/ BeginWrite \/ WriteStep
    \/ ReadStart
    \/ FlushStep \/ ScanStep
    \/ \E l \in Deletable : BeginDelete(l)
    \/ DeleteStep
    \/ EvictStep
    \/ BeginClose \/ CloseStep
    \/ PowerLoss

Spec == Init /\ [][Next]_vars

------------------------------------------------------------------------------

\* The state has its types.
TypeOK ==
    /\ pages \in [Groups -> Seq(LogPage)]
    /\ \A g \in Groups : Len(pages[g]) <= PagesPerSBlk
    /\ active \subseteq Groups
    /\ stored \in [Groups -> 0 .. PagesPerSBlk]
    /\ pmt \in [Lpns -> Data]
    /\ bblk \in [{1, 2} -> Seq(BufPage)]
    /\ \A b \in {1, 2} : Len(bblk[b]) <= BufPages
    /\ storedBBlk \in {1, 2}
    /\ open \in BOOLEAN
    /\ map \in [Lpns -> Data]
    /\ cp \in [Groups -> 0 .. PagesPerSBlk]
    /\ unscanned \subseteq active
    /\ buf \in [lpn : Lpns \cup {None}, dirty : BOOLEAN, valid : SUBSET Secs,
                data : Data, cp : 0 .. BufPages]
    /\ bBlkVbn \in {1, 2}
    /\ delGrp \in Groups \cup {None}
    /\ flushing \in BOOLEAN
    /\ secured \in [Lpns -> Data]
    /\ dropped \in BOOLEAN
    /\ reverted \subseteq Lpns

\* What an open would read for page l if the power went off now: the map on
\* flash, the log behind it up to the last confirmed page, the buffered page.
Recovered(l) ==
    LET g     == Grp(l)
        b     == ScanBufferBlk(bblk[storedBBlk])
        first == stored[g] + 1
        scan  == g \in active /\ stored[g] < PagesPerSBlk
        m     == IF scan
                 THEN Apply(pmt, pages[g], first, RecoverTo(pages[g], first, b))
                 ELSE pmt
    IN  IF scan /\ FoundInLog(pages[g], first, b)
        THEN Merged(l, m, NoBuf(0)) ELSE Merged(l, m, b)

\* The two known ways in which a page reverts: its copy in the buffer block was
\* given up in RAM only, or an open will take the last page of the log for the
\* flush of a buffered page that was written after it.
Stale(l)  == dropped /\ l = ScanBufferBlk(bblk[storedBBlk]).lpn
Masked(l) == buf.dirty /\ buf.lpn = l /\ Grp(l) \in active /\ Overtaken(Grp(l))

\* Between calls nothing that reads return depends on the RAM: after a power
\* loss every page would read as it does now.  Left out are a page deleted but
\* not stored (DeleteZone defers it on purpose) and the two ways above.
AtRestDurable ==
    op.kind = "none" /\ open =>
        \A l \in Lpns :
            \/ Grp(l) \in unscanned \cup {delGrp}
            \/ Stale(l) \/ Masked(l)
            \/ Recovered(l) = Read(l)

\* What was once secured by a confirmed log, a stored map or the buffer block
\* is never read back older, whatever calls the power losses interrupt.
SecuredSurvives ==
    op.kind = "none" /\ open =>
        \A l \in Lpns : \A s \in Secs :
            Grp(l) \in unscanned \/ l \in reverted \/ Read(l)[s] >= secured[l][s]

\* "reserve one free log page for the future flush operation" (FSR_STL_Write.c):
\* between calls the log of the buffered page is active and has room for it, so
\* that the flush an eviction, a close or a delete starts needs no log of its own.
FlushHasRoom == op.kind = "none" /\ open /\ buf.dirty => HasRoom(Grp(buf.lpn))

\* The same as SecuredSurvives without exception.  FSR_STL_Delete.c says of the
\* flush in a delete that "after log write, there is not valid buffer page any
\* more", and FSR_STL_Open.c of the scan that "it sets null to the buffer unit
\* so that buffer unit flush should be avoided".
GivenUpNotFlushed ==
    op.kind = "none" /\ open =>
        \A l \in Lpns : \A s \in Secs :
            Grp(l) \in unscanned \/ Read(l)[s] >= secured[l][s]

=============================================================================
