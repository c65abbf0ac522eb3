----------------------------- MODULE RfsLogRing -----------------------------
(***************************************************************************)
(* The log file of RFS as a ring of sectors: where records go (log.c) and  *)
(* how a mount finds the last one and walks back to the last mark          *)
(* (log_replay.c).  RfsJournal takes from it that the log is the sequence  *)
(* of the records since the last mark.                                     *)
(*                                                                         *)
(* A sector is written whole or not at all; the sectors of a group reach   *)
(* the device in the order of the call.  The first mount makes the file:   *)
(* its entry, its chain and its cleared sectors reach the device in any    *)
(* order, and what the sectors held before is no record.                   *)
(***************************************************************************)
EXTENDS Naturals, FiniteSets, FiniteSetsExt

CONSTANTS N,            \* RFS_LOG_MAX_COUNT
          MaxGroup,     \* RFS_LOG_MAX_MULTI_BLOCK_RECORD
          MaxRecords,   \* records of one transaction
          MaxSeq        \* bound: the sequence numbers tried

ASSUME RingAssumption ==
  /\ N \in Nat /\ MaxRecords \in 1..(N - 1) /\ MaxGroup \in 1..MaxRecords /\ MaxSeq \in Nat

VARIABLES sec,      \* the device: sequence number and kind of every sector
          isec,     \* next sector to write
          seq,      \* next sequence number
          group,    \* sectors to write and written of the group under way
          mode,     \* "make", "up", "down", "replay", or "failed": the mount gave up
          entry,    \* the file and its directory entry are on the device
          made,     \* history: the file was made and cleared by one mount
          open      \* history: records on the device since the last mark

vars == <<sec, isec, seq, group, mode, entry, made, open>>
file == <<entry, made>>

Index == 0..(N - 1)
None == [seq |-> 0, kind |-> "none"]
Junk == [seq |-> MaxSeq + 3, kind |-> "junk"]
NoGroup == [size |-> 0, done |-> 0]

-------------------------------------------------------------------------------
(* Search.                                                                 *)

StopsAtZero(s, i) == s[i].seq = 0                                         \* mutant

\* The unwritten or oldest record: what is before it is the newest.
Stops(s, i) == s[i].seq = 0 \/ s[i - 1].seq = s[i].seq + N - 1

Consecutive(s, i) == s[i].seq = s[i - 1].seq + 1

\* __sanity_check_sequence of the sectors behind the stop
SaneFrom(s, i) ==
  \A j \in (i + 1)..(N - 1) : IF s[i].seq = 0 THEN s[j].seq = 0 ELSE Consecutive(s, j)

Empty(s) == s[0] = None

\* __sequential_search_max: N where the code returns an error
SearchMax(s) ==
  LET stops == {i \in 1..(N - 1) : Stops(s, i)}
      end == IF stops = {} THEN N ELSE Min(stops)
  IN IF /\ \A j \in 1..(end - 1) : Consecutive(s, j)
        /\ end < N => SaneFrom(s, end)
     THEN end - 1 ELSE N

-------------------------------------------------------------------------------
(* Writing.                                                                *)

NextSectorShort(i, n) == (i + n) % (N - 1)                              \* mutant

NextSector(i, n) == (i + n) % N

Init ==
  /\ sec = [i \in Index |-> Junk] /\ entry = FALSE /\ made = FALSE
  /\ isec = 0 /\ seq = 1 /\ group = NoGroup /\ mode = "make" /\ open = 0

\* The device gets the entry and chain of __make_logfile.
WriteEntry ==
  /\ mode = "make" /\ ~entry /\ entry' = TRUE
  /\ UNCHANGED <<sec, isec, seq, group, mode, made, open>>

\* The device gets a sector that init_logfile cleared.
ClearSector(i) ==
  /\ mode = "make" /\ sec[i] # None /\ sec' = [sec EXCEPT ![i] = None]
  /\ UNCHANGED <<isec, seq, group, mode, file, open>>

\* rfs_sync_vol of init_logfile returns.
Made ==
  /\ mode = "make" /\ entry /\ \A i \in Index : sec[i] = None
  /\ mode' = "up" /\ made' = TRUE
  /\ UNCHANGED <<sec, isec, seq, group, entry, open>>

\* log_read, then log_write of an undo record
Record ==
  /\ mode = "up" /\ group = NoGroup /\ open < MaxRecords /\ seq <= MaxSeq
  /\ sec' = [sec EXCEPT ![isec] = [seq |-> seq, kind |-> "record"]]
  /\ isec' = NextSector(isec, 1) /\ seq' = seq + 1 /\ open' = open + 1
  /\ UNCHANGED <<group, mode, file>>

\* __log_mark_end, of a transaction or at the end of a replay
MarkEnd ==
  /\ \/ mode = "up" /\ open > 0
     \/ mode = "replay"
  /\ group = NoGroup /\ seq <= MaxSeq
  /\ sec' = [sec EXCEPT ![isec] = [seq |-> seq, kind |-> "mark"]]
  /\ isec' = NextSector(isec, 1) /\ seq' = seq + 1 /\ open' = 0 /\ mode' = "up"
  /\ UNCHANGED <<group, file>>

\* __log_dealloc_chain: the group is laid out, written sector by sector, and
\* the position in RAM moves when all of it is written.
GroupStart(n) ==
  /\ mode = "up" /\ group = NoGroup /\ open + n <= MaxRecords /\ seq + n <= MaxSeq + 1
  /\ group' = [size |-> n, done |-> 0]
  /\ UNCHANGED <<sec, isec, seq, mode, open, file>>

GroupWrite ==
  /\ group.done < group.size
  /\ sec' = [sec EXCEPT ![NextSector(isec, group.done)] =
                           [seq |-> seq + group.done, kind |-> "record"]]
  /\ group' = [group EXCEPT !.done = @ + 1] /\ open' = open + 1
  /\ UNCHANGED <<isec, seq, mode, file>>

GroupEnd ==
  /\ group # NoGroup /\ group.done = group.size
  /\ isec' = NextSector(isec, group.size) /\ seq' = seq + group.size
  /\ group' = NoGroup
  /\ UNCHANGED <<sec, mode, open, file>>

PowerOff ==
  /\ mode \in {"make", "up", "replay"} /\ mode' = "down" /\ group' = NoGroup
  /\ isec' = 0 /\ seq' = 1
  /\ UNCHANGED <<sec, open, file>>

-------------------------------------------------------------------------------
(* Mount: __log_open and __log_replay.                                     *)

\* No log file: __make_logfile and init_logfile start again.
MountMakes ==
  /\ mode = "down" /\ ~entry /\ mode' = "make"
  /\ UNCHANGED <<sec, isec, seq, group, open, file>>

MountEmpty ==
  /\ mode = "down" /\ entry /\ Empty(sec) /\ mode' = "up"
  /\ UNCHANGED <<sec, isec, seq, group, open, file>>

SeqKept(last) == UNCHANGED seq                                           \* mutant

SeqAfter(last) == seq' = sec[last].seq + 1

Found(s) == SearchMax(s) \in Index /\ s[SearchMax(s)] # Junk

MountFound ==
  LET last == SearchMax(sec)
  IN /\ mode = "down" /\ entry /\ ~Empty(sec) /\ Found(sec)
     /\ isec' = NextSector(last, 1) /\ SeqAfter(last)
     /\ mode' = IF sec[last].kind = "mark" THEN "up" ELSE "replay"
     /\ UNCHANGED <<sec, group, open, file>>

\* The sectors are not in sequence, or the last one has no signature.
MountFails ==
  /\ mode = "down" /\ entry /\ ~Empty(sec) /\ ~Found(sec)
  /\ mode' = "failed"
  /\ UNCHANGED <<sec, isec, seq, group, open, file>>

Next ==
  \/ Record \/ MarkEnd \/ (\E n \in 1..MaxGroup : GroupStart(n)) \/ GroupWrite \/ GroupEnd
  \/ WriteEntry \/ (\E i \in Index : ClearSector(i)) \/ Made
  \/ PowerOff \/ MountMakes \/ MountEmpty \/ MountFound \/ MountFails

Spec == Init /\ [][Next]_vars

-------------------------------------------------------------------------------
(* Properties.                                                             *)

\* Type invariant; once the file was made no mount gives up (the -EIO of
\* log_replay.c:914, 921 and 982).
TypeOK ==
  /\ sec \in [Index -> [seq : 0..(MaxSeq + 3), kind : {"none", "record", "mark", "junk"}]]
  /\ isec \in Index /\ seq \in 1..(MaxSeq + 3) /\ open \in 0..MaxRecords
  /\ group \in [size : 0..MaxGroup, done : 0..MaxGroup]
  /\ mode \in {"make", "up", "down", "replay"} \cup IF made THEN {} ELSE {"failed"}
  /\ entry \in BOOLEAN /\ made \in BOOLEAN

Newest == CHOOSE i \in Index : \A j \in Index : sec[j].seq <= sec[i].seq

\* At any moment, in the first lap, at the wrap and with a group cut short, the
\* search of log_replay.c finds the record written last.
SearchFindsNewest == made /\ ~Empty(sec) => SearchMax(sec) = Newest

\* The walk back from it meets exactly the records of the open transaction
\* before a mark or an unwritten sector stops it (log_replay.c:1049).
WalkReturnsOpen ==
  LET walked(k) == sec[(Newest + N - k) % N].kind = "record"
  IN made => (\A k \in 0..(open - 1) : walked(k)) /\ ~walked(open)

\* Between two writes the position in RAM is behind the newest record, across
\* any number of crashes and mounts.
PositionFollows ==
  made /\ mode \in {"up", "replay"} /\ group = NoGroup /\ ~Empty(sec) =>
    isec = (Newest + 1) % N /\ seq = sec[Newest].seq + 1
=============================================================================
