---------------------------- MODULE SegmentedLog ----------------------------
(***************************************************************************)
(* The on-disk log of the Rust server (log.rs).                            *)
(*                                                                         *)
(* A segment file is a sequence of records; Torn stands for the bytes of a *)
(* record that was not written to its end.  replay_segment reads a file up *)
(* to the first torn record.  The log is used under a mutex, so one        *)
(* operation runs at a time: stage is where it is, and every step that a   *)
(* process crash can separate from the next is an action.  Bytes that      *)
(* reached the file survive a crash of the process.                        *)
(*                                                                         *)
(* I/O errors: a failed flush writes nothing and leaves the record in the  *)
(* BufWriter, to go out with the next flush; a failed compaction or        *)
(* rotation returns early; a failed remove_file is skipped.                *)
(***************************************************************************)
EXTENDS Naturals, Sequences, FiniteSets, FiniteSetsExt, Functions

CONSTANTS MaxEntriesPerSegment,      \* MAX_ENTRIES_PER_SEGMENT
          MaxSegmentsBeforeCompact,  \* MAX_SEGMENTS_BEFORE_COMPACT
          Torn                       \* an incomplete record

ASSUME SegmentedLogAssumption ==
    MaxEntriesPerSegment \in Nat \ {0} /\ MaxSegmentsBeforeCompact \in Nat \ {0}

VARIABLES disk,          \* segment number -> contents of its file
          current_seg,   \* SegmentedLog.current_seg
          wseg, wbuf,    \* the file behind writer, and the BufWriter's contents
          entry_count,   \* SegmentedLog.entry_count
          segment_count, \* SegmentedLog.segment_count
          stage,         \* step of the running operation, "none" between two
          arg,           \* the entry to append
          todo,          \* compaction: snapshot entries still to write
          old_segs       \* compaction: segments still to remove

logVars == <<disk, current_seg, wseg, wbuf, entry_count, segment_count, stage,
             arg, todo, old_segs>>

LogInit ==
    /\ disk = [n \in {0} |-> <<>>] /\ current_seg = 0 /\ wseg = 0 /\ wbuf = <<>>
    /\ entry_count = 0 /\ segment_count = 1
    /\ stage = "none" /\ arg = Torn /\ todo = {} /\ old_segs = {}

WithoutLast(file) == SubSeq(file, 1, Len(file) - 1)

\* A file is created; the writer's buffer reaches its file.
Created(files, n) ==
    [m \in DOMAIN files \cup {n} |-> IF m = n THEN <<>> ELSE files[m]]
Flushed == [disk EXCEPT ![wseg] = @ \o wbuf]

-----------------------------------------------------------------------------
(* Reading *)

\* The records replay_segment returns: everything before the first torn one.
ReplaySegment(file) ==
    IF Torn \in Range(file)
    THEN SubSeq(file, 1, Min({i \in DOMAIN file : file[i] = Torn}) - 1)
    ELSE file

\* The records a restart would read.
Replayed == UNION {Range(ReplaySegment(disk[n])) : n \in DOMAIN disk}

\* SegmentedLog::open: truncates every torn tail and appends to the last file.
Open ==
    LET segs == DOMAIN disk
        last == IF segs = {} THEN 0 ELSE Max(segs)
        d == [n \in segs \cup {last} |->
                 IF n \in segs THEN ReplaySegment(disk[n]) ELSE <<>>]
    IN /\ disk' = d
       /\ current_seg' = last /\ wseg' = last /\ wbuf' = <<>>
       /\ entry_count' = Len(d[last])
       /\ segment_count' = Cardinality(segs \cup {last})
       /\ stage' = "none" /\ arg' = Torn /\ todo' = {} /\ old_segs' = {}

-----------------------------------------------------------------------------
(* append *)

AppendStart(e) ==
    /\ stage = "none"
    /\ stage' = IF entry_count >= MaxEntriesPerSegment THEN "rotate" ELSE "write"
    /\ arg' = e
    /\ UNCHANGED <<disk, current_seg, wseg, wbuf, entry_count, segment_count,
                   todo, old_segs>>

\* rotate: flush, then create the next file
Rotate ==
    /\ stage = "rotate"
    /\ disk' = Created(Flushed, current_seg + 1)
    /\ current_seg' = current_seg + 1 /\ wseg' = current_seg + 1
    /\ wbuf' = <<>>
    /\ entry_count' = 0 /\ segment_count' = segment_count + 1
    /\ stage' = "write"
    /\ UNCHANGED <<arg, todo, old_segs>>

\* write_entry and flush: the record's first bytes reach the file ...
WriteRecord ==
    /\ stage = "write"
    /\ disk' = [disk EXCEPT ![wseg] = Append(@, Torn)]
    /\ wbuf' = Append(wbuf, arg)
    /\ stage' = "flush"
    /\ UNCHANGED <<current_seg, wseg, entry_count, segment_count, arg, todo,
                   old_segs>>

\* ... and then its last
FlushRecord ==
    /\ stage = "flush"
    /\ disk' = [disk EXCEPT ![wseg] = WithoutLast(@) \o wbuf]
    /\ wbuf' = <<>>
    /\ entry_count' = entry_count + 1
    /\ stage' = "appended"
    /\ UNCHANGED <<current_seg, wseg, segment_count, arg, todo, old_segs>>

NeedsCompact == segment_count > MaxSegmentsBeforeCompact

-----------------------------------------------------------------------------
(* compact *)

\* list the segments that exist now
CompactStart(snapshot) ==
    /\ stage = "none"
    /\ old_segs' = DOMAIN disk /\ todo' = snapshot
    /\ stage' = "create"
    /\ UNCHANGED <<disk, current_seg, wseg, wbuf, entry_count, segment_count,
                   arg>>

\* flush the writer and create the snapshot file
CreateSnapshot ==
    /\ stage = "create"
    /\ disk' = Created(Flushed, current_seg + 1)
    /\ wbuf' = <<>>
    /\ current_seg' = current_seg + 1
    /\ stage' = "snapshot"
    /\ UNCHANGED <<wseg, entry_count, segment_count, arg, todo, old_segs>>

WriteSnapshot ==
    /\ stage = "snapshot"
    /\ \E e \in todo :
          /\ disk' = [disk EXCEPT ![current_seg] = Append(@, e)]
          /\ todo' = todo \ {e}
    /\ UNCHANGED <<current_seg, wseg, wbuf, entry_count, segment_count, stage,
                   arg, old_segs>>

OpenLiveEarly ==
    /\ stage = "snapshot"
    /\ disk' = Created(disk, current_seg + 1)
    /\ current_seg' = current_seg + 1 /\ wseg' = current_seg + 1
    /\ entry_count' = 0 /\ segment_count' = 2
    /\ stage' = "remove"
    /\ UNCHANGED <<wbuf, arg, todo, old_segs>>

\* open a fresh segment for the live writes that follow
OpenLive ==
    /\ stage = "snapshot" /\ todo = {}
    /\ disk' = Created(disk, current_seg + 1)
    /\ current_seg' = current_seg + 1 /\ wseg' = current_seg + 1
    /\ entry_count' = 0 /\ segment_count' = 2
    /\ stage' = "remove"
    /\ UNCHANGED <<wbuf, arg, todo, old_segs>>

\* delete the pre-snapshot segments, oldest first
RemoveOld ==
    /\ stage = "remove" /\ old_segs # {}
    /\ disk' = [n \in DOMAIN disk \ {Min(old_segs)} |-> disk[n]]
    /\ old_segs' = old_segs \ {Min(old_segs)}
    /\ UNCHANGED <<current_seg, wseg, wbuf, entry_count, segment_count, stage,
                   arg, todo>>

CompactDone ==
    /\ stage = "remove" /\ old_segs = {}
    /\ stage' = "compacted"
    /\ UNCHANGED <<disk, current_seg, wseg, wbuf, entry_count, segment_count,
                   arg, todo, old_segs>>

-----------------------------------------------------------------------------
(* I/O errors: the operation returns Err, which its caller only logs *)

\* rotate could not flush, or flushed and could not create the next file
RotateFails ==
    /\ stage = "rotate"
    /\ \/ UNCHANGED <<disk, wbuf, current_seg>>
       \/ /\ disk' = Flushed
          /\ wbuf' = <<>> /\ current_seg' = current_seg + 1
    /\ stage' = "appended"
    /\ UNCHANGED <<wseg, entry_count, segment_count, arg, todo, old_segs>>

\* flush wrote nothing; the record stays in the BufWriter
FlushFails ==
    /\ stage = "write"
    /\ wbuf' = Append(wbuf, arg)
    /\ stage' = "appended"
    /\ UNCHANGED <<disk, current_seg, wseg, entry_count, segment_count, arg,
                   todo, old_segs>>

\* compact could not flush, or flushed and could not create the snapshot file
CreateFails ==
    /\ stage = "create"
    /\ \/ UNCHANGED <<disk, wbuf, current_seg>>
       \/ /\ disk' = Flushed
          /\ wbuf' = <<>> /\ current_seg' = current_seg + 1
    /\ todo' = {} /\ old_segs' = {}
    /\ stage' = "compacted"
    /\ UNCHANGED <<wseg, entry_count, segment_count, arg>>

\* the snapshot could not be written, or the live file could not be created
SnapshotFails ==
    /\ stage = "snapshot"
    /\ current_seg' = IF todo = {} THEN current_seg + 1 ELSE current_seg
    /\ todo' = {} /\ old_segs' = {}
    /\ stage' = "compacted"
    /\ UNCHANGED <<disk, wseg, wbuf, entry_count, segment_count, arg>>

\* remove_file failed: a warning, and the file stays
RemoveFails ==
    /\ stage = "remove" /\ old_segs # {}
    /\ old_segs' = old_segs \ {Min(old_segs)}
    /\ UNCHANGED <<disk, current_seg, wseg, wbuf, entry_count, segment_count,
                   stage, arg, todo>>

IoError == RotateFails \/ FlushFails \/ CreateFails \/ SnapshotFails
           \/ RemoveFails

LogStep ==
    \/ Rotate \/ WriteRecord \/ FlushRecord
    \/ CreateSnapshot \/ WriteSnapshot \/ OpenLive \/ RemoveOld \/ CompactDone
=============================================================================
