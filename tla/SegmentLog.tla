----------------------------- MODULE SegmentLog -----------------------------
(***************************************************************************)
(* What LogSegmentStore (src/storage/segment_store.cpp) promises to the    *)
(* log storage above it: an append-only log cut into segment files, of     *)
(* which whole segments are deleted a while after their last record is     *)
(* removed.  Offsets and sizes are left out: a record is known by its      *)
(* position in the sequence of all records ever appended, and whether a    *)
(* record still fits the current segment is a choice.  Module SegmentStore *)
(* has the files, sizes and system calls and implements this module.       *)
(***************************************************************************)
EXTENDS Integers, Sequences

CONSTANTS
  Key,         \* record keys: their ranks in leveldb's byte order
  MaxRecords   \* bound: records ever appended

ASSUME KeyAssumption == Key \subseteq Nat
ASSUME MaxRecordsAssumption == MaxRecords \in Nat

VARIABLES
  log,     \* the records, in the order of append: key and segment id
  files,   \* ids of the segment files in the directory
  cur,     \* cur_segment_id_, kept in the metadata file
  full,    \* the current segment file ends at the last record: nothing fits
  stuck,   \* a rollover has failed with the current file closed: until a
           \* restart no Append succeeds
  clean,   \* segment the live kEVENT_CLEAN_SEGMENT event will delete
  gone     \* positions of the records whose file was deleted

segVars == <<log, files, cur, full, stuck, clean, gone>>

Record == [key : Key, seg : Nat]
NoSegment == -1
Positions == 1..Len(log)
RecordsOf(s) == {p \in Positions : log[p].seg = s}

-----------------------------------------------------------------------------
\* Append: into the current segment, or, when the record does not fit behind
\* the ones already there, into a new one.  It may fill the segment exactly.
AppendRecord(k) ==
  /\ Len(log) < MaxRecords
  /\ ~stuck
  /\ \/ /\ ~full
        /\ UNCHANGED <<files, cur>>
     \/ /\ full \/ RecordsOf(cur) \ gone # {}
        /\ cur' = cur + 1
        /\ files' = files \cup {cur + 1}
  /\ log' = Append(log, [key |-> k, seg |-> cur'])
  /\ full' \in BOOLEAN
  /\ UNCHANGED <<stuck, clean, gone>>

\* Append returns false after it began to roll over.  The current segment is
\* cut to its records and closed; or the new one is there and the write of
\* the record has failed.
AppendFails ==
  /\ ~stuck
  /\ full \/ RecordsOf(cur) \ gone # {}
  /\ \/ /\ full' = TRUE /\ stuck' = TRUE
        /\ UNCHANGED <<files, cur>>
     \/ /\ cur' = cur + 1
        /\ files' = files \cup {cur + 1}
        /\ full' = FALSE
        /\ UNCHANGED stuck
  /\ UNCHANGED <<log, clean, gone>>

\* Mutant: next < end counts as the end, so any record of a closed file does.
InClosedSegment(p) == log[p].seg < cur \/ full

\* Mutant: the padding behind the last record is taken for the end of file.
LastInSegment(p) == \A q \in RecordsOf(log[p].seg) : q <= p

\* The record ends where its file ends.
EndsSegment(p) ==
  /\ \A q \in RecordsOf(log[p].seg) : q <= p
  /\ log[p].seg < cur \/ full

\* RemoveAsync: only the removal of a segment's last record does something.
\* The scheduler keeps one live event per type, so a second segment that is
\* emptied before the first was deleted takes its place.
RemoveAsync(p) ==
  /\ clean' = IF EndsSegment(p) THEN log[p].seg ELSE clean
  /\ UNCHANGED <<log, files, cur, full, stuck, gone>>

\* DeleteSegment, run by the scheduler's thread when the event is due.
DeleteSegment ==
  /\ clean # NoSegment
  /\ files' = files \ {clean}
  /\ gone' = gone \cup RecordsOf(clean)
  /\ clean' = NoSegment
  /\ UNCHANGED <<log, cur, full, stuck>>

\* The process dies, maybe inside an Append that rolls over, or after one
\* that failed: after the truncation, or after the metadata names the next
\* segment, before or after its file is created.  Scheduled events are lost,
\* and so is the open file if it was deleted.
CrashSegments ==
  /\ clean' = NoSegment
  /\ stuck' = FALSE
  /\ \/ full' = (full /\ cur \in files) /\ UNCHANGED <<files, cur>>
     \/ /\ full \/ RecordsOf(cur) \ gone # {}
        /\ \/ full' = (cur \in files) /\ UNCHANGED <<files, cur>>
           \/ /\ cur' = cur + 1
              /\ full' = FALSE
              /\ files' \in {files, files \cup {cur + 1}}
  /\ UNCHANGED <<log, gone>>

\* Init: opens the segment the metadata names, creating it if need be; a
\* file that was not there is padded and empty.
InitSegments ==
  /\ files' = files \cup {cur}
  /\ UNCHANGED <<log, cur, full, stuck, clean, gone>>

-----------------------------------------------------------------------------
SegInit ==
  /\ log = <<>>
  /\ files = {0}
  /\ cur = 0
  /\ full = FALSE
  /\ stuck = FALSE
  /\ clean = NoSegment
  /\ gone = {}

SegNext ==
  \/ \E k \in Key : AppendRecord(k)
  \/ AppendFails
  \/ \E p \in Positions \ gone : RemoveAsync(p)
  \/ DeleteSegment
  \/ CrashSegments
  \/ InitSegments

SegSpec == SegInit /\ [][SegNext]_segVars
=============================================================================
