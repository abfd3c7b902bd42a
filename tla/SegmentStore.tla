---------------------------- MODULE SegmentStore ----------------------------
(***************************************************************************)
(* LogSegmentStore (src/storage/segment_store.cpp): the segment files with *)
(* their sizes and offsets, the metadata file, and Append and Init cut at  *)
(* the system calls between which the process may die.  Implements module  *)
(* SegmentLog.                                                             *)
(*                                                                         *)
(* Calls come one at a time; the clean event runs beside them.  System     *)
(* calls take effect whole or not at all, those of a rollover may fail,    *)
(* and what a killed process has written is in the file.  A descriptor     *)
(* that a failed rollover left closed is not given out again.              *)
(***************************************************************************)
EXTENDS Integers, Sequences, FiniteSets

CONSTANTS
  Key,         \* record keys
  Length,      \* lengths a record may have, with its size field and key
  Cap,         \* segment_max_size_
  MaxRecords   \* bound: records ever appended

ASSUME SizeAssumption ==
  /\ Key \subseteq Nat
  /\ Length \subseteq Nat \ {0}
  /\ Cap \in Nat \ {0}
  /\ MaxRecords \in Nat

VARIABLES
  \* On disk:
  file,      \* the segment files, by id
  meta,      \* the metadata file: a segment id, and the id its checksum is of
  \* In memory:
  mode,      \* "up", "down", or "refused" once Init has returned false
  curId,     \* cur_segment_id_
  curOff,    \* cur_segment_offset_
  curSize,   \* cur_segment_file_size_
  pc,        \* the system call a rolling Append makes next; "idle"; or, after
             \* a rollover failed with cur_segment_fd_ closed, "shut", or
             \* "shutNew" if cur_segment_id_ had been incremented
  arg,       \* the record being appended
  clean,     \* segment the live kEVENT_CLEAN_SEGMENT event will delete
  \* History, kept for the properties only:
  log,       \* all records ever appended, with the index Append returned
  gone,      \* positions of the records whose file was deleted
  wasFull,   \* nothing fitted the segment when the rolling Append began
  torn       \* of the last two writes of UpdateMetadata only the first took
             \* place, with the checksum of an earlier one in the file

memory == <<curId, curOff, curSize, pc, arg, wasFull>>
vars == <<file, meta, mode, memory, clean, log, gone, torn>>

-----------------------------------------------------------------------------
\* A crash leaves a new segment only behind one that holds a record.
Segment == 0..MaxRecords
NoSegment == -1
NoChecksum == -1
NoFile == [size |-> -1, recs |-> {}]
NoArg == [key |-> 0, len |-> 0]

\* What a file holds at an offset, by the position of the record in the log.
Content == [off : 0..Cap, len : Length, pos : 1..MaxRecords]
Files == {s \in Segment : file[s] # NoFile}
Positions == 1..Len(log)
RecordsOf(s) == {p \in Positions : log[p].seg = s}

\* ReplaySegment: the offset the chain of records ends at.
ReplaySegment(f) ==
  LET ends == {0} \cup {r.off + r.len : r \in f.recs}
      stops == {o \in ends : \A r \in f.recs : r.off # o}
  IN CHOOSE o \in stops : \A q \in stops : o <= q

\* write: the record takes the place of what was there.
Overwrite(f, r) ==
  [size |-> IF r.off + r.len > f.size THEN r.off + r.len ELSE f.size,
   recs |-> {q \in f.recs : q.off + q.len <= r.off \/ r.off + r.len <= q.off} \cup {r}]

\* ftruncate; a file that was deleted while it was open is not on disk.
Truncate(f, size) == IF f = NoFile THEN f ELSE [f EXCEPT !.size = size]

-----------------------------------------------------------------------------
(* Append.                                                                 *)

\* lseek and write of the record, and the index that is returned.
WriteRecord(r) ==
  LET c == [off |-> curOff, len |-> r.len, pos |-> Len(log) + 1] IN
  /\ file' = IF file[curId] = NoFile THEN file
             ELSE [file EXCEPT ![curId] = Overwrite(@, c)]
  /\ log' = Append(log, [key |-> r.key, seg |-> curId, off |-> curOff, len |-> r.len])
  /\ curOff' = curOff + r.len

\* Mutant: the test leaves out the record's own length.
FitsBefore(n) == curOff < curSize

\* It ends within the file.
Fits(n) == curOff + n <= curSize

\* The record fits the current segment.
AppendHere(k, n) ==
  /\ mode = "up" /\ pc = "idle" /\ Len(log) < MaxRecords
  /\ n <= Cap /\ Fits(n)
  /\ WriteRecord([key |-> k, len |-> n])
  /\ UNCHANGED <<meta, mode, curId, curSize, pc, arg, wasFull, clean, gone, torn>>

\* Mutant: UpdateMetadata is left out.
AppendTruncateOnly(k, n) ==
  /\ mode = "up" /\ pc = "idle" /\ Len(log) < MaxRecords
  /\ n <= Cap /\ ~Fits(n)
  /\ file' = [file EXCEPT ![curId] = Truncate(@, curOff)]
  /\ arg' = [key |-> k, len |-> n]
  /\ wasFull' = (curOff = curSize)
  /\ pc' = "open"
  /\ UNCHANGED <<meta, mode, curId, curOff, curSize, clean, log, gone, torn>>

\* It does not: ftruncate and close.
AppendTruncate(k, n) ==
  /\ mode = "up" /\ pc = "idle" /\ Len(log) < MaxRecords
  /\ n <= Cap /\ ~Fits(n)
  /\ file' = [file EXCEPT ![curId] = Truncate(@, curOff)]
  /\ arg' = [key |-> k, len |-> n]
  /\ wasFull' = (curOff = curSize)
  /\ pc' = "id"
  /\ UNCHANGED <<meta, mode, curId, curOff, curSize, clean, log, gone, torn>>

\* UpdateMetadata, first write.
WriteSegmentId ==
  /\ pc = "id"
  /\ meta' = [meta EXCEPT !.id = curId + 1]
  /\ pc' = "crc"
  /\ UNCHANGED <<file, mode, curId, curOff, curSize, arg, wasFull, clean, log, gone, torn>>

\* Mutant: the checksum is taken of cur_segment_id_.
WriteOldChecksum ==
  /\ pc = "crc"
  /\ meta' = [meta EXCEPT !.crcOf = curId]
  /\ pc' = "open"
  /\ UNCHANGED <<file, mode, curId, curOff, curSize, arg, wasFull, clean, log, gone, torn>>

\* UpdateMetadata, second write, and fsync.
WriteChecksum ==
  /\ pc = "crc"
  /\ meta' = [meta EXCEPT !.crcOf = curId + 1]
  /\ pc' = "open"
  /\ torn' = FALSE
  /\ UNCHANGED <<file, mode, curId, curOff, curSize, arg, wasFull, clean, log, gone>>

\* The second write fails: "return -1" in a bool function is true, so the
\* rollover goes on.
WriteChecksumFails ==
  /\ pc = "crc"
  /\ pc' = "open"
  /\ torn' = (meta.crcOf # NoChecksum)
  /\ UNCHANGED <<file, meta, mode, curId, curOff, curSize, arg, wasFull, clean, log, gone>>

\* NewSegment: fails if the file exists, else creates it.
NewSegment ==
  /\ pc = "open"
  /\ curId + 1 \notin Files
  /\ curId' = curId + 1
  /\ file' = [file EXCEPT ![curId + 1] = [size |-> 0, recs |-> {}]]
  /\ pc' = "pad"
  /\ UNCHANGED <<meta, mode, curOff, curSize, arg, wasFull, clean, log, gone, torn>>

\* PaddingIfNewSegment, for the new file.
PadNewSegment ==
  /\ pc = "pad"
  /\ file' = [file EXCEPT ![curId].size = Cap]
  /\ curSize' = Cap
  /\ curOff' = 0
  /\ pc' = "write"
  /\ UNCHANGED <<meta, mode, curId, arg, wasFull, clean, log, gone, torn>>

\* A system call of the rollover fails: Append returns false.  cur_segment_fd_
\* is closed, so every later Append fails too.
RolloverFails ==
  /\ \/ pc \in {"id", "open"} /\ pc' = "shut" /\ UNCHANGED curId
     \/ pc = "open" /\ pc' = "shutNew" /\ curId' = curId + 1
     \/ pc = "pad" /\ pc' = "shutNew" /\ UNCHANGED curId
  /\ arg' = NoArg /\ wasFull' = FALSE
  /\ UNCHANGED <<file, meta, mode, curOff, curSize, clean, log, gone, torn>>

\* The write into the new segment fails: it stays, without a record.
AppendToNewFails ==
  /\ pc = "write"
  /\ pc' = "idle"
  /\ arg' = NoArg /\ wasFull' = FALSE
  /\ UNCHANGED <<file, meta, mode, curId, curOff, curSize, clean, log, gone, torn>>

\* The record goes to the head of the new segment.
AppendToNew ==
  /\ pc = "write"
  /\ WriteRecord(arg)
  /\ pc' = "idle"
  /\ arg' = NoArg
  /\ wasFull' = FALSE
  /\ UNCHANGED <<meta, mode, curId, curSize, clean, gone, torn>>

-----------------------------------------------------------------------------
(* Removal.                                                                *)

\* Mutant: any record of the file counts as the last one.
EndsAnywhere(p) == log[p].off + log[p].len <= file[log[p].seg].size

\* The record ends where the file ends.
EndsFile(p) == log[p].off + log[p].len = file[log[p].seg].size

\* RemoveAsync: one live clean event at a time, the last one scheduled.
RemoveAsync(p) ==
  /\ mode = "up" /\ pc \in {"idle", "shut", "shutNew"}
  /\ p \notin gone
  /\ clean' = IF EndsFile(p) THEN log[p].seg ELSE clean
  /\ UNCHANGED <<file, meta, mode, memory, log, gone, torn>>

\* DeleteSegment, in the scheduler's thread, also while an Append rolls over.
DeleteSegment ==
  /\ mode = "up" /\ clean # NoSegment
  /\ file' = [file EXCEPT ![clean] = NoFile]
  /\ gone' = gone \cup RecordsOf(clean)
  /\ clean' = NoSegment
  /\ UNCHANGED <<meta, mode, memory, log, torn>>

-----------------------------------------------------------------------------
(* Crash and Init.                                                         *)

Crash ==
  /\ mode = "up"
  /\ mode' = "down"
  /\ curId' = 0 /\ curOff' = 0 /\ curSize' = 0
  /\ pc' = "idle" /\ arg' = NoArg /\ wasFull' = FALSE
  /\ clean' = NoSegment
  /\ torn' = (torn \/ (pc = "crc" /\ meta.crcOf # NoChecksum))
  /\ UNCHANGED <<file, meta, log, gone>>

\* A checksum that is not there is not compared.
ChecksumMatches == meta.crcOf \in {meta.id, NoChecksum}

\* Mutant: the latest segment is not replayed, its offset starts at zero.
StartAtZero ==
  /\ mode = "down" /\ ChecksumMatches
  /\ mode' = "up"
  /\ curId' = meta.id
  /\ LET f == file[meta.id] IN
       IF f.size <= 0
       THEN /\ file' = [file EXCEPT ![meta.id] = [size |-> Cap, recs |-> {}]]
            /\ curSize' = Cap /\ curOff' = 0
       ELSE file' = file /\ curSize' = f.size /\ curOff' = 0
  /\ UNCHANGED <<meta, pc, arg, wasFull, clean, log, gone, torn>>

\* Init: the current segment is opened or created, padded if it is empty,
\* replayed if not.
Start ==
  /\ mode = "down" /\ ChecksumMatches
  /\ mode' = "up"
  /\ curId' = meta.id
  /\ \/ /\ file[meta.id].size <= 0
        /\ file' = [file EXCEPT ![meta.id] = [size |-> Cap, recs |-> {}]]
        /\ curSize' = Cap
        /\ curOff' = 0
     \/ /\ file[meta.id].size > 0
        /\ curSize' = file[meta.id].size
        /\ curOff' = ReplaySegment(file[meta.id])
        /\ UNCHANGED file
  /\ UNCHANGED <<meta, pc, arg, wasFull, clean, log, gone, torn>>

\* Init returns false: the checksum does not match.
StartRefused ==
  /\ mode = "down" /\ ~ChecksumMatches
  /\ mode' = "refused"
  /\ UNCHANGED <<file, meta, memory, clean, log, gone, torn>>

-----------------------------------------------------------------------------
\* A new store, after its first Init: the metadata file is still empty, which
\* reads as segment 0.
Init ==
  /\ file = [s \in Segment |-> IF s = 0 THEN [size |-> Cap, recs |-> {}] ELSE NoFile]
  /\ meta = [id |-> 0, crcOf |-> NoChecksum]
  /\ mode = "up"
  /\ curId = 0 /\ curOff = 0 /\ curSize = Cap
  /\ pc = "idle" /\ arg = NoArg /\ wasFull = FALSE
  /\ clean = NoSegment
  /\ log = <<>> /\ gone = {} /\ torn = FALSE

Next ==
  \/ \E k \in Key, n \in Length : AppendHere(k, n)
  \/ \E k \in Key, n \in Length : AppendTruncate(k, n)
  \/ WriteSegmentId
  \/ WriteChecksum
  \/ WriteChecksumFails
  \/ NewSegment
  \/ PadNewSegment
  \/ RolloverFails
  \/ AppendToNewFails
  \/ AppendToNew
  \/ \E p \in Positions : RemoveAsync(p)
  \/ DeleteSegment
  \/ Crash
  \/ Start
  \/ StartRefused

Spec == Init /\ [][Next]_vars

-----------------------------------------------------------------------------
(* Properties.                                                             *)

\* Every variable has its type; no file grows past segment_max_size_.
TypeOK ==
  /\ file \in [Segment -> [size : -1..Cap, recs : SUBSET Content]]
  /\ meta \in [id : Segment, crcOf : Segment \cup {NoChecksum}]
  /\ mode \in {"up", "down", "refused"}
  /\ curId \in Segment /\ curOff \in 0..Cap /\ curSize \in 0..Cap
  /\ pc \in {"idle", "id", "crc", "open", "pad", "write", "shut", "shutNew"}
  /\ arg \in [key : Key, len : Length] \cup {NoArg}
  /\ clean \in Segment \cup {NoSegment}
  /\ log \in Seq([key : Key, seg : Segment, off : 0..Cap, len : Length])
  /\ gone \subseteq Positions
  /\ wasFull \in BOOLEAN /\ torn \in BOOLEAN

\* The index Append returned finds its record for as long as the segment is
\* not deleted: no later Append writes over it, not after a crash and a
\* replay either, and no truncation cuts it off (Append, Init, ReplaySegment).
RecordsIntact ==
  \A p \in Positions \ gone :
    LET r == log[p] IN
    /\ [off |-> r.off, len |-> r.len, pos |-> p] \in file[r.seg].recs
    /\ r.off + r.len <= file[r.seg].size

\* "new segment already exists, somehing chaos" never happens: whatever a
\* crash in a rollover left behind, the file that a later rollover creates is
\* not there yet (NewSegment, after UpdateMetadata).
NewSegmentIsNew == pc = "open" => curId + 1 \notin Files

\* Init refuses the metadata only if the last UpdateMetadata but wrote the
\* id, because the process died or the second write failed, and not in the
\* first rollover (Init, UpdateMetadata).
RefusedOnlyIfTorn == mode = "refused" => torn

\* The state of SegmentLog.  A rolling Append takes effect with its write or
\* its failure, or with the crash that cuts it short.
Stuck == pc \in {"shut", "shutNew"}
Rolled == pc \in {"pad", "write", "shutNew"}

Log == INSTANCE SegmentLog WITH
  log <- [p \in Positions |-> [key |-> log[p].key, seg |-> log[p].seg]],
  files <- Files \ (IF Rolled THEN {curId} ELSE {}),
  cur <- IF mode = "up" THEN (IF Rolled THEN curId - 1 ELSE curId) ELSE meta.id,
  full <- IF mode = "up"
          THEN (IF pc = "idle" THEN curOff = curSize ELSE Stuck \/ wasFull)
          ELSE file[meta.id].size > 0 /\ file[meta.id].size = ReplaySegment(file[meta.id]),
  stuck <- Stuck,
  clean <- clean,
  gone <- gone

\* The store behaves as SegmentLog says, crashes included (all of
\* LogSegmentStore).
ImplementsSegmentLog == Log!SegSpec
=============================================================================
