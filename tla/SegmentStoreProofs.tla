------------------------- MODULE SegmentStoreProofs -------------------------
(***************************************************************************)
(* The segment store's invariants and its refinement of SegmentLog, for    *)
(* any segment size, any record lengths and any number of records.         *)
(***************************************************************************)
EXTENDS SegmentStore, SequenceTheorems, TLAPS

\* An element of the log.
Record == [key : Key, seg : Segment, off : 0..Cap, len : Length]

\* The highest segment that may have a file, and the one that takes or took
\* the last records: a rollover goes from Cur to Top.
Top == IF mode = "up" THEN curId ELSE meta.id
Cur == IF Rolled THEN Top - 1 ELSE Top

\* What the file of record p holds for it.
Entry(p) == [off |-> log[p].off, len |-> log[p].len, pos |-> p]

\* The records lie one behind the other from 0 to e.
Chain(recs, e) ==
  /\ e = 0 \/ \E r \in recs : r.off + r.len = e
  /\ e = 0 \/ \E r \in recs : r.off = 0
  /\ \A r \in recs : r.off + r.len <= e
  /\ \A r \in recs : r.off + r.len = e \/ \E q \in recs : q.off = r.off + r.len

\* Where the replay of a segment ends.
End(s) == ReplaySegment(file[s])

\* A file holds the records of its segment that are not gone, in a chain.
Holds(s) ==
  /\ \A p \in RecordsOf(s) \ gone : Entry(p) \in file[s].recs
  /\ \A r \in file[s].recs : r.pos \in RecordsOf(s) \ gone /\ r = Entry(r.pos)
  /\ Chain(file[s].recs, End(s))
  /\ file[s] # NoFile => End(s) <= file[s].size

FilesHold == \A s \in Segment : Holds(s)

\* Where the file was not deleted in between, later records lie behind
\* earlier ones.
OffsetsRise ==
  \A p, q \in Positions :
    p < q /\ log[p].seg = log[q].seg /\ p \notin gone =>
      q \notin gone /\ log[p].off + log[p].len <= log[q].off

\* Segments before the current one end with their last record.
ClosedIsCut == \A s \in Files : s < Cur => file[s].size = End(s)

NothingAbove ==
  /\ \A s \in Segment : s > Top => file[s] = NoFile
  /\ \A p \in Positions : log[p].seg <= Cur

\* A new segment comes only behind one that holds a record.
SegmentsCount ==
  /\ Top <= Len(log)
  /\ RecordsOf(Top) # {} => Top < Len(log)

\* No call is in progress: what is in memory is what a replay would find.
IdleInv ==
  mode = "up" /\ pc = "idle" =>
    /\ meta.id = curId
    /\ 0 < curSize /\ curOff <= curSize
    /\ curSize = Cap \/ curOff = curSize
    /\ file[curId] # NoFile => file[curId].size = curSize /\ End(curId) = curOff
    /\ file[curId] = NoFile => curOff = curSize
    /\ clean = curId => curOff = curSize
    /\ 0 < curOff => RecordsOf(curId) # {}

\* The current segment is cut and closed.
CutInv ==
  mode = "up" /\ pc \in {"id", "crc", "open", "shut"} =>
    /\ file[curId] # NoFile => 0 < End(curId) /\ file[curId].size = End(curId)
    /\ RecordsOf(curId) # {}
    /\ pc = "id" => meta.id = curId
    /\ pc \in {"crc", "open"} => meta.id = curId + 1
    /\ pc = "shut" => meta.id \in {curId, curId + 1}

\* The new segment is there, or was to be.
NewInv ==
  mode = "up" /\ Rolled =>
    /\ 0 < curId /\ meta.id = curId
    /\ curId - 1 \in Files => file[curId - 1].size = End(curId - 1)
    /\ pc = "pad" => file[curId] = [size |-> 0, recs |-> {}]
    /\ pc = "write" => file[curId] = [size |-> Cap, recs |-> {}] /\ curOff = 0 /\ curSize = Cap
    /\ pc = "shutNew" => file[curId].size <= 0

\* A rolling Append has a record, room for it in the log, and a current
\* segment that was full or holds a record nobody is about to delete.
RollingInv ==
  mode = "up" /\ pc \in {"id", "crc", "open", "pad", "write"} =>
    /\ arg.key \in Key /\ arg.len \in Length /\ arg.len <= Cap
    /\ Len(log) < MaxRecords
    /\ ~wasFull => clean # Cur /\ RecordsOf(Cur) \ gone # {}

CleanInv == clean # NoSegment => mode = "up" /\ clean <= Cur

DownInv ==
  mode # "up" =>
    /\ pc = "idle"
    /\ 0 < file[meta.id].size => file[meta.id].size \in {Cap, End(meta.id)}

ChecksumInv == torn \/ (mode = "up" /\ pc = "crc") \/ (mode # "refused" /\ ChecksumMatches)

IInv ==
  /\ TypeOK
  /\ FilesHold
  /\ OffsetsRise
  /\ ClosedIsCut
  /\ NothingAbove
  /\ SegmentsCount
  /\ IdleInv
  /\ CutInv
  /\ NewInv
  /\ RollingInv
  /\ CleanInv
  /\ DownInv
  /\ ChecksumInv

-----------------------------------------------------------------------------
(* Files and their replay.                                                 *)

\* The constants, in the form the proofs use.
LEMMA Sizes ==
  /\ Cap \in Nat /\ Cap > 0
  /\ MaxRecords \in Nat
  /\ \A n \in Length : n \in Nat /\ n > 0
  /\ \A i \in 0..Cap : i \in Nat /\ i <= Cap
  /\ \A s \in Segment : s \in Nat /\ s <= MaxRecords
  <1>1. Cap \in Nat /\ Cap > 0 /\ MaxRecords \in Nat
    BY SizeAssumption
  <1>2. \A n \in Length : n \in Nat /\ n > 0
    BY SizeAssumption
  <1> QED
    BY <1>1, <1>2 DEF Segment

\* What a file holds has a place and a length.
LEMMA ContentTypes ==
  ASSUME NEW r \in Content
  PROVE  /\ r.off \in 0..Cap /\ r.len \in Length /\ r.pos \in 1..MaxRecords
         /\ r.off \in Nat /\ r.len \in Nat /\ r.len > 0
  <1>1. r.off \in 0..Cap /\ r.len \in Length /\ r.pos \in 1..MaxRecords
    BY DEF Content
  <1> QED
    BY <1>1, Sizes

\* A segment's records form one chain, so ReplaySegment stops at its end and
\* nowhere else.
LEMMA ChainReplay ==
  ASSUME NEW f, f.recs \subseteq Content, NEW e \in Nat, Chain(f.recs, e)
  PROVE  ReplaySegment(f) = e
  <1> DEFINE ends == {0} \cup {r.off + r.len : r \in f.recs}
             stops == {o \in ends : \A r \in f.recs : r.off # o}
  <1>1. \A r \in f.recs : r.off \in Nat /\ r.len \in Nat /\ r.len > 0
    BY ContentTypes
  <1>2. e \in stops
    <2>1. e \in ends
      BY DEF Chain
    <2>2. \A r \in f.recs : r.off # e
      BY <1>1 DEF Chain
    <2> QED
      BY <2>1, <2>2
  <1>3. ASSUME NEW o \in stops PROVE o = e
    <2>1. CASE o = 0
      BY <2>1 DEF Chain
    <2>2. CASE \E r \in f.recs : o = r.off + r.len
      BY <2>2 DEF Chain
    <2> QED
      BY <2>1, <2>2
  <1>4. stops = {e}
    BY <1>2, <1>3
  <1>5. (CHOOSE o \in stops : \A q \in stops : o <= q) = e
    BY <1>4
  <1> QED
    BY <1>5 DEF ReplaySegment

\* The offset after a chain of records is a number.
LEMMA ChainEnd ==
  ASSUME NEW recs, recs \subseteq Content, NEW e, Chain(recs, e)
  PROVE  e \in Nat
  <1>1. \A r \in recs : r.off \in Nat /\ r.len \in Nat
    BY ContentTypes
  <1>2. \A r \in recs : r.off + r.len \in Nat
    BY <1>1
  <1> QED
    BY <1>2 DEF Chain

\* An empty file replays to 0.
LEMMA EmptyChain ==
  /\ Chain({}, 0)
  /\ \A f : f.recs = {} => ReplaySegment(f) = 0
  <1>1. Chain({}, 0)
    BY DEF Chain
  <1>2. ASSUME NEW f, f.recs = {} PROVE ReplaySegment(f) = 0
    BY <1>1, <1>2, ChainReplay
  <1> QED
    BY <1>1, <1>2

\* A write at the end of the chain keeps every record and lengthens the chain.
LEMMA ChainAppend ==
  ASSUME NEW f, f.recs \subseteq Content, NEW r \in Content, Chain(f.recs, r.off)
  PROVE  /\ Overwrite(f, r).recs = f.recs \cup {r}
         /\ Chain(f.recs \cup {r}, r.off + r.len)
         /\ ReplaySegment(Overwrite(f, r)) = r.off + r.len
  <1>1. \A q \in f.recs \cup {r} : q.off \in Nat /\ q.len \in Nat /\ q.len > 0
    BY ContentTypes
  <1>2. Overwrite(f, r).recs = f.recs \cup {r}
    <2>1. \A q \in f.recs : q.off + q.len <= r.off
      BY DEF Chain
    <2>2. Overwrite(f, r).recs
            = {q \in f.recs : q.off + q.len <= r.off \/ r.off + r.len <= q.off} \cup {r}
      BY DEF Overwrite
    <2> QED
      BY <2>1, <2>2
  <1>3. Chain(f.recs \cup {r}, r.off + r.len)
    BY <1>1 DEF Chain
  <1>4. ReplaySegment(Overwrite(f, r)) = r.off + r.len
    <2>1. r.off + r.len \in Nat
      BY <1>1
    <2>2. Overwrite(f, r).recs \subseteq Content
      BY <1>2
    <2> QED
      BY <1>2, <1>3, <2>1, <2>2, ChainReplay
  <1> QED
    BY <1>2, <1>3, <1>4

\* Where a segment ends depends on its records only.
LEMMA ReplayOfRecords ==
  ASSUME NEW f, NEW g, f.recs = g.recs
  PROVE  ReplaySegment(f) = ReplaySegment(g)
  BY DEF ReplaySegment

-----------------------------------------------------------------------------
(* Types.                                                                  *)

\* What TypeOK says of a record of the log and of a file.
LEMMA RecordTypes ==
  ASSUME TypeOK
  PROVE  /\ log \in Seq(Record) /\ Len(log) \in Nat
         /\ \A p \in Positions :
              /\ p \in Nat /\ p >= 1 /\ p <= Len(log)
              /\ log[p] \in Record
              /\ log[p].key \in Key /\ log[p].seg \in Segment /\ log[p].seg \in Nat
              /\ log[p].off \in Nat /\ log[p].len \in Length /\ log[p].len \in Nat /\ log[p].len > 0
  <1>1. log \in Seq(Record) /\ Len(log) \in Nat
    BY DEF TypeOK, Record
  <1>2. \A p \in Positions : p \in Nat /\ p >= 1 /\ p <= Len(log) /\ log[p] \in Record
    BY <1>1 DEF Positions
  <1>3. \A r \in Record : r.key \in Key /\ r.seg \in Segment /\ r.off \in 0..Cap /\ r.len \in Length
    BY DEF Record
  <1>4. \A r \in Record : r.seg \in Nat /\ r.off \in Nat /\ r.len \in Nat /\ r.len > 0
    BY <1>3, Sizes
  <1> QED
    BY <1>1, <1>2, <1>3, <1>4

\* What a file is made of.
LEMMA FileTypes ==
  ASSUME TypeOK, NEW s \in Segment
  PROVE  /\ file[s] \in [size : -1..Cap, recs : SUBSET Content]
         /\ file[s] = [size |-> file[s].size, recs |-> file[s].recs]
         /\ file[s].size \in Int /\ file[s].size >= -1 /\ file[s].size <= Cap
         /\ file[s].recs \subseteq Content
  <1>1. file[s] \in [size : -1..Cap, recs : SUBSET Content]
    BY DEF TypeOK
  <1>2. file[s].size \in -1..Cap /\ file[s].recs \subseteq Content
    BY <1>1
  <1>3. file[s] = [size |-> file[s].size, recs |-> file[s].recs]
    BY <1>1
  <1> QED
    BY <1>1, <1>2, <1>3, Sizes

\* The log after one more record.
LEMMA LogAppend ==
  ASSUME TypeOK, NEW e \in Record, log' = Append(log, e)
  PROVE  /\ log' \in Seq(Record) /\ Len(log') = Len(log) + 1
         /\ Positions' = Positions \cup {Len(log) + 1}
         /\ Len(log) + 1 \notin Positions
         /\ \A p \in Positions : log'[p] = log[p]
         /\ log'[Len(log) + 1] = e
         /\ \A s \in Segment : RecordsOf(s)' = RecordsOf(s) \cup (IF s = e.seg THEN {Len(log) + 1} ELSE {})
  <1>0. log \in Seq(Record) /\ Len(log) \in Nat
    BY RecordTypes
  <1>1. log' \in Seq(Record) /\ Len(log') = Len(log) + 1
    BY <1>0
  <1>2. Positions' = Positions \cup {Len(log) + 1} /\ Len(log) + 1 \notin Positions
    BY <1>0, <1>1 DEF Positions
  <1>3. (\A p \in Positions : log'[p] = log[p]) /\ log'[Len(log) + 1] = e
    BY <1>0 DEF Positions
  <1>4. \A s \in Segment : RecordsOf(s)' = RecordsOf(s) \cup (IF s = e.seg THEN {Len(log) + 1} ELSE {})
    BY <1>2, <1>3 DEF RecordsOf
  <1> QED
    BY <1>1, <1>2, <1>3, <1>4

\* Where a segment's replay ends is a number within the file.
LEMMA EndTypes ==
  ASSUME TypeOK, FilesHold, NEW s \in Segment
  PROVE  /\ End(s) \in Nat
         /\ file[s] # NoFile => End(s) <= file[s].size
         /\ file[s].size <= 0 => file[s].recs = {} /\ End(s) = 0
         /\ file[s].recs = {} => End(s) = 0
         /\ 0 < End(s) => RecordsOf(s) \ gone # {}
  <1>1. Chain(file[s].recs, End(s)) /\ (file[s] # NoFile => End(s) <= file[s].size)
    BY DEF FilesHold, Holds
  <1>2. End(s) \in Nat
    BY <1>1, ChainEnd, FileTypes
  <1>3. file[s].recs = {} => End(s) = 0
    BY EmptyChain DEF End
  <1>4. ASSUME file[s].size <= 0 PROVE file[s].recs = {}
    <2>1. CASE file[s] = NoFile
      BY <2>1 DEF NoFile
    <2>2. CASE file[s] # NoFile
      <3>0. file[s].size \in Int
        BY FileTypes
      <3>1. End(s) <= 0
        BY <2>2, <1>1, <1>2, <1>4, <3>0
      <3>2. \A r \in file[s].recs : r.off + r.len <= End(s)
        BY <1>1 DEF Chain
      <3>3. \A r \in file[s].recs : r.off \in Nat /\ r.len \in Nat /\ r.len > 0
        BY ContentTypes, FileTypes
      <3> QED
        BY <1>2, <3>1, <3>2, <3>3
    <2> QED
      BY <2>1, <2>2
  <1>5. 0 < End(s) => RecordsOf(s) \ gone # {}
    BY <1>3 DEF FilesHold, Holds
  <1> QED
    BY <1>1, <1>2, <1>3, <1>4, <1>5

-----------------------------------------------------------------------------
(* What steps do to the files and the log.                                 *)

\* Steps that leave both alone.
LEMMA DiskKept ==
  ASSUME FilesHold, OffsetsRise, UNCHANGED <<file, log, gone>>
  PROVE  /\ FilesHold' /\ OffsetsRise'
         /\ \A s : End(s)' = End(s) /\ RecordsOf(s)' = RecordsOf(s)
         /\ Positions' = Positions /\ Files' = Files
  <1>1. Positions' = Positions /\ Files' = Files
    BY DEF Positions, Files
  <1>2. \A s : End(s)' = End(s) /\ RecordsOf(s)' = RecordsOf(s)
    BY <1>1 DEF End, RecordsOf
  <1>3. FilesHold'
    BY <1>2 DEF FilesHold, Holds, Entry
  <1>4. OffsetsRise'
    BY <1>1 DEF OffsetsRise
  <1> QED
    BY <1>1, <1>2, <1>3, <1>4

\* Steps that change the size of one file and no record.
LEMMA FileResized ==
  ASSUME TypeOK, FilesHold, OffsetsRise,
         NEW t \in Segment, NEW f,
         file' = [file EXCEPT ![t] = f], UNCHANGED <<log, gone>>,
         f.recs = file[t].recs, f # NoFile => End(t) <= f.size
  PROVE  /\ FilesHold' /\ OffsetsRise'
         /\ \A s \in Segment : End(s)' = End(s) /\ (s # t => file'[s] = file[s])
         /\ \A s : RecordsOf(s)' = RecordsOf(s)
         /\ file'[t] = f
         /\ Positions' = Positions
  <1>0. \A s \in Segment : file'[s] = IF s = t THEN f ELSE file[s]
    BY DEF TypeOK
  <1>1. Positions' = Positions
    BY DEF Positions
  <1>2. \A s : RecordsOf(s)' = RecordsOf(s)
    BY <1>1 DEF RecordsOf
  <1>3. \A s \in Segment : End(s)' = End(s)
    BY <1>0, ReplayOfRecords DEF End
  <1>4. ASSUME NEW s \in Segment PROVE Holds(s)'
    <2>1. file'[s].recs = file[s].recs
      BY <1>0
    <2>2. file'[s] # NoFile => End(s) <= file'[s].size
      BY <1>0 DEF FilesHold, Holds
    <2> QED
      BY <2>1, <2>2, <1>2, <1>3 DEF FilesHold, Holds, Entry
  <1>5. FilesHold'
    BY <1>4 DEF FilesHold
  <1>6. OffsetsRise'
    BY <1>1 DEF OffsetsRise
  <1> QED
    BY <1>0, <1>1, <1>2, <1>3, <1>5, <1>6

\* A record written behind the last one.
LEMMA RecordWritten ==
  ASSUME TypeOK, FilesHold, OffsetsRise,
         NEW k \in Key, NEW n \in Length,
         WriteRecord([key |-> k, len |-> n]), UNCHANGED gone,
         Len(log) < MaxRecords, curOff + n <= curSize,
         file[curId] # NoFile, file[curId].size = curSize, End(curId) = curOff
  PROVE  /\ FilesHold' /\ OffsetsRise'
         /\ file' \in [Segment -> [size : -1..Cap, recs : SUBSET Content]]
         /\ \A s \in Segment : s # curId => file'[s] = file[s]
         /\ \A s \in Segment : s # curId => RecordsOf(s)' = RecordsOf(s)
         /\ \A s \in Segment : s = curId => RecordsOf(s)' = RecordsOf(s) \cup {Len(log) + 1}
         /\ file'[curId].size = curSize /\ file'[curId] # NoFile
         /\ curOff' = curOff + n /\ curOff' \in 0..Cap
         /\ \A s \in Segment : s # curId => End(s)' = End(s)
         /\ ReplaySegment(file'[curId]) = curOff'
         /\ log' \in Seq(Record) /\ Len(log') = Len(log) + 1
         /\ Positions' = Positions \cup {Len(log) + 1}
         /\ \A p \in Positions : log'[p] = log[p]
         /\ log'[Len(log) + 1].seg = curId
  <1> DEFINE m == Len(log) + 1
             c == [off |-> curOff, len |-> n, pos |-> m]
             e == [key |-> k, seg |-> curId, off |-> curOff, len |-> n]
             g == Overwrite(file[curId], c)
  <1>1. /\ curId \in Segment /\ curOff \in 0..Cap /\ curSize \in 0..Cap
        /\ curOff \in Nat /\ curSize \in Nat /\ n \in Nat /\ n > 0 /\ curSize <= Cap
        /\ Len(log) \in Nat /\ gone \subseteq Positions
    BY Sizes, RecordTypes DEF TypeOK
  <1>2. curOff + n \in 0..Cap
    BY <1>1, Sizes
  <1>3. c \in Content /\ e \in Record
    BY <1>1, Sizes DEF Content, Record
  <1>4. /\ file' = [file EXCEPT ![curId] = g]
        /\ log' = Append(log, e)
        /\ curOff' = curOff + n
    BY DEF WriteRecord
  <1>5. /\ log' \in Seq(Record) /\ Len(log') = m
        /\ Positions' = Positions \cup {m} /\ m \notin Positions
        /\ \A p \in Positions : log'[p] = log[p]
        /\ log'[m] = e
        /\ \A s \in Segment : RecordsOf(s)' = RecordsOf(s) \cup (IF s = curId THEN {m} ELSE {})
    BY <1>3, <1>4, LogAppend
  <1>6. /\ g.recs = file[curId].recs \cup {c}
        /\ Chain(g.recs, curOff + n)
        /\ ReplaySegment(g) = curOff + n
    <2>1. Chain(file[curId].recs, c.off) /\ c.off = curOff /\ c.len = n
      BY <1>1 DEF FilesHold, Holds
    <2>2. file[curId].recs \subseteq Content
      BY <1>1, FileTypes
    <2>3. /\ Overwrite(file[curId], c).recs = file[curId].recs \cup {c}
          /\ Chain(file[curId].recs \cup {c}, c.off + c.len)
          /\ ReplaySegment(Overwrite(file[curId], c)) = c.off + c.len
      <3> HIDE DEF c
      <3> QED
        BY <1>3, <2>1, <2>2, ChainAppend
    <2> QED
      BY <2>1, <2>3
  <1>7. g.size = curSize
    BY <1>1 DEF Overwrite
  <1>8. g \in [size : -1..Cap, recs : SUBSET Content] /\ g # NoFile
    <2>1. g.recs \subseteq Content
      BY <1>1, <1>3, <1>6, FileTypes
    <2>2. g = [size |-> g.size, recs |-> g.recs]
      BY DEF Overwrite
    <2>3. g.size \in -1..Cap /\ g.size # -1
      BY <1>1, <1>7
    <2> QED
      BY <2>1, <2>2, <2>3 DEF NoFile
  <1>9. \A s \in Segment : file'[s] = IF s = curId THEN g ELSE file[s]
    BY <1>4 DEF TypeOK
  <1>10. file' \in [Segment -> [size : -1..Cap, recs : SUBSET Content]]
    BY <1>4, <1>8 DEF TypeOK
  <1>11. \A s \in Segment : End(s)' = IF s = curId THEN curOff + n ELSE End(s)
    BY <1>6, <1>9 DEF End
  <1>12. (\A p \in Positions : Entry(p)' = Entry(p)) /\ \A p : p = m => Entry(p)' = c
    BY <1>5 DEF Entry
  <1>13. ASSUME NEW s \in Segment PROVE Holds(s)'
    <2>1. CASE s # curId
      <3>1. RecordsOf(s)' = RecordsOf(s) /\ file'[s] = file[s] /\ End(s)' = End(s)
        BY <2>1, <1>5, <1>9, <1>11
      <3>2. RecordsOf(s) \subseteq Positions
        BY DEF RecordsOf
      <3>3. Holds(s)
        BY DEF FilesHold
      <3>4. \A p \in RecordsOf(s)' \ gone' : Entry(p)' \in file'[s].recs
        BY <3>1, <3>2, <3>3, <1>12 DEF Holds
      <3>5. \A r \in file'[s].recs : r.pos \in RecordsOf(s)' \ gone' /\ r = Entry(r.pos)'
        BY <3>1, <3>2, <3>3, <1>12 DEF Holds
      <3>6. Chain(file'[s].recs, End(s)') /\ (file'[s] # NoFile => End(s)' <= file'[s].size)
        BY <3>1, <3>3 DEF Holds
      <3> QED
        BY <3>4, <3>5, <3>6 DEF Holds
    <2>2. CASE s = curId
      <3>1. RecordsOf(s)' = RecordsOf(s) \cup {m} /\ file'[s] = g /\ End(s)' = curOff + n
        BY <2>2, <1>5, <1>9, <1>11
      <3>2. RecordsOf(s) \subseteq Positions
        BY DEF RecordsOf
      <3>3. Holds(s)
        BY DEF FilesHold
      <3>4. \A p \in RecordsOf(s)' \ gone' : Entry(p)' \in file'[s].recs
        BY <2>2, <3>1, <3>2, <3>3, <1>6, <1>12 DEF Holds
      <3>5. \A r \in file'[s].recs : r.pos \in RecordsOf(s)' \ gone' /\ r = Entry(r.pos)'
        <4>1. c.pos = m /\ m \notin gone
          BY <1>1, <1>5
        <4>2. ASSUME NEW r \in file[s].recs PROVE r.pos \in RecordsOf(s)' \ gone' /\ r = Entry(r.pos)'
          BY <3>1, <3>2, <3>3, <1>12 DEF Holds
        <4> QED
          BY <2>2, <3>1, <4>1, <4>2, <1>6, <1>12
      <3>6. Chain(file'[s].recs, End(s)') /\ (file'[s] # NoFile => End(s)' <= file'[s].size)
        BY <3>1, <1>6, <1>7
      <3> QED
        BY <3>4, <3>5, <3>6 DEF Holds
    <2> QED
      BY <2>1, <2>2
  <1>14. FilesHold'
    BY <1>13 DEF FilesHold
  <1>15. OffsetsRise'
    <2>1. SUFFICES ASSUME NEW p \in Positions', NEW q \in Positions',
                          p < q, log'[p].seg = log'[q].seg, p \notin gone
                   PROVE  q \notin gone /\ log'[p].off + log'[p].len <= log'[q].off
      BY DEF OffsetsRise
    <2>2. p \in Positions
      BY <2>1, <1>1, <1>5 DEF Positions
    <2>3. CASE q \in Positions
      BY <2>1, <2>2, <2>3, <1>5 DEF OffsetsRise
    <2>4. CASE q = m
      <3>1. q \notin gone /\ log'[q].off = curOff /\ log[p].seg = curId
        BY <2>1, <2>2, <2>4, <1>1, <1>5
      <3>2. p \in RecordsOf(curId) \ gone
        BY <2>1, <2>2, <3>1 DEF RecordsOf
      <3>3. Entry(p) \in file[curId].recs
        BY <3>2, <1>1 DEF FilesHold, Holds
      <3>4. Entry(p).off + Entry(p).len <= curOff
        BY <3>3, <1>1 DEF FilesHold, Holds, Chain
      <3> QED
        BY <3>1, <3>4, <2>2, <1>5 DEF Entry
    <2> QED
      BY <2>3, <2>4, <1>5
  <1>16. file'[curId] = g /\ \A s \in Segment : s # curId => file'[s] = file[s] /\ End(s)' = End(s)
    BY <1>1, <1>9, <1>11
  <1>17. /\ \A s \in Segment : s # curId => RecordsOf(s)' = RecordsOf(s)
         /\ \A s \in Segment : s = curId => RecordsOf(s)' = RecordsOf(s) \cup {Len(log) + 1}
         /\ log'[Len(log) + 1].seg = curId
    <2>1. ASSUME NEW s \in Segment, s # curId PROVE RecordsOf(s)' = RecordsOf(s)
      BY <2>1, <1>5
    <2>2. ASSUME NEW s \in Segment, s = curId PROVE RecordsOf(s)' = RecordsOf(s) \cup {Len(log) + 1}
      BY <2>2, <1>5
    <2> QED
      BY <2>1, <2>2, <1>5
  <1> HIDE DEF g
  <1> QED
    BY <1>2, <1>4, <1>5, <1>6, <1>7, <1>8, <1>10, <1>14, <1>15, <1>16, <1>17

\* The file of a segment unlinked, and with it all its records.
LEMMA FileDeleted ==
  ASSUME TypeOK, FilesHold, OffsetsRise, NEW t \in Segment,
         file' = [file EXCEPT ![t] = NoFile],
         gone' = gone \cup RecordsOf(t), UNCHANGED log
  PROVE  /\ FilesHold' /\ OffsetsRise'
         /\ \A s \in Segment : s # t => file'[s] = file[s] /\ End(s)' = End(s)
         /\ file'[t] = NoFile /\ file' \in [Segment -> [size : -1..Cap, recs : SUBSET Content]]
         /\ \A s : RecordsOf(s)' = RecordsOf(s)
         /\ \A s : s # t => RecordsOf(s) \ gone' = RecordsOf(s) \ gone
         /\ Positions' = Positions /\ gone' \subseteq Positions
  <1>0. \A s \in Segment : file'[s] = IF s = t THEN NoFile ELSE file[s]
    BY DEF TypeOK
  <1>1. Positions' = Positions /\ gone' \subseteq Positions
    BY DEF Positions, RecordsOf, TypeOK
  <1>2. \A s : RecordsOf(s)' = RecordsOf(s)
    BY <1>1 DEF RecordsOf
  <1>3. \A s : s # t => RecordsOf(s) \ gone' = RecordsOf(s) \ gone
    BY DEF RecordsOf
  <1>4. \A s \in Segment : s # t => End(s)' = End(s)
    BY <1>0 DEF End
  <1>5. NoFile.recs = {} /\ ReplaySegment(NoFile) = 0
    BY EmptyChain DEF NoFile
  <1>6. file' \in [Segment -> [size : -1..Cap, recs : SUBSET Content]]
    <2>1. -1 \in -1..Cap
      BY Sizes
    <2>2. NoFile \in [size : -1..Cap, recs : SUBSET Content]
      BY <2>1 DEF NoFile
    <2> QED
      BY <2>2 DEF TypeOK
  <1>7. ASSUME NEW s \in Segment PROVE Holds(s)'
    <2>1. CASE s = t
      <3>1. file'[s].recs = {} /\ End(s)' = 0 /\ RecordsOf(s)' \ gone' = {}
        BY <2>1, <1>0, <1>2, <1>5 DEF End
      <3> QED
        BY <3>1, <2>1, <1>0, EmptyChain DEF Holds
    <2>2. CASE s # t
      BY <2>2, <1>0, <1>2, <1>3, <1>4 DEF FilesHold, Holds, Entry
    <2> QED
      BY <2>1, <2>2
  <1>8. FilesHold'
    BY <1>7 DEF FilesHold
  <1>9. OffsetsRise'
    BY <1>1 DEF OffsetsRise, RecordsOf
  <1> QED
    BY <1>0, <1>1, <1>2, <1>3, <1>4, <1>6, <1>8, <1>9

-----------------------------------------------------------------------------
(* Every action keeps the invariant.                                       *)

\* What TypeOK says of the metadata and of the store's memory.
LEMMA MemoryTypes ==
  ASSUME TypeOK
  PROVE  /\ meta.id \in Segment /\ meta.id \in Nat /\ meta.id <= MaxRecords
         /\ meta.crcOf \in Segment \cup {NoChecksum}
         /\ meta = [id |-> meta.id, crcOf |-> meta.crcOf]
         /\ curId \in Segment /\ curId \in Nat /\ curId <= MaxRecords
         /\ curOff \in Nat /\ curOff <= Cap
         /\ curSize \in Nat /\ curSize <= Cap
         /\ Len(log) \in Nat
  <1>1. meta.id \in Segment /\ meta.crcOf \in Segment \cup {NoChecksum}
    BY DEF TypeOK
  <1>2. meta = [id |-> meta.id, crcOf |-> meta.crcOf]
    BY DEF TypeOK
  <1>3. curId \in Segment /\ curOff \in 0..Cap /\ curSize \in 0..Cap
    BY DEF TypeOK
  <1> QED
    BY <1>1, <1>2, <1>3, Sizes, RecordTypes

\* The metadata file names the next segment.
LEMMA WriteSegmentIdKeeps ==
  ASSUME IInv, WriteSegmentId
  PROVE  IInv'
  <1>0. /\ TypeOK /\ FilesHold /\ OffsetsRise /\ ClosedIsCut /\ NothingAbove
        /\ SegmentsCount /\ IdleInv /\ CutInv /\ NewInv /\ RollingInv
        /\ CleanInv /\ DownInv /\ ChecksumInv
    BY DEF IInv
  <1>1. mode = "up" /\ pc = "id" /\ pc' = "crc"
    BY <1>0 DEF WriteSegmentId, DownInv
  <1>2. UNCHANGED <<file, mode, curId, curOff, curSize, arg, wasFull, clean, log, gone, torn>>
    BY DEF WriteSegmentId
  <1>3. curId + 1 \in Segment
    BY <1>0, <1>1, MemoryTypes, Sizes DEF CutInv, RollingInv, SegmentsCount, Top, Segment
  <1>4. meta' = [id |-> curId + 1, crcOf |-> meta.crcOf]
    BY <1>0, MemoryTypes DEF WriteSegmentId
  <1>5. TypeOK'
    <2>1. meta' \in [id : Segment, crcOf : Segment \cup {NoChecksum}]
      BY <1>0, <1>3, <1>4, MemoryTypes
    <2>2. pc' \in {"idle", "id", "crc", "open", "pad", "write", "shut", "shutNew"}
      BY <1>1
    <2> QED
      BY <1>0, <1>2, <2>1, <2>2 DEF TypeOK, Positions
  <1>6. FilesHold' /\ OffsetsRise'
    BY <1>0, <1>2, DiskKept
  <1>7. Top' = Top /\ Cur' = Cur
    BY <1>1, <1>2 DEF Top, Cur, Rolled
  <1>8. ClosedIsCut'
    BY <1>0, <1>2, <1>7 DEF ClosedIsCut, Files, End
  <1>9. NothingAbove' /\ SegmentsCount' /\ CleanInv'
    BY <1>0, <1>2, <1>7 DEF NothingAbove, SegmentsCount, CleanInv, Positions, RecordsOf
  <1>10. CutInv'
    BY <1>0, <1>1, <1>2, <1>4 DEF CutInv, End, RecordsOf, Positions
  <1>11. RollingInv'
    BY <1>0, <1>1, <1>2, <1>7 DEF RollingInv, RecordsOf, Positions
  <1>12. IdleInv' /\ NewInv' /\ DownInv' /\ ChecksumInv'
    BY <1>1, <1>2 DEF IdleInv, NewInv, DownInv, ChecksumInv, Rolled
  <1> QED
    BY <1>5, <1>6, <1>8, <1>9, <1>10, <1>11, <1>12 DEF IInv

\* The checksum is written, or its write fails unnoticed.
LEMMA WriteChecksumKeeps ==
  ASSUME IInv, WriteChecksum \/ WriteChecksumFails
  PROVE  IInv'
  <1>0. /\ TypeOK /\ FilesHold /\ OffsetsRise /\ ClosedIsCut /\ NothingAbove
        /\ SegmentsCount /\ IdleInv /\ CutInv /\ NewInv /\ RollingInv
        /\ CleanInv /\ DownInv /\ ChecksumInv
    BY DEF IInv
  <1>1. mode = "up" /\ pc = "crc" /\ pc' = "open"
    BY <1>0 DEF WriteChecksum, WriteChecksumFails, DownInv
  <1>2. UNCHANGED <<file, mode, curId, curOff, curSize, arg, wasFull, clean, log, gone>>
    BY DEF WriteChecksum, WriteChecksumFails
  <1>3. meta.id = curId + 1
    BY <1>0, <1>1 DEF CutInv
  <1>4. /\ meta'.id = curId + 1
        /\ meta' \in [id : Segment, crcOf : Segment \cup {NoChecksum}]
        /\ torn' \/ ChecksumMatches'
    <2>1. CASE WriteChecksum
      <3>1. meta' = [id |-> curId + 1, crcOf |-> curId + 1]
        BY <2>1, <1>0, <1>3, MemoryTypes DEF WriteChecksum
      <3>2. curId + 1 \in Segment
        BY <1>0, <1>3, MemoryTypes
      <3> QED
        BY <3>1, <3>2 DEF ChecksumMatches
    <2>2. CASE WriteChecksumFails
      <3>1. meta' = meta /\ torn' = (meta.crcOf # NoChecksum)
        BY <2>2 DEF WriteChecksumFails
      <3>2. torn' \/ ChecksumMatches'
        BY <3>1 DEF ChecksumMatches
      <3> QED
        BY <1>0, <1>3, <3>1, <3>2 DEF TypeOK
    <2> QED
      BY <2>1, <2>2
  <1>5. TypeOK'
    <2>1. torn' \in BOOLEAN
      BY Zenon DEF WriteChecksum, WriteChecksumFails
    <2>2. pc' \in {"idle", "id", "crc", "open", "pad", "write", "shut", "shutNew"}
      BY <1>1
    <2> QED
      BY <1>0, <1>2, <1>4, <2>1, <2>2 DEF TypeOK, Positions
  <1>6. FilesHold' /\ OffsetsRise'
    BY <1>0, <1>2, DiskKept
  <1>7. Top' = Top /\ Cur' = Cur
    BY <1>1, <1>2 DEF Top, Cur, Rolled
  <1>8. ClosedIsCut'
    BY <1>0, <1>2, <1>7 DEF ClosedIsCut, Files, End
  <1>9. NothingAbove' /\ SegmentsCount' /\ CleanInv'
    BY <1>0, <1>2, <1>7 DEF NothingAbove, SegmentsCount, CleanInv, Positions, RecordsOf
  <1>10. CutInv'
    BY <1>0, <1>1, <1>2, <1>4 DEF CutInv, End, RecordsOf, Positions
  <1>11. RollingInv'
    BY <1>0, <1>1, <1>2, <1>7 DEF RollingInv, RecordsOf, Positions
  <1>12. IdleInv' /\ NewInv' /\ DownInv' /\ ChecksumInv'
    BY <1>1, <1>2, <1>4 DEF IdleInv, NewInv, DownInv, ChecksumInv, Rolled
  <1> QED
    BY <1>5, <1>6, <1>8, <1>9, <1>10, <1>11, <1>12 DEF IInv

\* A rollover has room for one more segment.
LEMMA RoomForSegment ==
  ASSUME IInv, mode = "up", pc \in {"id", "crc", "open", "shut"}
  PROVE  /\ curId < Len(log)
         /\ Len(log) <= MaxRecords => curId + 1 \in Segment
         /\ RecordsOf(curId + 1) = {}
  <1>1. curId < Len(log)
    BY DEF IInv, CutInv, SegmentsCount, Top
  <1>2. Len(log) <= MaxRecords => curId + 1 \in Segment
    BY <1>1, MemoryTypes, Sizes DEF Segment, IInv
  <1>3. \A p \in Positions : log[p].seg <= curId /\ log[p].seg \in Nat
    BY RecordTypes DEF IInv, NothingAbove, Cur, Top, Rolled
  <1> QED
    BY <1>1, <1>2, <1>3, MemoryTypes DEF RecordsOf, IInv

\* RolloverFails with cur_segment_id_ as it was.
LEMMA RolloverFailsShutKeeps ==
  ASSUME IInv, RolloverFails, pc' = "shut"
  PROVE  IInv'
  <1>0. /\ TypeOK /\ FilesHold /\ OffsetsRise /\ ClosedIsCut /\ NothingAbove
        /\ SegmentsCount /\ IdleInv /\ CutInv /\ NewInv /\ RollingInv
        /\ CleanInv /\ DownInv /\ ChecksumInv
    BY DEF IInv
  <1>1. mode = "up" /\ pc \in {"id", "open"} /\ curId' = curId
    BY <1>0 DEF RolloverFails, DownInv
  <1>2. UNCHANGED <<file, meta, mode, curId, curOff, curSize, clean, log, gone, torn>>
    BY <1>1 DEF RolloverFails
  <1>3. arg' = NoArg /\ wasFull' = FALSE
    BY DEF RolloverFails
  <1>5. TypeOK'
    BY <1>0, <1>2, <1>3 DEF TypeOK, Positions
  <1>6. FilesHold' /\ OffsetsRise'
    BY <1>0, <1>2, DiskKept
  <1>7. Top' = Top /\ Cur' = Cur
    BY <1>1, <1>2 DEF Top, Cur, Rolled
  <1>8. ClosedIsCut'
    BY <1>0, <1>2, <1>7 DEF ClosedIsCut, Files, End
  <1>9. NothingAbove' /\ SegmentsCount' /\ CleanInv'
    BY <1>0, <1>2, <1>7 DEF NothingAbove, SegmentsCount, CleanInv, Positions, RecordsOf
  <1>10. CutInv'
    BY <1>0, <1>1, <1>2 DEF CutInv, End, RecordsOf, Positions
  <1>11. IdleInv' /\ NewInv' /\ RollingInv' /\ DownInv'
    BY <1>1, <1>2 DEF IdleInv, NewInv, RollingInv, DownInv, Rolled
  <1>12. ChecksumInv'
    BY <1>0, <1>1, <1>2 DEF ChecksumInv, ChecksumMatches
  <1> QED
    BY <1>5, <1>6, <1>8, <1>9, <1>10, <1>11, <1>12 DEF IInv

\* RolloverFails in NewSegment or PaddingIfNewSegment.
LEMMA RolloverFailsNewKeeps ==
  ASSUME IInv, RolloverFails, pc' = "shutNew"
  PROVE  IInv'
  <1>0. /\ TypeOK /\ FilesHold /\ OffsetsRise /\ ClosedIsCut /\ NothingAbove
        /\ SegmentsCount /\ IdleInv /\ CutInv /\ NewInv /\ RollingInv
        /\ CleanInv /\ DownInv /\ ChecksumInv
    BY DEF IInv
  <1>1. /\ mode = "up" /\ mode' = "up"
        /\ \/ pc = "open" /\ curId' = curId + 1
           \/ pc = "pad" /\ curId' = curId
    BY <1>0 DEF RolloverFails, DownInv
  <1>2. UNCHANGED <<file, meta, mode, curOff, curSize, clean, log, gone, torn>>
    BY DEF RolloverFails
  <1>3. arg' = NoArg /\ wasFull' = FALSE
    BY DEF RolloverFails
  <1>4. /\ curId' \in Segment
        /\ Cur' = Cur /\ Top' = curId' /\ Top <= Top'
        /\ Top' <= Len(log)
        /\ RecordsOf(curId') # {} => Top' < Len(log)
        /\ 0 < curId' /\ meta.id = curId'
        /\ curId' - 1 \in Files => file[curId' - 1].size = End(curId' - 1)
        /\ file[curId'].size <= 0
    <2>1. CASE pc = "open" /\ curId' = curId + 1
      <3>1. curId + 1 \in Segment /\ curId + 1 <= Len(log) /\ RecordsOf(curId + 1) = {}
        BY <2>1, <1>0, <1>1, RoomForSegment, MemoryTypes, Sizes DEF RollingInv
      <3>2. curId \in Files => file[curId].size = End(curId)
        BY <2>1, <1>0, <1>1 DEF CutInv, Files
      <3>3. meta.id = curId + 1
        BY <2>1, <1>0, <1>1 DEF CutInv
      <3>4. file[curId + 1].size <= 0
        BY <2>1, <1>0, <1>1, <3>1, MemoryTypes DEF NothingAbove, Top, NoFile
      <3>5. Cur' = Cur /\ Top' = curId' /\ Top <= Top'
        BY <2>1, <1>0, <1>1, MemoryTypes DEF Cur, Top, Rolled
      <3>6. 0 < curId + 1 /\ (curId + 1) - 1 = curId
        BY <1>0, MemoryTypes
      <3> QED
        BY <2>1, <3>1, <3>2, <3>3, <3>4, <3>5, <3>6
    <2>2. CASE pc = "pad" /\ curId' = curId
      <3>1. Cur' = Cur /\ Top' = Top /\ Top = curId'
        BY <2>2, <1>1 DEF Cur, Top, Rolled
      <3>2. /\ 0 < curId /\ meta.id = curId
            /\ curId - 1 \in Files => file[curId - 1].size = End(curId - 1)
            /\ file[curId].size = 0
        BY <2>2, <1>0, <1>1 DEF NewInv, Rolled
      <3>3. Top <= Len(log) /\ (RecordsOf(curId) # {} => Top < Len(log))
        BY <1>0, <2>2, <3>1 DEF SegmentsCount
      <3> QED
        BY <2>2, <3>1, <3>2, <3>3, <1>0, MemoryTypes
    <2> QED
      BY <1>1, <2>1, <2>2
  <1>5. TypeOK'
    BY <1>0, <1>2, <1>3, <1>4 DEF TypeOK, Positions
  <1>6. FilesHold' /\ OffsetsRise'
    BY <1>0, <1>2, DiskKept
  <1>8. ClosedIsCut' /\ CleanInv'
    BY <1>0, <1>2, <1>4 DEF ClosedIsCut, CleanInv, Files, End
  <1>9. NothingAbove'
    <2>1. Top \in Nat /\ Top' \in Nat
      BY <1>0, <1>1, <1>4, MemoryTypes, Sizes DEF Top
    <2>2. \A s \in Segment : s > Top' => s > Top
      BY <1>4, <2>1, Sizes
    <2> QED
      BY <1>0, <1>2, <1>4, <2>2 DEF NothingAbove, Positions
  <1>10. SegmentsCount'
    BY <1>2, <1>4 DEF SegmentsCount, RecordsOf, Positions
  <1>11. NewInv'
    BY <1>2, <1>4 DEF NewInv, Rolled, Files, End
  <1>12. IdleInv' /\ CutInv' /\ RollingInv' /\ DownInv'
    BY <1>1, <1>2 DEF IdleInv, CutInv, RollingInv, DownInv
  <1>13. ChecksumInv'
    BY <1>0, <1>1, <1>2 DEF ChecksumInv, ChecksumMatches
  <1> QED
    BY <1>5, <1>6, <1>8, <1>9, <1>10, <1>11, <1>12, <1>13 DEF IInv

\* The new segment stays without a record.
LEMMA AppendToNewFailsKeeps ==
  ASSUME IInv, AppendToNewFails
  PROVE  IInv'
  <1>0. /\ TypeOK /\ FilesHold /\ OffsetsRise /\ ClosedIsCut /\ NothingAbove
        /\ SegmentsCount /\ IdleInv /\ CutInv /\ NewInv /\ RollingInv
        /\ CleanInv /\ DownInv /\ ChecksumInv
    BY DEF IInv
  <1>1. mode = "up" /\ pc = "write" /\ pc' = "idle"
    BY <1>0 DEF AppendToNewFails, DownInv
  <1>2. UNCHANGED <<file, meta, mode, curId, curOff, curSize, clean, log, gone, torn>>
    BY DEF AppendToNewFails
  <1>3. arg' = NoArg /\ wasFull' = FALSE
    BY DEF AppendToNewFails
  <1>4. /\ 0 < curId /\ meta.id = curId /\ curOff = 0 /\ curSize = Cap
        /\ curId - 1 \in Files => file[curId - 1].size = End(curId - 1)
        /\ file[curId] = [size |-> Cap, recs |-> {}]
    BY <1>0, <1>1 DEF NewInv, Rolled
  <1>5. TypeOK'
    BY <1>0, <1>1, <1>2, <1>3 DEF TypeOK, Positions
  <1>6. FilesHold' /\ OffsetsRise'
    BY <1>0, <1>2, DiskKept
  <1>7. Top' = curId /\ Cur' = curId /\ Top = curId /\ Cur = curId - 1 /\ curId \in Nat
    BY <1>0, <1>1, <1>2, MemoryTypes DEF Top, Cur, Rolled
  <1>8. ClosedIsCut'
    <2>1. \A s \in Files : s < curId => file[s].size = End(s)
      <3>1. \A s \in Files : s \in Nat
        BY Sizes DEF Files
      <3>2. \A s \in Files : s < curId => s < Cur \/ s = curId - 1
        BY <3>1, <1>7
      <3> QED
        BY <3>2, <1>0, <1>4 DEF ClosedIsCut
    <2> QED
      BY <2>1, <1>2, <1>7 DEF ClosedIsCut, Files, End
  <1>9. NothingAbove'
    <2>1. \A p \in Positions : log[p].seg <= curId
      BY <1>0, <1>7, RecordTypes DEF NothingAbove
    <2> QED
      BY <2>1, <1>0, <1>2, <1>7 DEF NothingAbove, Positions
  <1>10. SegmentsCount'
    BY <1>0, <1>2, <1>7 DEF SegmentsCount, Positions, RecordsOf
  <1>11. CleanInv' /\ clean # curId
    BY <1>0, <1>1, <1>2, <1>7 DEF CleanInv, TypeOK, NoSegment, Segment
  <1>12. IdleInv'
    <2>1. End(curId) = 0
      BY <1>4, EmptyChain DEF End
    <2> QED
      BY <1>1, <1>2, <1>4, <1>11, <2>1, Sizes DEF IdleInv, End, NoFile
  <1>13. CutInv' /\ NewInv' /\ RollingInv' /\ DownInv'
    BY <1>1, <1>2 DEF CutInv, NewInv, RollingInv, DownInv, Rolled
  <1>14. ChecksumInv'
    BY <1>0, <1>1, <1>2 DEF ChecksumInv, ChecksumMatches
  <1> QED
    BY <1>5, <1>6, <1>8, <1>9, <1>10, <1>11, <1>12, <1>13, <1>14 DEF IInv

\* A record that is not gone is in its file, and ends within it.
LEMMA RecordInFile ==
  ASSUME TypeOK, FilesHold, NEW p \in Positions \ gone
  PROVE  LET s == log[p].seg IN
         /\ s \in Segment
         /\ Entry(p) \in file[s].recs
         /\ file[s] # NoFile
         /\ log[p].off + log[p].len <= End(s)
         /\ End(s) <= file[s].size
  <1> DEFINE s == log[p].seg
  <1>1. s \in Segment
    BY RecordTypes
  <1>2. p \in RecordsOf(s) \ gone
    BY DEF RecordsOf
  <1>3. Holds(s)
    BY <1>1 DEF FilesHold
  <1>4. Entry(p) \in file[s].recs /\ Chain(file[s].recs, End(s))
    BY <1>2, <1>3 DEF Holds
  <1>5. file[s] # NoFile
    BY <1>4 DEF NoFile
  <1>6. log[p].off + log[p].len <= End(s)
    BY <1>4 DEF Chain, Entry
  <1> QED
    BY <1>1, <1>3, <1>4, <1>5, <1>6 DEF Holds

\* A segment is marked for the clean event.
LEMMA RemoveAsyncKeeps ==
  ASSUME IInv, NEW p \in Positions, RemoveAsync(p)
  PROVE  IInv'
  <1>0. /\ TypeOK /\ FilesHold /\ OffsetsRise /\ ClosedIsCut /\ NothingAbove
        /\ SegmentsCount /\ IdleInv /\ CutInv /\ NewInv /\ RollingInv
        /\ CleanInv /\ DownInv /\ ChecksumInv
    BY DEF IInv
  <1>1. mode = "up" /\ pc \in {"idle", "shut", "shutNew"} /\ p \notin gone
    BY DEF RemoveAsync
  <1>2. UNCHANGED <<file, meta, mode, curId, curOff, curSize, pc, arg, wasFull, log, gone, torn>>
    BY DEF RemoveAsync, memory
  <1>3. clean' = clean \/ (EndsFile(p) /\ clean' = log[p].seg)
    BY DEF RemoveAsync
  <1>4. log[p].seg \in Segment /\ log[p].seg <= Cur
    BY <1>0, RecordTypes DEF NothingAbove
  <1>5. TypeOK'
    BY <1>0, <1>2, <1>3, <1>4 DEF TypeOK, Positions
  <1>6. FilesHold' /\ OffsetsRise'
    BY <1>0, <1>2, DiskKept
  <1>7. Top' = Top /\ Cur' = Cur
    BY <1>1, <1>2 DEF Top, Cur, Rolled
  <1>8. ClosedIsCut'
    BY <1>0, <1>2, <1>7 DEF ClosedIsCut, Files, End
  <1>9. NothingAbove' /\ SegmentsCount'
    BY <1>0, <1>2, <1>7 DEF NothingAbove, SegmentsCount, Positions, RecordsOf
  <1>10. CleanInv'
    BY <1>0, <1>1, <1>2, <1>3, <1>4, <1>7 DEF CleanInv
  <1>11. IdleInv'
    <2>1. ASSUME pc = "idle", EndsFile(p), log[p].seg = curId PROVE curOff = curSize
      <3>1. /\ file[curId] # NoFile
            /\ log[p].off + log[p].len <= End(curId)
            /\ log[p].off + log[p].len = file[curId].size
        BY <1>0, <1>1, <2>1, RecordInFile DEF EndsFile
      <3>2. file[curId].size = curSize /\ End(curId) = curOff /\ curOff <= curSize
        BY <3>1, <2>1, <1>0, <1>1 DEF IdleInv
      <3> QED
        BY <3>1, <3>2, <1>0, MemoryTypes
    <2>2. pc = "idle" /\ clean' = curId => curOff = curSize
      BY <2>1, <1>0, <1>1, <1>3 DEF IdleInv
    <2> QED
      BY <2>2, <1>0, <1>1, <1>2 DEF IdleInv, End, RecordsOf, Positions
  <1>12. CutInv' /\ NewInv'
    BY <1>0, <1>1, <1>2 DEF CutInv, NewInv, Rolled, End, RecordsOf, Positions, Files
  <1>13. RollingInv' /\ DownInv'
    BY <1>1, <1>2 DEF RollingInv, DownInv
  <1>14. ChecksumInv'
    BY <1>0, <1>2 DEF ChecksumInv, ChecksumMatches
  <1> QED
    BY <1>5, <1>6, <1>8, <1>9, <1>10, <1>11, <1>12, <1>13, <1>14 DEF IInv

\* Init refuses the metadata.
LEMMA StartRefusedKeeps ==
  ASSUME IInv, StartRefused
  PROVE  IInv'
  <1>0. /\ TypeOK /\ FilesHold /\ OffsetsRise /\ ClosedIsCut /\ NothingAbove
        /\ SegmentsCount /\ IdleInv /\ CutInv /\ NewInv /\ RollingInv
        /\ CleanInv /\ DownInv /\ ChecksumInv
    BY DEF IInv
  <1>1. mode = "down" /\ mode' = "refused" /\ ~ChecksumMatches
    BY DEF StartRefused
  <1>2. UNCHANGED <<file, meta, curId, curOff, curSize, pc, arg, wasFull, clean, log, gone, torn>>
    BY DEF StartRefused, memory
  <1>3. TypeOK'
    BY <1>0, <1>1, <1>2 DEF TypeOK, Positions
  <1>4. FilesHold' /\ OffsetsRise'
    BY <1>0, <1>2, DiskKept
  <1>5. Top' = Top /\ Cur' = Cur
    BY <1>1, <1>2 DEF Top, Cur, Rolled
  <1>6. ClosedIsCut'
    BY <1>0, <1>2, <1>5 DEF ClosedIsCut, Files, End
  <1>7. NothingAbove' /\ SegmentsCount' /\ CleanInv'
    BY <1>0, <1>1, <1>2, <1>5 DEF NothingAbove, SegmentsCount, CleanInv, Positions, RecordsOf
  <1>8. IdleInv' /\ CutInv' /\ NewInv' /\ RollingInv'
    BY <1>1 DEF IdleInv, CutInv, NewInv, RollingInv
  <1>9. DownInv'
    BY <1>0, <1>1, <1>2 DEF DownInv, End
  <1>10. ChecksumInv'
    BY <1>0, <1>1, <1>2 DEF ChecksumInv
  <1> QED
    BY <1>3, <1>4, <1>6, <1>7, <1>8, <1>9, <1>10 DEF IInv

\* What was in memory is gone, wherever the rollover was.
LEMMA CrashKeeps ==
  ASSUME IInv, Crash
  PROVE  IInv'
  <1>0. /\ TypeOK /\ FilesHold /\ OffsetsRise /\ ClosedIsCut /\ NothingAbove
        /\ SegmentsCount /\ IdleInv /\ CutInv /\ NewInv /\ RollingInv
        /\ CleanInv /\ DownInv /\ ChecksumInv
    BY DEF IInv
  <1>1. mode = "up" /\ mode' = "down" /\ pc' = "idle" /\ clean' = NoSegment
    BY DEF Crash
  <1>2. UNCHANGED <<file, meta, log, gone>>
    BY DEF Crash
  <1>3. Top' = meta.id /\ Cur' = meta.id
    BY <1>1, <1>2 DEF Top, Cur, Rolled
  <1>4. TypeOK'
    <2>1. torn' \in BOOLEAN
      BY Zenon DEF Crash
    <2>2. 0 \in Segment /\ 0 \in 0..Cap
      BY Sizes DEF Segment
    <2> QED
      BY <1>0, <1>1, <1>2, <2>1, <2>2 DEF TypeOK, Positions, Crash
  <1>5. FilesHold' /\ OffsetsRise'
    BY <1>0, <1>2, DiskKept
  <1>6. /\ Top <= meta.id /\ meta.id <= Len(log)
        /\ RecordsOf(meta.id) # {} => meta.id < Len(log)
        /\ Cur <= meta.id
        /\ \A s \in Files : s < meta.id => s < Cur \/ file[s].size = End(s)
        /\ 0 < file[meta.id].size => file[meta.id].size \in {Cap, End(meta.id)}
    <2>1. CASE pc = "idle"
      <3>1. meta.id = curId /\ Top = curId /\ Cur = curId
        BY <2>1, <1>0, <1>1 DEF IdleInv, Top, Cur, Rolled
      <3>2. 0 < file[meta.id].size => file[meta.id].size \in {Cap, End(meta.id)}
        BY <2>1, <3>1, <1>0, <1>1 DEF IdleInv, NoFile
      <3> QED
        BY <3>1, <3>2, <1>0, MemoryTypes DEF SegmentsCount
    <2>2. CASE pc \in {"id", "crc", "open", "shut"}
      <3>1. Top = curId /\ Cur = curId /\ meta.id \in {curId, curId + 1}
        BY <2>2, <1>0, <1>1 DEF CutInv, Top, Cur, Rolled
      <3>2. curId \in Files => file[curId].size = End(curId)
        BY <2>2, <1>0, <1>1 DEF CutInv, Files
      <3>3. curId < Len(log) /\ RecordsOf(curId + 1) = {}
        BY <2>2, <1>1, RoomForSegment
      <3>4. CASE meta.id = curId
        <4>1. 0 < file[curId].size => file[curId].size = End(curId)
          BY <3>2, <1>0, MemoryTypes DEF Files, NoFile
        <4> QED
          BY <3>1, <3>3, <3>4, <4>1, <1>0, MemoryTypes
      <3>5. CASE meta.id = curId + 1
        <4>1. file[meta.id] = NoFile
          BY <3>1, <3>5, <1>0, MemoryTypes DEF NothingAbove
        <4>2. \A s \in Files : s < meta.id => s < Cur \/ s = curId
          BY <3>1, <3>5, <1>0, MemoryTypes, Sizes DEF Files
        <4>3. ~(0 < file[meta.id].size)
          BY <4>1 DEF NoFile
        <4> QED
          BY <3>1, <3>2, <3>3, <3>5, <4>2, <4>3, <1>0, MemoryTypes
      <3> QED
        BY <3>1, <3>4, <3>5
    <2>3. CASE Rolled
      <3>1. Top = curId /\ Cur = curId - 1 /\ meta.id = curId
        BY <2>3, <1>0, <1>1 DEF NewInv, Top, Cur
      <3>2. curId - 1 \in Files => file[curId - 1].size = End(curId - 1)
        BY <2>3, <1>0, <1>1 DEF NewInv
      <3>3. file[curId].size <= 0 \/ file[curId].size = Cap
        BY <2>3, <1>0, <1>1 DEF NewInv, Rolled
      <3>4. \A s \in Files : s < meta.id => s < Cur \/ s = curId - 1
        BY <3>1, <1>0, MemoryTypes, Sizes DEF Files
      <3>5. ~(0 < file[curId].size) \/ file[curId].size = Cap
        <4>1. file[curId].size \in Int
          BY <1>0, MemoryTypes, FileTypes
        <4> QED
          BY <3>3, <4>1
      <3> QED
        BY <3>1, <3>2, <3>4, <3>5, <1>0, MemoryTypes DEF SegmentsCount
    <2> QED
      BY <2>1, <2>2, <2>3, <1>0 DEF TypeOK, Rolled
  <1>7. ClosedIsCut'
    <2>1. \A s \in Files : s < meta.id => file[s].size = End(s)
      BY <1>0, <1>6 DEF ClosedIsCut
    <2> QED
      BY <2>1, <1>2, <1>3 DEF ClosedIsCut, Files, End
  <1>8. NothingAbove'
    <2>1. Top \in Nat /\ Cur \in Int
      BY <1>0, <1>1, MemoryTypes DEF Top, Cur
    <2>2. \A s \in Segment : s > meta.id => s > Top
      BY <2>1, <1>0, <1>6, MemoryTypes, Sizes
    <2>3. \A p \in Positions : log[p].seg <= meta.id
      BY <2>1, <1>0, <1>6, MemoryTypes, RecordTypes DEF NothingAbove
    <2> QED
      BY <2>2, <2>3, <1>0, <1>2, <1>3 DEF NothingAbove, Positions
  <1>9. SegmentsCount'
    BY <1>2, <1>3, <1>6 DEF SegmentsCount, RecordsOf, Positions
  <1>10. IdleInv' /\ CutInv' /\ NewInv' /\ RollingInv' /\ CleanInv'
    BY <1>1 DEF IdleInv, CutInv, NewInv, RollingInv, CleanInv
  <1>11. DownInv'
    BY <1>1, <1>2, <1>6 DEF DownInv, End
  <1>12. ChecksumInv'
    <2>1. torn' = (torn \/ (pc = "crc" /\ meta.crcOf # NoChecksum))
      BY DEF Crash
    <2> QED
      BY <2>1, <1>0, <1>1, <1>2 DEF ChecksumInv, ChecksumMatches
  <1> QED
    BY <1>4, <1>5, <1>7, <1>8, <1>9, <1>10, <1>11, <1>12 DEF IInv

\* Init finds the write position by the replay.
LEMMA StartKeeps ==
  ASSUME IInv, Start
  PROVE  IInv'
  <1>0. /\ TypeOK /\ FilesHold /\ OffsetsRise /\ ClosedIsCut /\ NothingAbove
        /\ SegmentsCount /\ IdleInv /\ CutInv /\ NewInv /\ RollingInv
        /\ CleanInv /\ DownInv /\ ChecksumInv
    BY DEF IInv
  <1>1. mode = "down" /\ mode' = "up" /\ ChecksumMatches /\ curId' = meta.id
    BY DEF Start
  <1>2. UNCHANGED <<meta, pc, arg, wasFull, clean, log, gone, torn>>
    BY DEF Start
  <1>3. pc = "idle" /\ clean = NoSegment
    BY <1>0, <1>1 DEF DownInv, CleanInv
  <1>4. Top' = meta.id /\ Cur' = meta.id /\ Top = meta.id /\ Cur = meta.id
    BY <1>1, <1>2, <1>3 DEF Top, Cur, Rolled
  <1>5. meta.id \in Segment /\ meta.id \in Nat /\ file[meta.id].size \in Int
    <2>1. meta.id \in Segment /\ meta.id \in Nat
      BY <1>0, MemoryTypes
    <2> QED
      BY <2>1, <1>0, FileTypes
  <1>6. /\ file' \in [Segment -> [size : -1..Cap, recs : SUBSET Content]]
        /\ curOff' \in 0..Cap /\ curSize' \in 0..Cap
        /\ FilesHold' /\ OffsetsRise'
        /\ \A s \in Segment : s # meta.id => file'[s] = file[s]
        /\ file'[meta.id] # NoFile
        /\ file'[meta.id].size = curSize' /\ ReplaySegment(file'[meta.id]) = curOff'
        /\ 0 < curSize' /\ curOff' <= curSize'
        /\ curSize' = Cap \/ curOff' = curSize'
        /\ 0 < curOff' => RecordsOf(meta.id) # {}
    <2>1. CASE file[meta.id].size <= 0
      <3> DEFINE f == [size |-> Cap, recs |-> {}]
      <3>1. file' = [file EXCEPT ![meta.id] = f] /\ curSize' = Cap /\ curOff' = 0
        BY <2>1, <1>5 DEF Start
      <3>2. file[meta.id].recs = {} /\ End(meta.id) = 0
        BY <2>1, <1>0, <1>5, EndTypes
      <3>3. f # NoFile /\ f \in [size : -1..Cap, recs : SUBSET Content]
        BY Sizes DEF NoFile
      <3>4. f.recs = file[meta.id].recs /\ End(meta.id) <= f.size /\ f.size = Cap
        BY <3>2, Sizes
      <3>5. ReplaySegment(f) = 0
        BY EmptyChain
      <3> HIDE DEF f
      <3>6. FilesHold' /\ OffsetsRise' /\ \A s \in Segment : s # meta.id => file'[s] = file[s]
        BY <1>0, <1>2, <1>5, <3>1, <3>4, FileResized
      <3>7. file'[meta.id] = f
        BY <1>0, <1>5, <3>1 DEF TypeOK
      <3>8. file' \in [Segment -> [size : -1..Cap, recs : SUBSET Content]]
        BY <1>0, <3>1, <3>3 DEF TypeOK
      <3> QED
        BY <3>1, <3>3, <3>4, <3>5, <3>6, <3>7, <3>8, Sizes
    <2>2. CASE file[meta.id].size > 0
      <3>1. file' = file /\ curSize' = file[meta.id].size /\ curOff' = End(meta.id)
        BY <2>2, <1>5 DEF Start, End
      <3>2. file[meta.id] # NoFile
        BY <2>2 DEF NoFile
      <3>3. /\ End(meta.id) \in Nat /\ End(meta.id) <= file[meta.id].size
            /\ 0 < End(meta.id) => RecordsOf(meta.id) # {}
        BY <3>2, <1>0, <1>5, EndTypes
      <3>4. file[meta.id].size = Cap \/ file[meta.id].size = End(meta.id)
        BY <2>2, <1>0, <1>1 DEF DownInv
      <3>5. file[meta.id].size \in Int /\ file[meta.id].size <= Cap
        BY <1>0, <1>5, FileTypes
      <3>6. FilesHold' /\ OffsetsRise'
        BY <1>0, <1>2, <3>1, DiskKept
      <3>7. curOff' \in 0..Cap /\ curSize' \in 0..Cap
        BY <2>2, <3>1, <3>3, <3>5, Sizes
      <3>8. ReplaySegment(file'[meta.id]) = curOff'
        BY <3>1 DEF End
      <3> QED
        BY <2>2, <3>1, <3>2, <3>3, <3>4, <3>6, <3>7, <3>8, <1>0 DEF TypeOK
    <2> QED
      BY <2>1, <2>2, <1>5
  <1>7. TypeOK'
    BY <1>0, <1>1, <1>2, <1>5, <1>6 DEF TypeOK, Positions
  <1>8. ClosedIsCut'
    <2>1. \A s \in Segment : s < meta.id => s # meta.id
      BY <1>5, Sizes
    <2> QED
      BY <2>1, <1>0, <1>4, <1>6 DEF ClosedIsCut, Files, End
  <1>9. NothingAbove'
    <2>1. \A s \in Segment : s > meta.id => s # meta.id
      BY <1>5, Sizes
    <2> QED
      BY <2>1, <1>0, <1>2, <1>4, <1>6 DEF NothingAbove, Positions
  <1>10. SegmentsCount'
    BY <1>0, <1>2, <1>4 DEF SegmentsCount, RecordsOf, Positions
  <1>11. IdleInv'
    <2>1. clean' # curId'
      BY <1>1, <1>2, <1>3, <1>5 DEF NoSegment
    <2> QED
      BY <2>1, <1>1, <1>2, <1>6 DEF IdleInv, End, RecordsOf, Positions
  <1>12. CutInv' /\ NewInv' /\ RollingInv' /\ CleanInv' /\ DownInv'
    BY <1>1, <1>2, <1>3 DEF CutInv, NewInv, RollingInv, CleanInv, DownInv, Rolled
  <1>13. ChecksumInv'
    BY <1>1, <1>2 DEF ChecksumInv, ChecksumMatches
  <1> QED
    BY <1>6, <1>7, <1>8, <1>9, <1>10, <1>11, <1>12, <1>13 DEF IInv

\* The file of the next segment is created.
LEMMA NewSegmentKeeps ==
  ASSUME IInv, NewSegment
  PROVE  IInv'
  <1>0. /\ TypeOK /\ FilesHold /\ OffsetsRise /\ ClosedIsCut /\ NothingAbove
        /\ SegmentsCount /\ IdleInv /\ CutInv /\ NewInv /\ RollingInv
        /\ CleanInv /\ DownInv /\ ChecksumInv
    BY DEF IInv
  <1>1. mode = "up" /\ pc = "open" /\ pc' = "pad" /\ curId' = curId + 1
    BY <1>0 DEF NewSegment, DownInv
  <1>2. UNCHANGED <<meta, mode, curOff, curSize, arg, wasFull, clean, log, gone, torn>>
    BY DEF NewSegment
  <1>3. /\ curId + 1 \in Segment /\ curId + 1 \in Nat /\ curId \in Segment /\ curId \in Nat
        /\ curId + 1 <= Len(log) /\ RecordsOf(curId + 1) = {}
    BY <1>0, <1>1, RoomForSegment, MemoryTypes, Sizes DEF RollingInv
  <1>t. PICK t \in Segment : t = curId + 1
    BY <1>3
  <1> DEFINE f == [size |-> 0, recs |-> {}]
  <1>4. file' = [file EXCEPT ![t] = f]
    <2>1. file' = [file EXCEPT ![curId + 1] = f]
      BY DEF NewSegment
    <2> QED
      BY <2>1, <1>t
  <1>5. Top = curId /\ Cur = curId /\ Top' = curId + 1 /\ Cur' = curId
    BY <1>1, <1>2, <1>3 DEF Top, Cur, Rolled
  <1>6. file[t] = NoFile
    <2>1. t > curId
      BY <1>3, <1>t
    <2> QED
      BY <2>1, <1>0, <1>5 DEF NothingAbove
  <1>7. /\ FilesHold' /\ OffsetsRise'
        /\ \A s \in Segment : s # t => file'[s] = file[s]
        /\ file'[t] = f
    <2>1. f.recs = file[t].recs /\ f.size = 0
      BY <1>6 DEF NoFile
    <2>2. End(t) = 0
      BY <1>6, EmptyChain DEF End, NoFile
    <2>3. End(t) <= f.size
      BY <2>1, <2>2
    <2> HIDE DEF f
    <2> QED
      BY <1>0, <1>2, <1>4, <2>1, <2>3, FileResized
  <1>8. TypeOK'
    <2>1. f \in [size : -1..Cap, recs : SUBSET Content]
      BY Sizes
    <2>2. file' \in [Segment -> [size : -1..Cap, recs : SUBSET Content]]
      BY <1>0, <1>4, <2>1 DEF TypeOK
    <2> QED
      BY <2>2, <1>0, <1>1, <1>2, <1>3 DEF TypeOK, Positions
  <1>9. \A s \in Segment : s <= curId => file'[s] = file[s] /\ s # curId + 1
    <2>1. \A s \in Segment : s <= curId => s # curId + 1
      BY <1>3, Sizes
    <2> QED
      BY <2>1, <1>7, <1>t
  <1>10. ClosedIsCut'
    <2>1. \A s \in Segment : s < curId => s <= curId
      BY <1>3, Sizes
    <2> QED
      BY <2>1, <1>0, <1>5, <1>9 DEF ClosedIsCut, Files, End
  <1>11. NothingAbove'
    <2>1. \A s \in Segment : s > curId + 1 => s > curId /\ s # curId + 1
      BY <1>3, Sizes
    <2> QED
      BY <2>1, <1>0, <1>2, <1>5, <1>7, <1>t DEF NothingAbove, Positions
  <1>12. SegmentsCount' /\ CleanInv'
    BY <1>0, <1>2, <1>3, <1>5 DEF SegmentsCount, CleanInv, RecordsOf, Positions
  <1>13. NewInv'
    <2>1. meta.id = curId + 1
      BY <1>0, <1>1 DEF CutInv
    <2>2. curId' - 1 = curId /\ 0 < curId'
      BY <1>1, <1>3
    <2>3. file'[curId] = file[curId]
      BY <1>3, <1>9
    <2>4. file[curId] # NoFile => file[curId].size = End(curId)
      BY <1>0, <1>1 DEF CutInv
    <2> QED
      BY <1>1, <1>2, <1>7, <1>t, <2>1, <2>2, <2>3, <2>4 DEF NewInv, Files, End
  <1>14. RollingInv'
    BY <1>0, <1>1, <1>2, <1>5 DEF RollingInv, RecordsOf, Positions
  <1>15. IdleInv' /\ CutInv' /\ DownInv'
    BY <1>1, <1>2 DEF IdleInv, CutInv, DownInv
  <1>16. ChecksumInv'
    BY <1>0, <1>1, <1>2 DEF ChecksumInv, ChecksumMatches
  <1> QED
    BY <1>7, <1>8, <1>10, <1>11, <1>12, <1>13, <1>14, <1>15, <1>16 DEF IInv

\* It gets its full size.
LEMMA PadNewSegmentKeeps ==
  ASSUME IInv, PadNewSegment
  PROVE  IInv'
  <1>0. /\ TypeOK /\ FilesHold /\ OffsetsRise /\ ClosedIsCut /\ NothingAbove
        /\ SegmentsCount /\ IdleInv /\ CutInv /\ NewInv /\ RollingInv
        /\ CleanInv /\ DownInv /\ ChecksumInv
    BY DEF IInv
  <1>1. /\ mode = "up" /\ pc = "pad" /\ pc' = "write"
        /\ curSize' = Cap /\ curOff' = 0
    BY <1>0 DEF PadNewSegment, DownInv
  <1>2. UNCHANGED <<meta, mode, curId, arg, wasFull, clean, log, gone, torn>>
    BY DEF PadNewSegment
  <1>3. /\ 0 < curId /\ meta.id = curId /\ file[curId] = [size |-> 0, recs |-> {}]
        /\ curId - 1 \in Files => file[curId - 1].size = End(curId - 1)
        /\ curId \in Segment /\ curId \in Nat
    BY <1>0, <1>1, MemoryTypes DEF NewInv, Rolled
  <1> DEFINE f == [size |-> Cap, recs |-> {}]
  <1>4. file' = [file EXCEPT ![curId] = f]
    <2>1. [file[curId] EXCEPT !.size = Cap] = f
      BY <1>3
    <2>2. file' = [file EXCEPT ![curId] = [file[curId] EXCEPT !.size = Cap]]
      BY DEF PadNewSegment
    <2> QED
      BY <2>1, <2>2
  <1>5. Top' = Top /\ Cur' = Cur /\ Top = curId /\ Cur = curId - 1
    BY <1>1, <1>2 DEF Top, Cur, Rolled
  <1>7. /\ FilesHold' /\ OffsetsRise'
        /\ \A s \in Segment : s # curId => file'[s] = file[s]
        /\ file'[curId] = f
    <2>1. f.recs = file[curId].recs /\ f.size = Cap
      BY <1>3
    <2>2. End(curId) <= Cap
      BY <1>3, EmptyChain, Sizes DEF End
    <2> HIDE DEF f
    <2> QED
      BY <1>0, <1>2, <1>3, <1>4, <2>1, <2>2, FileResized
  <1>8. TypeOK'
    <2>1. f \in [size : -1..Cap, recs : SUBSET Content]
      BY Sizes
    <2>2. file' \in [Segment -> [size : -1..Cap, recs : SUBSET Content]]
      BY <1>0, <1>4, <2>1 DEF TypeOK
    <2>3. curSize' \in 0..Cap /\ curOff' \in 0..Cap
      BY <1>1, Sizes
    <2> QED
      BY <2>2, <2>3, <1>0, <1>1, <1>2 DEF TypeOK, Positions
  <1>10. ClosedIsCut'
    <2>1. \A s \in Segment : s < curId - 1 => s # curId
      BY <1>3, Sizes
    <2> QED
      BY <2>1, <1>0, <1>5, <1>7 DEF ClosedIsCut, Files, End
  <1>11. NothingAbove'
    <2>1. \A s \in Segment : s > curId => s # curId
      BY <1>3, Sizes
    <2> QED
      BY <2>1, <1>0, <1>2, <1>5, <1>7 DEF NothingAbove, Positions
  <1>12. SegmentsCount' /\ CleanInv'
    BY <1>0, <1>2, <1>5 DEF SegmentsCount, CleanInv, RecordsOf, Positions
  <1>13. NewInv'
    <2>1. curId - 1 # curId
      BY <1>3
    <2>2. curId - 1 \in Segment
      BY <1>3, Sizes DEF Segment
    <2>3. file'[curId - 1] = file[curId - 1]
      BY <1>7, <2>1, <2>2
    <2> QED
      BY <1>1, <1>2, <1>3, <1>7, <2>3 DEF NewInv, Rolled, Files, End
  <1>14. RollingInv'
    BY <1>0, <1>1, <1>2, <1>5 DEF RollingInv, RecordsOf, Positions
  <1>15. IdleInv' /\ CutInv' /\ DownInv'
    BY <1>1, <1>2 DEF IdleInv, CutInv, DownInv
  <1>16. ChecksumInv'
    BY <1>0, <1>1, <1>2 DEF ChecksumInv, ChecksumMatches
  <1> QED
    BY <1>7, <1>8, <1>10, <1>11, <1>12, <1>13, <1>14, <1>15, <1>16 DEF IInv

\* The current segment is cut to what it holds.
LEMMA AppendTruncateKeeps ==
  ASSUME IInv, NEW k \in Key, NEW n \in Length, AppendTruncate(k, n)
  PROVE  IInv'
  <1>0. /\ TypeOK /\ FilesHold /\ OffsetsRise /\ ClosedIsCut /\ NothingAbove
        /\ SegmentsCount /\ IdleInv /\ CutInv /\ NewInv /\ RollingInv
        /\ CleanInv /\ DownInv /\ ChecksumInv
    BY DEF IInv
  <1>1. /\ mode = "up" /\ pc = "idle" /\ pc' = "id"
        /\ Len(log) < MaxRecords /\ n <= Cap /\ ~(curOff + n <= curSize)
        /\ arg' = [key |-> k, len |-> n] /\ wasFull' = (curOff = curSize)
    BY DEF AppendTruncate, Fits
  <1>2. UNCHANGED <<meta, mode, curId, curOff, curSize, clean, log, gone, torn>>
    BY DEF AppendTruncate
  <1>3. /\ meta.id = curId /\ 0 < curSize /\ curOff <= curSize
        /\ curSize = Cap \/ curOff = curSize
        /\ file[curId] # NoFile => file[curId].size = curSize /\ End(curId) = curOff
        /\ file[curId] = NoFile => curOff = curSize
        /\ clean = curId => curOff = curSize
        /\ 0 < curOff => RecordsOf(curId) # {}
    BY <1>0, <1>1 DEF IdleInv
  <1>4. curId \in Segment /\ curId \in Nat /\ curOff \in Nat /\ curSize \in Nat /\ curOff <= Cap
    BY <1>0, MemoryTypes
  <1>5. 0 < curOff
    BY <1>1, <1>3, <1>4, Sizes
  <1> DEFINE f == Truncate(file[curId], curOff)
  <1>6. file' = [file EXCEPT ![curId] = f]
    BY DEF AppendTruncate
  <1>7. /\ file[curId] = NoFile => f = NoFile
        /\ file[curId] # NoFile => f = [size |-> curOff, recs |-> file[curId].recs]
        /\ f.recs = file[curId].recs
    <2>1. CASE file[curId] = NoFile
      BY <2>1 DEF Truncate
    <2>2. CASE file[curId] # NoFile
      <3>1. file[curId] = [size |-> file[curId].size, recs |-> file[curId].recs]
        BY <1>0, <1>4, FileTypes
      <3>2. f = [size |-> curOff, recs |-> file[curId].recs]
        BY <2>2, <3>1 DEF Truncate
      <3> QED
        BY <2>2, <3>2
    <2> QED
      BY <2>1, <2>2
  <1>8. f # NoFile => file[curId] # NoFile /\ f.size = curOff
    BY <1>7
  <1> HIDE DEF f
  <1>9. /\ FilesHold' /\ OffsetsRise'
        /\ \A s \in Segment : s # curId => file'[s] = file[s]
        /\ file'[curId] = f
    <2>1. f # NoFile => End(curId) <= f.size
      BY <1>3, <1>4, <1>8
    <2> QED
      BY <1>0, <1>2, <1>4, <1>6, <1>7, <2>1, FileResized
  <1>10. TypeOK'
    <2>1. f \in [size : -1..Cap, recs : SUBSET Content]
      <3>1. curOff \in -1..Cap
        BY <1>4, Sizes
      <3>2. /\ file[curId].recs \in SUBSET Content
            /\ file[curId] \in [size : -1..Cap, recs : SUBSET Content]
        BY <1>0, <1>4, FileTypes
      <3> QED
        BY <3>1, <3>2, <1>7
    <2>2. file' \in [Segment -> [size : -1..Cap, recs : SUBSET Content]]
      BY <1>0, <1>6, <2>1 DEF TypeOK
    <2>3. wasFull' \in BOOLEAN
      BY <1>1
    <2> QED
      BY <2>2, <2>3, <1>0, <1>1, <1>2 DEF TypeOK, Positions
  <1>11. Top' = curId /\ Cur' = curId /\ Top = curId /\ Cur = curId
    BY <1>1, <1>2 DEF Top, Cur, Rolled
  <1>12. ClosedIsCut'
    <2>1. \A s \in Segment : s < curId => s # curId
      BY <1>4, Sizes
    <2> QED
      BY <2>1, <1>0, <1>9, <1>11 DEF ClosedIsCut, Files, End
  <1>13. NothingAbove'
    <2>1. \A s \in Segment : s > curId => s # curId
      BY <1>4, Sizes
    <2> QED
      BY <2>1, <1>0, <1>2, <1>9, <1>11 DEF NothingAbove, Positions
  <1>14. SegmentsCount' /\ CleanInv'
    BY <1>0, <1>2, <1>11 DEF SegmentsCount, CleanInv, RecordsOf, Positions
  <1>15. ReplaySegment(f) = End(curId)
    BY <1>7, ReplayOfRecords DEF End
  <1>16. CutInv'
    BY <1>1, <1>2, <1>3, <1>5, <1>8, <1>9, <1>15 DEF CutInv, End, RecordsOf, Positions
  <1>17. RollingInv'
    <2>1. ASSUME ~wasFull' PROVE clean # curId /\ RecordsOf(curId) \ gone # {}
      <3>1. curOff # curSize
        BY <2>1, <1>1
      <3>2. 0 < End(curId)
        BY <3>1, <1>3, <1>5
      <3> QED
        BY <3>1, <3>2, <1>0, <1>3, <1>4, EndTypes
    <2>2. arg'.key \in Key /\ arg'.len \in Length /\ arg'.len <= Cap
      BY <1>1
    <2> QED
      BY <2>1, <2>2, <1>1, <1>2, <1>11 DEF RollingInv, RecordsOf, Positions
  <1>18. IdleInv' /\ NewInv' /\ DownInv'
    BY <1>1, <1>2 DEF IdleInv, NewInv, DownInv, Rolled
  <1>19. ChecksumInv'
    BY <1>0, <1>1, <1>2 DEF ChecksumInv, ChecksumMatches
  <1> QED
    BY <1>9, <1>10, <1>12, <1>13, <1>14, <1>16, <1>17, <1>18, <1>19 DEF IInv

\* A record goes behind the last one.
LEMMA AppendHereKeeps ==
  ASSUME IInv, NEW k \in Key, NEW n \in Length, AppendHere(k, n)
  PROVE  IInv'
  <1>0. /\ TypeOK /\ FilesHold /\ OffsetsRise /\ ClosedIsCut /\ NothingAbove
        /\ SegmentsCount /\ IdleInv /\ CutInv /\ NewInv /\ RollingInv
        /\ CleanInv /\ DownInv /\ ChecksumInv
    BY DEF IInv
  <1>1. /\ mode = "up" /\ pc = "idle" /\ Len(log) < MaxRecords /\ curOff + n <= curSize
        /\ WriteRecord([key |-> k, len |-> n])
    BY DEF AppendHere, Fits
  <1>2. UNCHANGED <<meta, mode, curId, curSize, pc, arg, wasFull, clean, gone, torn>>
    BY DEF AppendHere
  <1>3. /\ curId \in Segment /\ curId \in Nat /\ curOff \in Nat /\ curSize \in Nat
        /\ Len(log) \in Nat /\ n \in Nat /\ n > 0
    BY <1>0, MemoryTypes, Sizes
  <1>4. curOff # curSize
    BY <1>1, <1>3
  <1>5. /\ meta.id = curId /\ 0 < curSize /\ clean # curId
        /\ curSize = Cap \/ curOff = curSize
        /\ file[curId] # NoFile /\ file[curId].size = curSize /\ End(curId) = curOff
    BY <1>0, <1>1, <1>4 DEF IdleInv
  <1>6. /\ FilesHold' /\ OffsetsRise'
        /\ file' \in [Segment -> [size : -1..Cap, recs : SUBSET Content]]
        /\ \A s \in Segment : s # curId => file'[s] = file[s]
        /\ \A s \in Segment : s = curId => RecordsOf(s)' = RecordsOf(s) \cup {Len(log) + 1}
        /\ file'[curId].size = curSize /\ file'[curId] # NoFile
        /\ curOff' = curOff + n /\ curOff' \in 0..Cap
        /\ ReplaySegment(file'[curId]) = curOff'
        /\ log' \in Seq(Record) /\ Len(log') = Len(log) + 1
        /\ Positions' = Positions \cup {Len(log) + 1}
        /\ \A p \in Positions : log'[p] = log[p]
        /\ log'[Len(log) + 1].seg = curId
    BY <1>0, <1>1, <1>2, <1>5, RecordWritten
  <1>7. TypeOK'
    BY <1>0, <1>2, <1>6 DEF TypeOK, Record
  <1>8. Top' = curId /\ Cur' = curId /\ Top = curId /\ Cur = curId
    BY <1>1, <1>2 DEF Top, Cur, Rolled
  <1>9. ClosedIsCut'
    <2>1. \A s \in Segment : s < curId => s # curId
      BY <1>3, Sizes
    <2> QED
      BY <2>1, <1>0, <1>6, <1>8 DEF ClosedIsCut, Files, End
  <1>10. NothingAbove'
    <2>1. \A s \in Segment : s > curId => s # curId
      BY <1>3, Sizes
    <2>2. curId <= curId
      BY <1>3
    <2> QED
      BY <2>1, <2>2, <1>0, <1>6, <1>8 DEF NothingAbove
  <1>11. SegmentsCount'
    <2>1. curId < Len(log) + 1
      BY <1>0, <1>3, <1>8 DEF SegmentsCount
    <2> QED
      BY <2>1, <1>3, <1>6, <1>8 DEF SegmentsCount
  <1>12. IdleInv'
    <2>1. RecordsOf(curId)' # {}
      BY <1>2, <1>6 DEF RecordsOf
    <2>2. curOff' <= curSize
      BY <1>1, <1>6
    <2>3. curSize = Cap
      BY <1>4, <1>5
    <2> QED
      BY <2>1, <2>2, <2>3, <1>2, <1>5, <1>6 DEF IdleInv, End
  <1>13. CleanInv'
    BY <1>0, <1>2, <1>8 DEF CleanInv
  <1>14. CutInv' /\ NewInv' /\ RollingInv' /\ DownInv'
    BY <1>1, <1>2 DEF CutInv, NewInv, RollingInv, DownInv, Rolled
  <1>15. ChecksumInv'
    BY <1>0, <1>1, <1>2 DEF ChecksumInv, ChecksumMatches
  <1> QED
    BY <1>6, <1>7, <1>9, <1>10, <1>11, <1>12, <1>13, <1>14, <1>15 DEF IInv

\* A record is the first of its segment.
LEMMA AppendToNewKeeps ==
  ASSUME IInv, AppendToNew
  PROVE  IInv'
  <1>0. /\ TypeOK /\ FilesHold /\ OffsetsRise /\ ClosedIsCut /\ NothingAbove
        /\ SegmentsCount /\ IdleInv /\ CutInv /\ NewInv /\ RollingInv
        /\ CleanInv /\ DownInv /\ ChecksumInv
    BY DEF IInv
  <1>1. mode = "up" /\ pc = "write" /\ pc' = "idle" /\ arg' = NoArg /\ wasFull' = FALSE
    BY <1>0 DEF AppendToNew, DownInv
  <1>2. UNCHANGED <<meta, mode, curId, curSize, clean, gone, torn>>
    BY DEF AppendToNew
  <1>3. /\ curId \in Segment /\ curId \in Nat /\ Len(log) \in Nat
    BY <1>0, MemoryTypes
  <1>4. /\ 0 < curId /\ meta.id = curId /\ curOff = 0 /\ curSize = Cap
        /\ curId - 1 \in Files => file[curId - 1].size = End(curId - 1)
        /\ file[curId] = [size |-> Cap, recs |-> {}]
    BY <1>0, <1>1 DEF NewInv, Rolled
  <1>5. PICK k \in Key, n \in Length : arg = [key |-> k, len |-> n] /\ n <= Cap
    <2>1. arg.len \in Length /\ arg.key \in Key /\ arg.len <= Cap
      BY <1>0, <1>1 DEF RollingInv
    <2>2. arg # NoArg
      BY <2>1, Sizes DEF NoArg
    <2>3. arg = [key |-> arg.key, len |-> arg.len]
      BY <2>2, <1>0 DEF TypeOK
    <2> QED
      BY <2>1, <2>3
  <1>6. /\ FilesHold' /\ OffsetsRise'
        /\ file' \in [Segment -> [size : -1..Cap, recs : SUBSET Content]]
        /\ \A s \in Segment : s # curId => file'[s] = file[s]
        /\ \A s \in Segment : s = curId => RecordsOf(s)' = RecordsOf(s) \cup {Len(log) + 1}
        /\ file'[curId].size = curSize /\ file'[curId] # NoFile
        /\ curOff' = curOff + n /\ curOff' \in 0..Cap
        /\ ReplaySegment(file'[curId]) = curOff'
        /\ log' \in Seq(Record) /\ Len(log') = Len(log) + 1
        /\ Positions' = Positions \cup {Len(log) + 1}
        /\ \A p \in Positions : log'[p] = log[p]
        /\ log'[Len(log) + 1].seg = curId
    <2>1. WriteRecord([key |-> k, len |-> n])
      BY <1>5 DEF AppendToNew
    <2>2. Len(log) < MaxRecords
      BY <1>0, <1>1 DEF RollingInv
    <2>3. curOff + n <= curSize
      BY <1>4, <1>5, Sizes
    <2>4. file[curId] # NoFile /\ file[curId].size = curSize
      BY <1>4, Sizes DEF NoFile
    <2>5. End(curId) = curOff
      BY <1>4, EmptyChain DEF End
    <2> QED
      BY <2>1, <2>2, <2>3, <2>4, <2>5, <1>0, <1>2, RecordWritten
  <1>7. TypeOK'
    BY <1>0, <1>1, <1>2, <1>6 DEF TypeOK, Record
  <1>8. Top' = curId /\ Cur' = curId /\ Top = curId /\ Cur = curId - 1
    BY <1>1, <1>2 DEF Top, Cur, Rolled
  <1>9. ClosedIsCut'
    <2>1. \A s \in Segment : s < curId => s # curId /\ (s < Cur \/ s = curId - 1)
      BY <1>3, <1>8, Sizes
    <2>2. \A s \in Files : s < curId => file[s].size = End(s)
      BY <2>1, <1>0, <1>4 DEF ClosedIsCut, Files
    <2> QED
      BY <2>1, <2>2, <1>6, <1>8 DEF ClosedIsCut, Files, End
  <1>10. NothingAbove'
    <2>1. \A s \in Segment : s > curId => s # curId
      BY <1>3, Sizes
    <2>2. curId <= curId
      BY <1>3
    <2>3. \A p \in Positions : log[p].seg <= curId
      BY <1>0, <1>3, <1>8, RecordTypes DEF NothingAbove
    <2> QED
      BY <2>1, <2>2, <2>3, <1>0, <1>6, <1>8 DEF NothingAbove
  <1>11. SegmentsCount'
    <2>1. curId < Len(log) + 1
      BY <1>0, <1>3, <1>8 DEF SegmentsCount
    <2> QED
      BY <2>1, <1>3, <1>6, <1>8 DEF SegmentsCount
  <1>12. CleanInv' /\ clean # curId
    BY <1>0, <1>2, <1>3, <1>8 DEF CleanInv, TypeOK, NoSegment, Segment
  <1>13. IdleInv'
    <2>1. RecordsOf(curId)' # {}
      BY <1>2, <1>6 DEF RecordsOf
    <2>2. curOff' <= curSize
      BY <1>4, <1>6, Sizes
    <2> QED
      BY <2>1, <2>2, <1>2, <1>4, <1>6, <1>12, Sizes DEF IdleInv, End
  <1>14. CutInv' /\ NewInv' /\ RollingInv' /\ DownInv'
    BY <1>1, <1>2 DEF CutInv, NewInv, RollingInv, DownInv, Rolled
  <1>15. ChecksumInv'
    BY <1>0, <1>1, <1>2 DEF ChecksumInv, ChecksumMatches
  <1> QED
    BY <1>6, <1>7, <1>9, <1>10, <1>11, <1>12, <1>13, <1>14, <1>15 DEF IInv

\* The clean event deletes a segment.
LEMMA DeleteSegmentKeeps ==
  ASSUME IInv, DeleteSegment
  PROVE  IInv'
  <1>0. /\ TypeOK /\ FilesHold /\ OffsetsRise /\ ClosedIsCut /\ NothingAbove
        /\ SegmentsCount /\ IdleInv /\ CutInv /\ NewInv /\ RollingInv
        /\ CleanInv /\ DownInv /\ ChecksumInv
    BY DEF IInv
  <1>1. mode = "up" /\ clean # NoSegment /\ clean' = NoSegment
    BY DEF DeleteSegment
  <1>2. UNCHANGED <<meta, mode, curId, curOff, curSize, pc, arg, wasFull, log, torn>>
    BY DEF DeleteSegment, memory
  <1>3. PICK t \in Segment : t = clean
    BY <1>0, <1>1 DEF TypeOK
  <1>4. /\ FilesHold' /\ OffsetsRise'
        /\ \A s \in Segment : s # t => file'[s] = file[s]
        /\ file'[t] = NoFile /\ file' \in [Segment -> [size : -1..Cap, recs : SUBSET Content]]
        /\ \A s : RecordsOf(s)' = RecordsOf(s)
        /\ \A s : s # t => RecordsOf(s) \ gone' = RecordsOf(s) \ gone
        /\ Positions' = Positions /\ gone' \subseteq Positions
    <2>1. file' = [file EXCEPT ![t] = NoFile] /\ gone' = gone \cup RecordsOf(t)
      BY <1>3 DEF DeleteSegment
    <2> QED
      BY <2>1, <1>0, <1>2, FileDeleted
  <1>5. TypeOK'
    BY <1>0, <1>1, <1>2, <1>4 DEF TypeOK
  <1>6. Top' = Top /\ Cur' = Cur /\ Top = curId /\ t <= Cur
    BY <1>0, <1>1, <1>2, <1>3 DEF Top, Cur, Rolled, CleanInv
  <1>7. Files' \subseteq Files /\ \A s \in Files' : file'[s] = file[s]
    BY <1>4 DEF Files
  <1>8. ClosedIsCut'
    BY <1>0, <1>6, <1>7 DEF ClosedIsCut, End
  <1>9. NothingAbove' /\ SegmentsCount'
    <2>1. \A s \in Segment : s > Top => file'[s] = NoFile
      BY <1>0, <1>4 DEF NothingAbove
    <2> QED
      BY <2>1, <1>0, <1>2, <1>4, <1>6 DEF NothingAbove, SegmentsCount, RecordsOf
  <1>10. curId \in Segment /\ curId \in Nat /\ t \in Nat
    BY <1>0, MemoryTypes, Sizes
  <1>11. file'[curId] = file[curId] \/ (file'[curId] = NoFile /\ clean = curId)
    BY <1>3, <1>4, <1>10
  <1>12. IdleInv'
    <2>1. NoSegment # curId
      BY <1>10 DEF NoSegment
    <2> QED
      BY <2>1, <1>0, <1>1, <1>2, <1>4, <1>11 DEF IdleInv, End, RecordsOf
  <1>13. CutInv'
    BY <1>0, <1>1, <1>2, <1>4, <1>11 DEF CutInv, End, RecordsOf
  <1>14. NewInv'
    <2>1. SUFFICES ASSUME Rolled PROVE NewInv'
      BY <1>2 DEF NewInv, Rolled
    <2>2. Cur = curId - 1 /\ t # curId
      BY <2>1, <1>6, <1>10 DEF Cur
    <2>3. file'[curId] = file[curId]
      BY <2>2, <1>4, <1>10
    <2>4. curId - 1 \in Files' => file'[curId - 1].size = ReplaySegment(file'[curId - 1])
      BY <2>1, <1>0, <1>1, <1>7 DEF NewInv, End
    <2> QED
      BY <2>3, <2>4, <1>0, <1>1, <1>2 DEF NewInv, Rolled, End
  <1>15. RollingInv'
    <2>1. SUFFICES ASSUME pc \in {"id", "crc", "open", "pad", "write"} PROVE RollingInv'
      BY <1>2 DEF RollingInv
    <2>2. Cur \in Nat
      BY <1>0, <1>1, <1>10 DEF Cur, Top, NewInv
    <2>3. ~wasFull => NoSegment # Cur /\ RecordsOf(Cur) \ gone' # {}
      BY <2>1, <2>2, <1>0, <1>1, <1>3, <1>4 DEF RollingInv, NoSegment
    <2> QED
      BY <2>1, <2>3, <1>0, <1>1, <1>2, <1>4, <1>6 DEF RollingInv, RecordsOf
  <1>16. CleanInv' /\ DownInv'
    BY <1>1, <1>2 DEF CleanInv, DownInv
  <1>17. ChecksumInv'
    BY <1>0, <1>1, <1>2 DEF ChecksumInv, ChecksumMatches
  <1> QED
    BY <1>4, <1>5, <1>8, <1>9, <1>12, <1>13, <1>14, <1>15, <1>16, <1>17 DEF IInv

\* A step of others.
LEMMA UnchangedKeeps ==
  ASSUME IInv, UNCHANGED vars
  PROVE  IInv'
  <1>0. /\ TypeOK /\ FilesHold /\ OffsetsRise /\ ClosedIsCut /\ NothingAbove
        /\ SegmentsCount /\ IdleInv /\ CutInv /\ NewInv /\ RollingInv
        /\ CleanInv /\ DownInv /\ ChecksumInv
    BY DEF IInv
  <1>1. UNCHANGED <<file, meta, mode, curId, curOff, curSize, pc, arg, wasFull, clean, log, gone, torn>>
    BY DEF vars, memory
  <1>2. TypeOK'
    BY <1>0, <1>1 DEF TypeOK, Positions
  <1>3. FilesHold' /\ OffsetsRise'
    BY <1>0, <1>1, DiskKept
  <1>4. Top' = Top /\ Cur' = Cur
    BY <1>1 DEF Top, Cur, Rolled
  <1>5. ClosedIsCut'
    BY <1>0, <1>1, <1>4 DEF ClosedIsCut, Files, End
  <1>6. NothingAbove' /\ SegmentsCount' /\ CleanInv'
    BY <1>0, <1>1, <1>4 DEF NothingAbove, SegmentsCount, CleanInv, Positions, RecordsOf
  <1>7. IdleInv' /\ CutInv'
    BY <1>0, <1>1 DEF IdleInv, CutInv, End, RecordsOf, Positions
  <1>8. NewInv' /\ DownInv' /\ ChecksumInv'
    BY <1>0, <1>1 DEF NewInv, DownInv, ChecksumInv, ChecksumMatches, Rolled, Files, End
  <1>9. RollingInv'
    BY <1>0, <1>1, <1>4 DEF RollingInv, RecordsOf, Positions
  <1> QED
    BY <1>2, <1>3, <1>5, <1>6, <1>7, <1>8, <1>9 DEF IInv

\* The store starts with one empty segment.
LEMMA InitInv == Init => IInv
  <1> SUFFICES ASSUME Init PROVE IInv
    OBVIOUS
  <1> DEFINE f == [size |-> Cap, recs |-> {}]
  <1>1. /\ file = [s \in Segment |-> IF s = 0 THEN f ELSE NoFile]
        /\ meta = [id |-> 0, crcOf |-> NoChecksum] /\ mode = "up"
        /\ curId = 0 /\ curOff = 0 /\ curSize = Cap /\ pc = "idle"
        /\ arg = NoArg /\ wasFull = FALSE /\ clean = NoSegment
        /\ log = <<>> /\ gone = {} /\ torn = FALSE
    BY DEF Init
  <1>2. Positions = {} /\ Len(log) = 0
    BY <1>1 DEF Positions
  <1>3. \A s : RecordsOf(s) = {}
    BY <1>2 DEF RecordsOf
  <1>4. \A s \in Segment : file[s] = (IF s = 0 THEN f ELSE NoFile) /\ file[s].recs = {} /\ End(s) = 0
    <2>1. \A s \in Segment : file[s] = (IF s = 0 THEN f ELSE NoFile) /\ file[s].recs = {}
      BY <1>1 DEF NoFile
    <2> QED
      BY <2>1, EmptyChain DEF End
  <1>5. 0 \in Segment /\ f # NoFile /\ f.size = Cap
    BY Sizes DEF Segment, NoFile
  <1>6. TypeOK
    <2>1. f \in [size : -1..Cap, recs : SUBSET Content] /\ NoFile \in [size : -1..Cap, recs : SUBSET Content]
      <3>1. Cap \in -1..Cap /\ -1 \in -1..Cap
        BY Sizes
      <3> QED
        BY <3>1 DEF NoFile
    <2>2. file \in [Segment -> [size : -1..Cap, recs : SUBSET Content]]
      BY <1>1, <2>1
    <2>3. curOff \in 0..Cap /\ curSize \in 0..Cap
      BY <1>1, Sizes
    <2>4. log \in Seq([key : Key, seg : Segment, off : 0..Cap, len : Length])
      BY <1>1
    <2> QED
      BY <1>1, <1>2, <1>5, <2>2, <2>3, <2>4 DEF TypeOK
  <1>7. FilesHold
    <2>1. ASSUME NEW s \in Segment PROVE Holds(s)
      <3>1. file[s] # NoFile => End(s) <= file[s].size
        BY <1>4, <1>5, Sizes
      <3> QED
        BY <3>1, <1>3, <1>4, EmptyChain DEF Holds
    <2> QED
      BY <2>1 DEF FilesHold
  <1>8. OffsetsRise
    BY <1>2 DEF OffsetsRise
  <1>9. Top = 0 /\ Cur = 0
    BY <1>1 DEF Top, Cur, Rolled
  <1>10. ClosedIsCut /\ NothingAbove
    <2>1. \A s \in Segment : ~(s < 0) /\ (s > 0 => s # 0)
      BY Sizes
    <2> QED
      BY <2>1, <1>2, <1>4, <1>9 DEF ClosedIsCut, NothingAbove, Files
  <1>11. SegmentsCount
    BY <1>2, <1>3, <1>9 DEF SegmentsCount
  <1>12. IdleInv
    BY <1>1, <1>4, <1>5, Sizes DEF IdleInv, NoSegment
  <1>13. CutInv /\ NewInv /\ RollingInv /\ CleanInv /\ DownInv
    BY <1>1 DEF CutInv, NewInv, RollingInv, CleanInv, DownInv, Rolled
  <1>14. ChecksumInv
    BY <1>1 DEF ChecksumInv, ChecksumMatches
  <1> QED
    BY <1>6, <1>7, <1>8, <1>10, <1>11, <1>12, <1>13, <1>14 DEF IInv

\* Every step keeps the invariant.
LEMMA NextInv == IInv /\ [Next]_vars => IInv'
  <1> SUFFICES ASSUME IInv, [Next]_vars PROVE IInv'
    OBVIOUS
  <1>1. ASSUME NEW k \in Key, NEW n \in Length, AppendHere(k, n) PROVE IInv'
    BY <1>1, AppendHereKeeps
  <1>2. ASSUME NEW k \in Key, NEW n \in Length, AppendTruncate(k, n) PROVE IInv'
    BY <1>2, AppendTruncateKeeps
  <1>3. ASSUME WriteSegmentId PROVE IInv'
    BY <1>3, WriteSegmentIdKeeps
  <1>4. ASSUME WriteChecksum \/ WriteChecksumFails PROVE IInv'
    BY <1>4, WriteChecksumKeeps
  <1>5. ASSUME NewSegment PROVE IInv'
    BY <1>5, NewSegmentKeeps
  <1>6. ASSUME PadNewSegment PROVE IInv'
    BY <1>6, PadNewSegmentKeeps
  <1>7. ASSUME RolloverFails PROVE IInv'
    <2>1. pc' = "shut" \/ pc' = "shutNew"
      BY <1>7 DEF RolloverFails
    <2> QED
      BY <1>7, <2>1, RolloverFailsShutKeeps, RolloverFailsNewKeeps
  <1>8. ASSUME AppendToNewFails PROVE IInv'
    BY <1>8, AppendToNewFailsKeeps
  <1>9. ASSUME AppendToNew PROVE IInv'
    BY <1>9, AppendToNewKeeps
  <1>10. ASSUME NEW p \in Positions, RemoveAsync(p) PROVE IInv'
    BY <1>10, RemoveAsyncKeeps
  <1>11. ASSUME DeleteSegment PROVE IInv'
    BY <1>11, DeleteSegmentKeeps
  <1>12. ASSUME Crash PROVE IInv'
    BY <1>12, CrashKeeps
  <1>13. ASSUME Start PROVE IInv'
    BY <1>13, StartKeeps
  <1>14. ASSUME StartRefused PROVE IInv'
    BY <1>14, StartRefusedKeeps
  <1>15. ASSUME UNCHANGED vars PROVE IInv'
    BY <1>15, UnchangedKeeps
  <1> QED
    BY <1>1, <1>2, <1>3, <1>4, <1>5, <1>6, <1>7, <1>8, <1>9, <1>10, <1>11,
       <1>12, <1>13, <1>14, <1>15 DEF Next

\* The inductive invariant holds in every reachable state.
LEMMA Inductive == Spec => []IInv
  BY InitInv, NextInv, PTL DEF Spec

-----------------------------------------------------------------------------
(* The properties.                                                         *)

\* Every variable keeps its type: no file, offset or record ever exceeds
\* segment_max_size_, and the metadata never names a segment out of range
\* (Append, UpdateMetadata, Init).
THEOREM TypeCorrect == Spec => []TypeOK
  BY Inductive, PTL DEF IInv

\* The index Append returned finds its record until the segment is deleted,
\* whatever crashes, replays and failed rollovers come in between (Append,
\* Init, ReplaySegment).
THEOREM RecordsAlwaysIntact == Spec => []RecordsIntact
  <1>1. IInv => RecordsIntact
    <2> SUFFICES ASSUME IInv, NEW p \in Positions \ gone
                 PROVE  LET r == log[p] IN
                        /\ [off |-> r.off, len |-> r.len, pos |-> p] \in file[r.seg].recs
                        /\ r.off + r.len <= file[r.seg].size
      BY DEF RecordsIntact
    <2> DEFINE s == log[p].seg
    <2>1. TypeOK /\ FilesHold
      BY DEF IInv
    <2>2. /\ s \in Segment /\ Entry(p) \in file[s].recs
          /\ log[p].off + log[p].len <= End(s) /\ End(s) <= file[s].size
      BY <2>1, RecordInFile
    <2>3. End(s) \in Nat /\ file[s].size \in Int
      BY <2>1, <2>2, EndTypes, FileTypes
    <2>4. log[p].off + log[p].len \in Nat
      BY <2>1, RecordTypes
    <2>5. log[p].off + log[p].len <= file[s].size
      BY <2>2, <2>3, <2>4
    <2> QED
      BY <2>2, <2>5 DEF Entry
  <1> QED
    BY <1>1, Inductive, PTL

\* NewSegment never finds the file it is about to create (NewSegment, after
\* UpdateMetadata).
THEOREM NewSegmentAlwaysNew == Spec => []NewSegmentIsNew
  <1>1. IInv => NewSegmentIsNew
    <2> SUFFICES ASSUME IInv, pc = "open" PROVE curId + 1 \notin Files
      BY DEF NewSegmentIsNew
    <2>1. mode = "up" /\ curId \in Nat
      BY MemoryTypes DEF IInv, DownInv
    <2>2. curId + 1 > Top
      BY <2>1 DEF Top
    <2> QED
      BY <2>2 DEF IInv, NothingAbove, Files
  <1> QED
    BY <1>1, Inductive, PTL

\* Init refuses to start only over a metadata update that was cut in two
\* (Init, UpdateMetadata).
THEOREM RefusedOnlyWhenTorn == Spec => []RefusedOnlyIfTorn
  <1>1. IInv => RefusedOnlyIfTorn
    BY DEF IInv, ChecksumInv, RefusedOnlyIfTorn
  <1> QED
    BY <1>1, Inductive, PTL

-----------------------------------------------------------------------------
(* The store implements SegmentLog.                                        *)

\* The refinement mapping of Log, by the names of SegmentLog's variables.
absLog == [p \in Positions |-> [key |-> log[p].key, seg |-> log[p].seg]]
absFiles == Files \ (IF Rolled THEN {curId} ELSE {})
absCur == IF mode = "up" THEN (IF Rolled THEN curId - 1 ELSE curId) ELSE meta.id
absFull == IF mode = "up"
           THEN (IF pc = "idle" THEN curOff = curSize ELSE Stuck \/ wasFull)
           ELSE file[meta.id].size > 0 /\ file[meta.id].size = ReplaySegment(file[meta.id])

AbsRecord == [key : Key, seg : Segment]

\* The abstract log has the concrete one's positions and records.
LEMMA AbsLogTypes ==
  ASSUME TypeOK
  PROVE  /\ absLog \in Seq(AbsRecord) /\ Len(absLog) = Len(log)
         /\ \A p \in Positions : absLog[p] = [key |-> log[p].key, seg |-> log[p].seg]
         /\ \A p \in Positions : absLog[p].seg = log[p].seg
  <1>1. /\ Len(log) \in Nat
        /\ \A p \in Positions : log[p].key \in Key /\ log[p].seg \in Segment
    BY RecordTypes
  <1>2. \A p \in Positions : [key |-> log[p].key, seg |-> log[p].seg] \in AbsRecord
    BY <1>1 DEF AbsRecord
  <1>3. absLog \in [1..Len(log) -> AbsRecord]
    BY <1>2 DEF absLog, Positions
  <1>4. absLog \in Seq(AbsRecord)
    BY <1>1, <1>3, SeqDef
  <1>5. Len(absLog) = Len(log)
    BY <1>1, <1>3, <1>4, LenProperties
  <1>6. \A p \in Positions : absLog[p] = [key |-> log[p].key, seg |-> log[p].seg]
    BY DEF absLog
  <1>7. \A p \in Positions : absLog[p].seg = log[p].seg
    BY DEF absLog
  <1> QED
    BY <1>4, <1>5, <1>6, <1>7

\* What SegmentLog calls Positions and RecordsOf are the store's.
LEMMA AbsPositions ==
  ASSUME TypeOK
  PROVE  /\ Log!Positions = Positions
         /\ \A s : Log!RecordsOf(s) = RecordsOf(s)
  <1>1. Log!Positions = Positions
    BY AbsLogTypes DEF Log!Positions, Positions, absLog
  <1>2. \A s : Log!RecordsOf(s) = RecordsOf(s)
    BY <1>1, AbsLogTypes DEF Log!RecordsOf, RecordsOf, absLog
  <1> QED
    BY <1>1, <1>2

\* A record appended to the log is appended to the abstract log.
LEMMA AbsAppend ==
  ASSUME TypeOK, NEW e \in Record, log' = Append(log, e)
  PROVE  absLog' = Append(absLog, [key |-> e.key, seg |-> e.seg])
  <1> DEFINE a == [key |-> e.key, seg |-> e.seg]
             n == Len(log)
  <1>1. /\ Len(log') = n + 1 /\ n \in Nat
        /\ \A p \in Positions : log'[p] = log[p]
        /\ log'[n + 1] = e
        /\ Positions' = Positions \cup {n + 1}
    BY LogAppend, RecordTypes
  <1>2. a \in AbsRecord
    BY DEF Record, AbsRecord
  <1>3. /\ absLog \in Seq(AbsRecord) /\ Len(absLog) = n
        /\ \A p \in Positions : absLog[p] = [key |-> log[p].key, seg |-> log[p].seg]
    BY AbsLogTypes
  <1>4. /\ DOMAIN Append(absLog, a) = 1..(n + 1)
        /\ \A p \in 1..n : Append(absLog, a)[p] = absLog[p]
        /\ Append(absLog, a)[n + 1] = a
    BY <1>1, <1>2, <1>3
  <1>5. /\ DOMAIN absLog' = 1..(n + 1)
        /\ \A p \in 1..(n + 1) : absLog'[p] = [key |-> log'[p].key, seg |-> log'[p].seg]
    BY <1>1 DEF absLog, Positions
  <1>6. \A p \in 1..(n + 1) : p \in 1..n \/ p = n + 1
    BY <1>1
  <1>7. \A p \in 1..(n + 1) : absLog'[p] = Append(absLog, a)[p]
    BY <1>1, <1>3, <1>4, <1>5, <1>6 DEF Positions
  <1>8. Append(absLog, a) \in Seq(AbsRecord)
    BY <1>2, <1>3
  <1>9. absLog' = [p \in 1..(n + 1) |-> absLog'[p]] /\ Append(absLog, a) = [p \in 1..(n + 1) |-> Append(absLog, a)[p]]
    <2>1. Append(absLog, a) \in [1..(n + 1) -> AbsRecord]
      <3>1. Len(Append(absLog, a)) = n + 1
        BY <1>2, <1>3, AppendProperties
      <3> QED
        BY <1>8, <3>1, LenProperties
    <2>2. absLog' = [p \in 1..(n + 1) |-> [key |-> log'[p].key, seg |-> log'[p].seg]]
      BY <1>1 DEF absLog, Positions
    <2>3. absLog' = [p \in 1..(n + 1) |-> absLog'[p]]
      BY <2>2
    <2> QED
      BY <2>1, <2>3
  <1> QED
    BY <1>7, <1>9

\* An Append that fits is one of the abstract log.
LEMMA AppendHereRefines ==
  ASSUME IInv, NEW k \in Key, NEW n \in Length, AppendHere(k, n)
  PROVE  Log!AppendRecord(k)
  <1>0. /\ TypeOK /\ FilesHold /\ OffsetsRise /\ ClosedIsCut /\ NothingAbove
        /\ SegmentsCount /\ IdleInv /\ CutInv /\ NewInv /\ RollingInv
        /\ CleanInv /\ DownInv /\ ChecksumInv
    BY DEF IInv
  <1>1. /\ mode = "up" /\ pc = "idle" /\ Len(log) < MaxRecords /\ curOff + n <= curSize
        /\ WriteRecord([key |-> k, len |-> n])
    BY DEF AppendHere, Fits
  <1>2. UNCHANGED <<meta, mode, curId, curSize, pc, arg, wasFull, clean, gone, torn>>
    BY DEF AppendHere
  <1>3. /\ curId \in Segment /\ curOff \in Nat /\ curSize \in Nat /\ curOff \in 0..Cap
        /\ n \in Nat /\ n > 0
    BY <1>0, MemoryTypes, Sizes DEF TypeOK
  <1>4. ~absFull
    BY <1>1, <1>3 DEF absFull
  <1>5. file[curId] # NoFile /\ file[curId].size = curSize /\ End(curId) = curOff
    BY <1>0, <1>1, <1>3 DEF IdleInv
  <1>6. Files' = Files
    <2>1. /\ file'[curId] # NoFile
          /\ \A s \in Segment : s # curId => file'[s] = file[s]
      BY <1>0, <1>1, <1>2, <1>5, RecordWritten
    <2> QED
      BY <2>1, <1>5 DEF Files
  <1>7. absFiles' = absFiles /\ absCur' = absCur /\ absCur = curId
    BY <1>1, <1>2, <1>6 DEF absFiles, absCur, Rolled
  <1>8. absLog' = Append(absLog, [key |-> k, seg |-> curId])
    <2> DEFINE e == [key |-> k, seg |-> curId, off |-> curOff, len |-> n]
    <2>1. e \in Record /\ log' = Append(log, e)
      BY <1>1, <1>3 DEF WriteRecord, Record
    <2>2. e.key = k /\ e.seg = curId
      OBVIOUS
    <2> HIDE DEF e
    <2> QED
      BY <2>1, <2>2, <1>0, AbsAppend
  <1>9. absFull' \in BOOLEAN
    BY <1>1, <1>2 DEF absFull
  <1>10. ~Stuck /\ Stuck' = Stuck
    BY <1>1, <1>2 DEF Stuck
  <1>11. Len(absLog) < MaxRecords
    BY <1>0, <1>1, AbsLogTypes
  <1> QED
    BY <1>2, <1>4, <1>7, <1>8, <1>9, <1>10, <1>11
       DEF Log!AppendRecord, absLog, absFiles, absCur, absFull

\* Where a step of SegmentLog may start a new segment.
LEMMA RollingGuard ==
  ASSUME IInv, mode = "up", pc # "idle"
  PROVE  absFull \/ Log!RecordsOf(absCur) \ gone # {}
  <1>0. /\ TypeOK /\ FilesHold /\ OffsetsRise /\ ClosedIsCut /\ NothingAbove
        /\ SegmentsCount /\ IdleInv /\ CutInv /\ NewInv /\ RollingInv
        /\ CleanInv /\ DownInv /\ ChecksumInv
    BY DEF IInv
  <1>1. CASE Stuck
    BY <1>1 DEF absFull
  <1>2. CASE ~Stuck
    <2>1. pc \in {"id", "crc", "open", "pad", "write"}
      BY <1>0, <1>2 DEF TypeOK, Stuck
    <2>2. wasFull \/ RecordsOf(Cur) \ gone # {}
      BY <2>1, <1>0 DEF RollingInv
    <2>3. absCur = Cur
      BY DEF absCur, Cur, Top
    <2>4. Log!RecordsOf(absCur) = RecordsOf(Cur)
      BY <2>3, <1>0, AbsPositions
    <2> QED
      BY <2>2, <2>4 DEF absFull
  <1> QED
    BY <1>1, <1>2

\* The last write of a rolling Append is the abstract Append.
LEMMA AppendToNewRefines ==
  ASSUME IInv, AppendToNew
  PROVE  \E k \in Key : Log!AppendRecord(k)
  <1>0. /\ TypeOK /\ FilesHold /\ OffsetsRise /\ ClosedIsCut /\ NothingAbove
        /\ SegmentsCount /\ IdleInv /\ CutInv /\ NewInv /\ RollingInv
        /\ CleanInv /\ DownInv /\ ChecksumInv
    BY DEF IInv
  <1>1. mode = "up" /\ pc = "write" /\ pc' = "idle" /\ WriteRecord(arg)
    BY <1>0 DEF AppendToNew, DownInv
  <1>2. UNCHANGED <<meta, mode, curId, curSize, clean, gone, torn>>
    BY DEF AppendToNew
  <1>3. curId \in Segment /\ curId \in Nat /\ curOff \in 0..Cap
    BY <1>0, MemoryTypes DEF TypeOK
  <1>4. file[curId] = [size |-> Cap, recs |-> {}] /\ curOff = 0 /\ curSize = Cap
    BY <1>0, <1>1 DEF NewInv, Rolled
  <1>5. PICK k \in Key, n \in Length : arg = [key |-> k, len |-> n] /\ n <= Cap
    <2>1. arg.len \in Length /\ arg.key \in Key /\ arg.len <= Cap
      BY <1>0, <1>1 DEF RollingInv
    <2>2. arg # NoArg
      BY <2>1, Sizes DEF NoArg
    <2>3. arg = [key |-> arg.key, len |-> arg.len]
      BY <2>2, <1>0 DEF TypeOK
    <2> QED
      BY <2>1, <2>3
  <1>6. curId \in Files /\ Files' = Files
    <2>1. WriteRecord([key |-> k, len |-> n]) /\ Len(log) < MaxRecords
      BY <1>0, <1>1, <1>5 DEF RollingInv
    <2>2. curOff + n <= curSize
      BY <1>4, <1>5, Sizes
    <2>3. file[curId] # NoFile /\ file[curId].size = curSize
      BY <1>4, Sizes DEF NoFile
    <2>4. End(curId) = curOff
      BY <1>4, EmptyChain DEF End
    <2>5. /\ file'[curId] # NoFile
          /\ \A s \in Segment : s # curId => file'[s] = file[s]
      BY <2>1, <2>2, <2>3, <2>4, <1>0, <1>2, RecordWritten
    <2> QED
      BY <2>3, <2>5, <1>3 DEF Files
  <1>7. /\ absCur = curId - 1 /\ absCur' = curId /\ absCur' = absCur + 1
        /\ absFiles = Files \ {curId} /\ absFiles' = Files
    BY <1>1, <1>2, <1>3, <1>6 DEF absFiles, absCur, Rolled
  <1>8. absFiles' = absFiles \cup {absCur + 1}
    BY <1>6, <1>7
  <1>9. absLog' = Append(absLog, [key |-> k, seg |-> absCur'])
    <2> DEFINE e == [key |-> k, seg |-> curId, off |-> curOff, len |-> n]
    <2>1. e \in Record /\ log' = Append(log, e)
      BY <1>1, <1>3, <1>5 DEF WriteRecord, Record
    <2>2. e.key = k /\ e.seg = absCur'
      BY <1>7
    <2> HIDE DEF e
    <2> QED
      BY <2>1, <2>2, <1>0, AbsAppend
  <1>10. absFull' \in BOOLEAN
    BY <1>1, <1>2 DEF absFull
  <1>11. ~Stuck /\ Stuck' = Stuck
    BY <1>1 DEF Stuck
  <1>12. Len(absLog) < MaxRecords
    BY <1>0, <1>1, AbsLogTypes DEF RollingInv
  <1>13. absFull \/ Log!RecordsOf(absCur) \ gone # {}
    BY <1>1, RollingGuard
  <1>14. Log!AppendRecord(k)
    BY <1>2, <1>7, <1>8, <1>9, <1>10, <1>11, <1>12, <1>13
       DEF Log!AppendRecord, absLog, absFiles, absCur, absFull
  <1> QED
    BY <1>14

\* A failed last write leaves the new segment empty.
LEMMA AppendToNewFailsRefines ==
  ASSUME IInv, AppendToNewFails
  PROVE  Log!AppendFails
  <1>0. /\ TypeOK /\ FilesHold /\ OffsetsRise /\ ClosedIsCut /\ NothingAbove
        /\ SegmentsCount /\ IdleInv /\ CutInv /\ NewInv /\ RollingInv
        /\ CleanInv /\ DownInv /\ ChecksumInv
    BY DEF IInv
  <1>1. mode = "up" /\ pc = "write" /\ pc' = "idle"
    BY <1>0 DEF AppendToNewFails, DownInv
  <1>2. UNCHANGED <<file, meta, mode, curId, curOff, curSize, clean, log, gone, torn>>
    BY DEF AppendToNewFails
  <1>3. curId \in Segment /\ curId \in Nat
    BY <1>0, MemoryTypes
  <1>4. file[curId] = [size |-> Cap, recs |-> {}] /\ curOff = 0 /\ curSize = Cap
    BY <1>0, <1>1 DEF NewInv, Rolled
  <1>5. curId \in Files /\ Files' = Files
    <2>1. file[curId] # NoFile
      BY <1>4, Sizes DEF NoFile
    <2> QED
      BY <2>1, <1>2, <1>3 DEF Files
  <1>6. /\ absCur = curId - 1 /\ absCur' = curId /\ absCur' = absCur + 1
        /\ absFiles = Files \ {curId} /\ absFiles' = Files
    BY <1>1, <1>2, <1>3, <1>5 DEF absFiles, absCur, Rolled
  <1>7. absFiles' = absFiles \cup {absCur + 1}
    BY <1>5, <1>6
  <1>8. absLog' = absLog
    BY <1>2 DEF absLog, Positions
  <1>9. absFull' = FALSE
    BY <1>1, <1>2, <1>4, Sizes DEF absFull
  <1>10. ~Stuck /\ Stuck' = Stuck
    BY <1>1 DEF Stuck
  <1>11. absFull \/ Log!RecordsOf(absCur) \ gone # {}
    BY <1>1, RollingGuard
  <1> QED
    BY <1>2, <1>6, <1>7, <1>8, <1>9, <1>10, <1>11
       DEF Log!AppendFails, absLog, absFiles, absCur, absFull

\* A rollover that fails earlier leaves the store stuck.
LEMMA RolloverFailsRefines ==
  ASSUME IInv, RolloverFails
  PROVE  Log!AppendFails
  <1>0. /\ TypeOK /\ FilesHold /\ OffsetsRise /\ ClosedIsCut /\ NothingAbove
        /\ SegmentsCount /\ IdleInv /\ CutInv /\ NewInv /\ RollingInv
        /\ CleanInv /\ DownInv /\ ChecksumInv
    BY DEF IInv
  <1>1. /\ mode = "up" /\ pc \in {"id", "open", "pad"} /\ pc' \in {"shut", "shutNew"}
        /\ \/ pc \in {"id", "open"} /\ pc' = "shut" /\ curId' = curId
           \/ pc = "open" /\ pc' = "shutNew" /\ curId' = curId + 1
           \/ pc = "pad" /\ pc' = "shutNew" /\ curId' = curId
    BY <1>0 DEF RolloverFails, DownInv
  <1>2. UNCHANGED <<file, meta, mode, curOff, curSize, clean, log, gone, torn>>
    BY DEF RolloverFails
  <1>3. curId \in Nat /\ (curId + 1) - 1 = curId
    BY <1>0, MemoryTypes
  <1>4. pc = "open" => curId + 1 \notin Files
    <2>1. pc = "open" => Top = curId
      BY <1>1 DEF Top
    <2> QED
      BY <2>1, <1>0, <1>3 DEF NothingAbove, Files
  <1>5. Files' = Files
    BY <1>2 DEF Files
  <1>6. absCur' = absCur
    BY <1>1, <1>2, <1>3 DEF absCur, Rolled
  <1>7. absFiles' = absFiles
    <2>1. CASE pc \in {"id", "open"} /\ pc' = "shut"
      BY <2>1, <1>5 DEF absFiles, Rolled
    <2>2. CASE pc = "open" /\ pc' = "shutNew" /\ curId' = curId + 1
      <3>1. absFiles = Files /\ absFiles' = Files \ {curId + 1}
        BY <2>2, <1>5 DEF absFiles, Rolled
      <3> QED
        BY <2>2, <3>1, <1>4
    <2>3. CASE pc = "pad" /\ pc' = "shutNew" /\ curId' = curId
      BY <2>3, <1>5 DEF absFiles, Rolled
    <2> QED
      BY <2>1, <2>2, <2>3, <1>1
  <1>8. absLog' = absLog
    BY <1>2 DEF absLog, Positions
  <1>9. absFull' = TRUE /\ Stuck' = TRUE /\ ~Stuck
    BY <1>1, <1>2 DEF absFull, Stuck
  <1>10. absFull \/ Log!RecordsOf(absCur) \ gone # {}
    BY <1>1, RollingGuard
  <1> QED
    BY <1>2, <1>6, <1>7, <1>8, <1>9, <1>10
       DEF Log!AppendFails, absLog, absFiles, absCur, absFull

\* The end of a file is the end of the segment's last record.
LEMMA EndIsLast ==
  ASSUME IInv, NEW p \in Positions \ gone, mode = "up", pc \in {"idle", "shut", "shutNew"}
  PROVE  Log!EndsSegment(p) <=> EndsFile(p)
  <1>0. /\ TypeOK /\ FilesHold /\ OffsetsRise /\ ClosedIsCut /\ NothingAbove
        /\ SegmentsCount /\ IdleInv /\ CutInv /\ NewInv /\ RollingInv
        /\ CleanInv /\ DownInv /\ ChecksumInv
    BY DEF IInv
  <1> DEFINE s == log[p].seg
             e == log[p].off + log[p].len
  <1>1. /\ s \in Segment /\ s \in Nat /\ Entry(p) \in file[s].recs /\ file[s] # NoFile
        /\ e <= End(s) /\ End(s) <= file[s].size
    BY <1>0, RecordInFile, RecordTypes
  <1>2. /\ End(s) \in Nat /\ file[s].size \in Int
        /\ log[p].off \in Nat /\ log[p].len \in Nat /\ log[p].len > 0 /\ p \in Nat
    BY <1>0, <1>1, EndTypes, FileTypes, RecordTypes
  <1>3. absCur = Cur /\ s <= Cur /\ Cur \in Int /\ curId \in Nat
    BY <1>0, MemoryTypes DEF absCur, Cur, Top, NothingAbove
  <1>4. Log!EndsSegment(p) <=> (\A q \in RecordsOf(s) : q <= p) /\ (s < Cur \/ absFull)
    <2>1. absLog[p].seg = s
      BY <1>0, AbsLogTypes
    <2>2. Log!RecordsOf(s) = RecordsOf(s)
      BY <1>0, AbsPositions
    <2> QED
      BY <2>1, <2>2, <1>3 DEF Log!EndsSegment, absLog, absCur, absFull
  <1>5. ASSUME NEW q \in RecordsOf(s), q > p
        PROVE  e < End(s)
    <2>1. q \in Positions /\ log[q].seg = s
      BY DEF RecordsOf
    <2>2. q \in Nat /\ log[q].off \in Nat /\ log[q].len \in Nat /\ log[q].len > 0
      BY <2>1, <1>0, RecordTypes
    <2>3. q \notin gone /\ e <= log[q].off
      BY <2>1, <2>2, <1>0, <1>2, <1>5 DEF OffsetsRise
    <2>4. log[q].off + log[q].len <= End(s)
      BY <2>1, <2>3, <1>0, RecordInFile
    <2> QED
      BY <2>2, <2>3, <2>4, <1>2
  <1>6. ASSUME \A q \in RecordsOf(s) : q <= p
        PROVE  e = End(s)
    <2>1. Holds(s)
      BY <1>0, <1>1 DEF FilesHold
    <2>2. End(s) # 0
      BY <1>1, <1>2
    <2>3. PICK r \in file[s].recs : r.off + r.len = End(s)
      BY <2>1, <2>2 DEF Holds, Chain
    <2>4. /\ r.pos \in RecordsOf(s) \ gone
          /\ r.off = log[r.pos].off /\ r.len = log[r.pos].len
      BY <2>1 DEF Holds, Entry
    <2>5. r.pos \in Positions /\ log[r.pos].seg = s /\ r.pos <= p /\ r.pos \notin gone
      BY <2>4, <1>6 DEF RecordsOf
    <2>6. r.pos \in Nat /\ r.off \in Nat /\ r.len \in Nat
      BY <2>4, <2>5, <1>0, RecordTypes
    <2>7. CASE r.pos = p
      BY <2>3, <2>4, <2>7
    <2>8. CASE r.pos < p
      <3>1. r.off + r.len <= log[p].off
        BY <2>4, <2>5, <2>8, <1>0 DEF OffsetsRise
      <3> QED
        BY <3>1, <2>3, <2>6, <1>1, <1>2
    <2> QED
      BY <2>5, <2>6, <2>7, <2>8, <1>2
  <1>7. s < Cur \/ absFull <=> file[s].size = End(s)
    <2>1. ASSUME s < Cur PROVE file[s].size = End(s)
      BY <2>1, <1>0, <1>1 DEF ClosedIsCut, Files
    <2>2. ASSUME s = Cur PROVE absFull <=> file[s].size = End(s)
      <3>1. CASE pc = "idle"
        <4>1. s = curId
          BY <2>2, <3>1 DEF Cur, Top, Rolled
        <4>2. file[s].size = curSize /\ End(s) = curOff
          BY <4>1, <3>1, <1>0, <1>1 DEF IdleInv
        <4> QED
          BY <3>1, <4>2 DEF absFull
      <3>2. CASE pc = "shut"
        <4>1. s = curId
          BY <2>2, <3>2 DEF Cur, Top, Rolled
        <4>2. file[s].size = End(s)
          BY <4>1, <3>2, <1>0, <1>1 DEF CutInv
        <4> QED
          BY <3>2, <4>2 DEF absFull, Stuck
      <3>3. CASE pc = "shutNew"
        <4>1. s = curId - 1
          BY <2>2, <3>3 DEF Cur, Top, Rolled
        <4>2. file[s].size = End(s)
          BY <4>1, <3>3, <1>0, <1>1 DEF NewInv, Rolled, Files
        <4> QED
          BY <3>3, <4>2 DEF absFull, Stuck
      <3> QED
        BY <3>1, <3>2, <3>3
    <2>3. s < Cur \/ s = Cur
      BY <1>1, <1>3
    <2>4. s = Cur => ~(s < Cur)
      BY <1>3
    <2> QED
      BY <2>1, <2>2, <2>3, <2>4
  <1>8. ASSUME EndsFile(p) PROVE Log!EndsSegment(p)
    <2>1. e = file[s].size
      BY <1>8 DEF EndsFile
    <2>2. e = End(s) /\ file[s].size = End(s)
      BY <2>1, <1>1, <1>2
    <2>3. \A q \in RecordsOf(s) : q \in Nat
      BY <1>0, RecordTypes DEF RecordsOf
    <2>4. \A q \in RecordsOf(s) : ~(q > p)
      BY <2>2, <1>2, <1>5
    <2>5. \A q \in RecordsOf(s) : q <= p
      BY <2>3, <2>4, <1>2
    <2> QED
      BY <2>2, <2>5, <1>4, <1>7
  <1>9. ASSUME Log!EndsSegment(p) PROVE EndsFile(p)
    BY <1>9, <1>4, <1>6, <1>7 DEF EndsFile
  <1> QED
    BY <1>8, <1>9

\* RemoveAsync asks for the same clean event.
LEMMA RemoveAsyncRefines ==
  ASSUME IInv, NEW p \in Positions, RemoveAsync(p)
  PROVE  \E q \in Log!Positions \ gone : Log!RemoveAsync(q)
  <1>0. /\ TypeOK /\ FilesHold /\ OffsetsRise /\ ClosedIsCut /\ NothingAbove
        /\ SegmentsCount /\ IdleInv /\ CutInv /\ NewInv /\ RollingInv
        /\ CleanInv /\ DownInv /\ ChecksumInv
    BY DEF IInv
  <1>1. /\ mode = "up" /\ pc \in {"idle", "shut", "shutNew"} /\ p \notin gone
        /\ clean' = IF EndsFile(p) THEN log[p].seg ELSE clean
    BY DEF RemoveAsync
  <1>2. UNCHANGED <<file, meta, mode, curId, curOff, curSize, pc, arg, wasFull, log, gone, torn>>
    BY DEF RemoveAsync, memory
  <1>3. p \in Log!Positions \ gone
    BY <1>0, <1>1, AbsPositions
  <1>4. Log!EndsSegment(p) <=> EndsFile(p)
    BY <1>1, EndIsLast
  <1>5. absLog' = absLog /\ absFiles' = absFiles /\ absCur' = absCur /\ absFull' = absFull
    <2>1. absLog' = absLog
      BY <1>2 DEF absLog, Positions
    <2>2. absFiles' = absFiles /\ absCur' = absCur
      BY <1>2 DEF absFiles, absCur, Files, Rolled
    <2>3. absFull' = absFull
      BY <1>2 DEF absFull, Stuck
    <2> QED
      BY <2>1, <2>2, <2>3
  <1>6. Stuck' = Stuck
    BY <1>2 DEF Stuck
  <1>7. clean' = IF Log!EndsSegment(p) THEN absLog[p].seg ELSE clean
    BY <1>0, <1>1, <1>4, AbsLogTypes
  <1>8. Log!RemoveAsync(p)
    BY <1>2, <1>5, <1>6, <1>7 DEF Log!RemoveAsync, absLog, absFiles, absCur, absFull
  <1> QED
    BY <1>3, <1>8

\* The clean event deletes the same segment.
LEMMA DeleteSegmentRefines ==
  ASSUME IInv, DeleteSegment
  PROVE  Log!DeleteSegment
  <1>0. /\ TypeOK /\ FilesHold /\ OffsetsRise /\ ClosedIsCut /\ NothingAbove
        /\ SegmentsCount /\ IdleInv /\ CutInv /\ NewInv /\ RollingInv
        /\ CleanInv /\ DownInv /\ ChecksumInv
    BY DEF IInv
  <1>1. /\ mode = "up" /\ clean # NoSegment /\ clean' = NoSegment
        /\ file' = [file EXCEPT ![clean] = NoFile] /\ gone' = gone \cup RecordsOf(clean)
    BY DEF DeleteSegment
  <1>2. UNCHANGED <<meta, mode, curId, curOff, curSize, pc, arg, wasFull, log, torn>>
    BY DEF DeleteSegment, memory
  <1>3. Files' = Files \ {clean}
    BY <1>0, <1>1 DEF TypeOK, Files
  <1>4. absFiles' = absFiles \ {clean}
    BY <1>2, <1>3 DEF absFiles, Rolled
  <1>5. absLog' = absLog
    BY <1>2 DEF absLog, Positions
  <1>6. absCur' = absCur /\ absFull' = absFull /\ Stuck' = Stuck
    BY <1>1, <1>2 DEF absCur, absFull, Stuck, Rolled
  <1>7. gone' = gone \cup Log!RecordsOf(clean)
    BY <1>0, <1>1, AbsPositions
  <1>8. Log!NoSegment = NoSegment
    BY DEF Log!NoSegment, NoSegment
  <1> QED
    BY <1>1, <1>4, <1>5, <1>6, <1>7, <1>8
       DEF Log!DeleteSegment, absLog, absFiles, absCur, absFull

\* A crash with no call in progress keeps the current segment.
LEMMA CrashIdleRefines ==
  ASSUME IInv, Crash, pc = "idle"
  PROVE  Log!CrashSegments
  <1>0. /\ TypeOK /\ FilesHold /\ OffsetsRise /\ ClosedIsCut /\ NothingAbove
        /\ SegmentsCount /\ IdleInv /\ CutInv /\ NewInv /\ RollingInv
        /\ CleanInv /\ DownInv /\ ChecksumInv
    BY DEF IInv
  <1>1. /\ mode = "up" /\ mode' = "down" /\ pc' = "idle" /\ clean' = NoSegment
        /\ UNCHANGED <<file, meta, log, gone>>
    BY DEF Crash
  <1>2. /\ curId \in Segment /\ curOff \in Nat /\ curSize \in Nat /\ meta.id = curId /\ 0 < curSize
        /\ file[curId] # NoFile => file[curId].size = curSize /\ End(curId) = curOff
    BY <1>0, <1>1, MemoryTypes DEF IdleInv
  <1>3. absLog' = absLog
    BY <1>1 DEF absLog, Positions
  <1>4. absFiles' = absFiles /\ absFiles = Files /\ absCur' = absCur /\ absCur = curId
    BY <1>1, <1>2 DEF absFiles, absCur, Files, Rolled
  <1>5. Stuck' = FALSE
    BY <1>1 DEF Stuck
  <1>6. absFull' = (absFull /\ absCur \in absFiles)
    <2>1. absFull = (curOff = curSize)
      BY <1>1 DEF absFull
    <2>2. absFull' = (file[curId].size > 0 /\ file[curId].size = End(curId))
      BY <1>1, <1>2 DEF absFull, End
    <2>3. CASE file[curId] = NoFile
      <3>1. ~(file[curId].size > 0) /\ absCur \notin absFiles
        BY <2>3, <1>4 DEF NoFile, Files
      <3> QED
        BY <3>1, <2>2
    <2>4. CASE file[curId] # NoFile
      <3>1. absCur \in absFiles /\ file[curId].size > 0
        BY <2>4, <1>2, <1>4 DEF Files
      <3> QED
        BY <2>1, <2>2, <2>4, <3>1, <1>2
    <2> QED
      BY <2>3, <2>4
  <1>7. Log!NoSegment = NoSegment
    BY DEF Log!NoSegment, NoSegment
  <1> QED
    BY <1>1, <1>3, <1>4, <1>5, <1>6, <1>7
       DEF Log!CrashSegments, absLog, absFiles, absCur, absFull

\* A crash before the metadata names the next segment finds the current one
\* cut, or gone.
LEMMA CrashCutRefines ==
  ASSUME IInv, Crash, pc \in {"id", "crc", "open", "shut"}, meta.id = curId
  PROVE  Log!CrashSegments
  <1>0. /\ TypeOK /\ FilesHold /\ OffsetsRise /\ ClosedIsCut /\ NothingAbove
        /\ SegmentsCount /\ IdleInv /\ CutInv /\ NewInv /\ RollingInv
        /\ CleanInv /\ DownInv /\ ChecksumInv
    BY DEF IInv
  <1>1. /\ mode = "up" /\ mode' = "down" /\ pc' = "idle" /\ clean' = NoSegment
        /\ UNCHANGED <<file, meta, log, gone>>
    BY DEF Crash
  <1>2. /\ curId \in Segment
        /\ file[curId] # NoFile => 0 < End(curId) /\ file[curId].size = End(curId)
    BY <1>0, <1>1, MemoryTypes DEF CutInv
  <1>3. absLog' = absLog
    BY <1>1 DEF absLog, Positions
  <1>4. absFiles' = absFiles /\ absFiles = Files /\ absCur' = absCur /\ absCur = curId
    BY <1>1, <1>2 DEF absFiles, absCur, Files, Rolled
  <1>5. Stuck' = FALSE
    BY <1>1 DEF Stuck
  <1>6. absFull' = (absCur \in absFiles)
    <2>1. absFull' = (file[curId].size > 0 /\ file[curId].size = End(curId))
      BY <1>1, <1>2 DEF absFull, End
    <2>2. CASE file[curId] = NoFile
      <3>1. ~(file[curId].size > 0) /\ absCur \notin absFiles
        BY <2>2, <1>4 DEF NoFile, Files
      <3> QED
        BY <3>1, <2>1
    <2>3. CASE file[curId] # NoFile
      <3>1. End(curId) \in Nat
        BY <1>0, <1>2, EndTypes
      <3>2. absCur \in absFiles /\ file[curId].size > 0
        BY <2>3, <3>1, <1>2, <1>4 DEF Files
      <3> QED
        BY <2>1, <2>3, <3>2, <1>2
    <2> QED
      BY <2>2, <2>3
  <1>7. absFull \/ Log!RecordsOf(absCur) \ gone # {}
    BY <1>1, RollingGuard
  <1>8. Log!NoSegment = NoSegment
    BY DEF Log!NoSegment, NoSegment
  <1> QED
    BY <1>1, <1>3, <1>4, <1>5, <1>6, <1>7, <1>8
       DEF Log!CrashSegments, absLog, absFiles, absCur, absFull

\* A crash after the metadata names the next segment moves on to it, whether
\* its file is there or not.
LEMMA CrashNewRefines ==
  ASSUME IInv, Crash, pc # "idle", ~(pc \in {"id", "crc", "open", "shut"} /\ meta.id = curId)
  PROVE  Log!CrashSegments
  <1>0. /\ TypeOK /\ FilesHold /\ OffsetsRise /\ ClosedIsCut /\ NothingAbove
        /\ SegmentsCount /\ IdleInv /\ CutInv /\ NewInv /\ RollingInv
        /\ CleanInv /\ DownInv /\ ChecksumInv
    BY DEF IInv
  <1>1. /\ mode = "up" /\ mode' = "down" /\ pc' = "idle" /\ clean' = NoSegment
        /\ UNCHANGED <<file, meta, log, gone>>
    BY DEF Crash
  <1>2. curId \in Nat /\ meta.id \in Segment
    BY <1>0, MemoryTypes
  <1>3. absLog' = absLog
    BY <1>1 DEF absLog, Positions
  <1>4. absCur' = meta.id /\ absFiles' = Files
    BY <1>1 DEF absCur, absFiles, Files, Rolled
  <1>5. Stuck' = FALSE
    BY <1>1 DEF Stuck
  <1>6. absFull' = (file[meta.id].size > 0 /\ file[meta.id].size = End(meta.id))
    BY <1>1 DEF absFull, End
  <1>7. /\ absCur' = absCur + 1
        /\ absFiles' \in {absFiles, absFiles \cup {absCur + 1}}
        /\ absFull' = FALSE
    <2>1. CASE pc \in {"id", "crc", "open", "shut"}
      <3>1. meta.id = curId + 1
        BY <2>1, <1>0, <1>1 DEF CutInv
      <3>2. absCur = curId /\ absFiles = Files /\ Top = curId
        BY <2>1, <1>1 DEF absCur, absFiles, Rolled, Top
      <3>3. file[meta.id] = NoFile
        BY <3>1, <3>2, <1>0, <1>2 DEF NothingAbove
      <3>4. ~(file[meta.id].size > 0)
        BY <3>3 DEF NoFile
      <3> QED
        BY <3>1, <3>2, <3>4, <1>4, <1>6
    <2>2. CASE Rolled
      <3>1. /\ meta.id = curId
            /\ file[curId] = [size |-> 0, recs |-> {}] \/ file[curId] = [size |-> Cap, recs |-> {}]
               \/ file[curId].size <= 0
        BY <2>2, <1>0, <1>1 DEF NewInv, Rolled
      <3>2. absCur = curId - 1 /\ absFiles = Files \ {curId} /\ absCur + 1 = curId
        BY <2>2, <1>1, <1>2 DEF absCur, absFiles
      <3>3. Files = absFiles \/ Files = absFiles \cup {curId}
        BY <3>2
      <3>4. absFull' = FALSE
        <4>1. file[curId].size \in Int
          BY <1>0, MemoryTypes, FileTypes
        <4>2. CASE file[curId] = [size |-> Cap, recs |-> {}]
          <5>1. End(curId) = 0 /\ file[curId].size = Cap
            BY <4>2, EmptyChain DEF End
          <5>2. ~(file[curId].size = End(curId))
            BY <5>1, Sizes
          <5> QED
            BY <5>2, <3>1, <1>6, Zenon
        <4>3. CASE file[curId].size <= 0
          <5>1. ~(file[curId].size > 0)
            BY <4>1, <4>3
          <5> QED
            BY <5>1, <3>1, <1>6, Zenon
        <4>4. CASE file[curId] = [size |-> 0, recs |-> {}]
          BY <4>3, <4>4
        <4> QED
          BY <4>2, <4>3, <4>4, <3>1
      <3> QED
        BY <3>1, <3>2, <3>3, <3>4, <1>4
    <2> QED
      BY <2>1, <2>2, <1>0 DEF TypeOK, Rolled
  <1>8. absFull \/ Log!RecordsOf(absCur) \ gone # {}
    BY <1>1, RollingGuard
  <1>9. Log!NoSegment = NoSegment
    BY DEF Log!NoSegment, NoSegment
  <1> QED
    BY <1>1, <1>3, <1>5, <1>7, <1>8, <1>9
       DEF Log!CrashSegments, absLog, absFiles, absCur, absFull

\* Init opens the abstract log where the replay ends.
LEMMA StartRefines ==
  ASSUME IInv, Start
  PROVE  Log!InitSegments
  <1>0. /\ TypeOK /\ FilesHold /\ OffsetsRise /\ ClosedIsCut /\ NothingAbove
        /\ SegmentsCount /\ IdleInv /\ CutInv /\ NewInv /\ RollingInv
        /\ CleanInv /\ DownInv /\ ChecksumInv
    BY DEF IInv
  <1>1. /\ mode = "down" /\ mode' = "up" /\ curId' = meta.id
        /\ UNCHANGED <<meta, pc, arg, wasFull, clean, log, gone, torn>>
    BY DEF Start
  <1>2. pc = "idle"
    BY <1>0, <1>1 DEF DownInv
  <1>3. meta.id \in Segment /\ file[meta.id].size \in Int
    <2>1. meta.id \in Segment
      BY <1>0, MemoryTypes
    <2> QED
      BY <2>1, <1>0, FileTypes
  <1>4. absLog' = absLog
    BY <1>1 DEF absLog, Positions
  <1>5. absCur' = absCur /\ absCur = meta.id /\ absFiles = Files /\ absFiles' = Files'
    BY <1>1, <1>2 DEF absCur, absFiles, Rolled
  <1>6. Stuck' = Stuck
    BY <1>1 DEF Stuck
  <1>7. Files' = Files \cup {meta.id} /\ absFull' = absFull
    <2>1. absFull = (file[meta.id].size > 0 /\ file[meta.id].size = ReplaySegment(file[meta.id]))
      BY <1>1 DEF absFull
    <2>2. absFull' = (curOff' = curSize')
      BY <1>1, <1>2 DEF absFull
    <2>3. CASE file[meta.id].size <= 0
      <3>1. file' = [file EXCEPT ![meta.id] = [size |-> Cap, recs |-> {}]] /\ curSize' = Cap /\ curOff' = 0
        BY <2>3, <1>3 DEF Start
      <3>2. [size |-> Cap, recs |-> {}] # NoFile
        BY Sizes DEF NoFile
      <3>3. Files' = Files \cup {meta.id}
        BY <3>1, <3>2, <1>0, <1>3 DEF TypeOK, Files
      <3>4. ~(file[meta.id].size > 0) /\ ~(curOff' = curSize')
        BY <2>3, <3>1, <1>3, Sizes
      <3>5. absFull = FALSE /\ absFull' = FALSE
        BY <2>1, <2>2, <3>4, Zenon
      <3> QED
        BY <3>3, <3>5
    <2>4. CASE file[meta.id].size > 0
      <3>1. file' = file /\ curSize' = file[meta.id].size /\ curOff' = ReplaySegment(file[meta.id])
        BY <2>4, <1>3 DEF Start
      <3>2. Files' = Files /\ meta.id \in Files
        BY <2>4, <3>1, <1>3 DEF Files, NoFile
      <3> QED
        BY <2>1, <2>2, <2>4, <3>1, <3>2
    <2> QED
      BY <2>3, <2>4, <1>3
  <1> QED
    BY <1>1, <1>4, <1>5, <1>6, <1>7
       DEF Log!InitSegments, absLog, absFiles, absCur, absFull

\* A step that changes none of the mapped values is a stutter.
LEMMA Stutter ==
  ASSUME absLog' = absLog, absFiles' = absFiles, absCur' = absCur, absFull' = absFull,
         Stuck' = Stuck, UNCHANGED <<clean, gone>>
  PROVE  UNCHANGED Log!segVars
  BY DEF Log!segVars, absLog, absFiles, absCur, absFull

\* The first half of a rollover is not visible.
LEMMA AppendTruncateRefines ==
  ASSUME IInv, NEW k \in Key, NEW n \in Length, AppendTruncate(k, n)
  PROVE  UNCHANGED Log!segVars
  <1>0. /\ TypeOK /\ FilesHold /\ OffsetsRise /\ ClosedIsCut /\ NothingAbove
        /\ SegmentsCount /\ IdleInv /\ CutInv /\ NewInv /\ RollingInv
        /\ CleanInv /\ DownInv /\ ChecksumInv
    BY DEF IInv
  <1>1. /\ mode = "up" /\ pc = "idle" /\ pc' = "id" /\ wasFull' = (curOff = curSize)
        /\ file' = [file EXCEPT ![curId] = Truncate(@, curOff)]
        /\ UNCHANGED <<meta, mode, curId, curOff, curSize, clean, log, gone, torn>>
    BY DEF AppendTruncate
  <1>2. curId \in Segment /\ curOff \in Nat
    BY <1>0, MemoryTypes
  <1>3. Truncate(file[curId], curOff) = NoFile <=> file[curId] = NoFile
    <2>1. CASE file[curId] = NoFile
      BY <2>1 DEF Truncate
    <2>2. CASE file[curId] # NoFile
      <3>1. file[curId] = [size |-> file[curId].size, recs |-> file[curId].recs]
        BY <1>0, <1>2, FileTypes
      <3>2. Truncate(file[curId], curOff).size = curOff
        BY <2>2, <3>1 DEF Truncate
      <3> QED
        BY <2>2, <3>2, <1>2 DEF NoFile
    <2> QED
      BY <2>1, <2>2
  <1>4. Files' = Files
    BY <1>0, <1>1, <1>2, <1>3 DEF TypeOK, Files
  <1>5. absLog' = absLog
    BY <1>1 DEF absLog, Positions
  <1>6. absFiles' = absFiles /\ absCur' = absCur /\ Stuck' = Stuck
    BY <1>1, <1>4 DEF absFiles, absCur, Rolled, Stuck
  <1>7. absFull' = absFull
    <2>1. absFull = (curOff = curSize)
      BY <1>1 DEF absFull
    <2>2. absFull' = (Stuck' \/ wasFull') /\ ~Stuck'
      BY <1>1 DEF absFull, Stuck
    <2> QED
      BY <2>1, <2>2, <1>1
  <1> QED
    BY <1>1, <1>5, <1>6, <1>7, Stutter

\* The metadata is not part of the abstract log.
LEMMA UpdateMetadataRefines ==
  ASSUME IInv, WriteSegmentId \/ WriteChecksum \/ WriteChecksumFails
  PROVE  UNCHANGED Log!segVars
  <1>0. /\ TypeOK /\ FilesHold /\ OffsetsRise /\ ClosedIsCut /\ NothingAbove
        /\ SegmentsCount /\ IdleInv /\ CutInv /\ NewInv /\ RollingInv
        /\ CleanInv /\ DownInv /\ ChecksumInv
    BY DEF IInv
  <1>1. /\ mode = "up" /\ pc \in {"id", "crc"} /\ pc' \in {"crc", "open"}
        /\ UNCHANGED <<file, mode, curId, curOff, curSize, arg, wasFull, clean, log, gone>>
    BY <1>0 DEF WriteSegmentId, WriteChecksum, WriteChecksumFails, DownInv
  <1>2. absLog' = absLog
    BY <1>1 DEF absLog, Positions
  <1>3. absFiles' = absFiles /\ absCur' = absCur /\ Stuck' = Stuck
    BY <1>1 DEF absFiles, absCur, Files, Rolled, Stuck
  <1>4. absFull' = absFull
    BY <1>1 DEF absFull, Stuck
  <1> QED
    BY <1>1, <1>2, <1>3, <1>4, Stutter

\* The file of a rollover is not one of the abstract log yet.
LEMMA NewSegmentRefines ==
  ASSUME IInv, NewSegment
  PROVE  UNCHANGED Log!segVars
  <1>0. /\ TypeOK /\ FilesHold /\ OffsetsRise /\ ClosedIsCut /\ NothingAbove
        /\ SegmentsCount /\ IdleInv /\ CutInv /\ NewInv /\ RollingInv
        /\ CleanInv /\ DownInv /\ ChecksumInv
    BY DEF IInv
  <1>1. /\ mode = "up" /\ pc = "open" /\ pc' = "pad" /\ curId' = curId + 1
        /\ curId + 1 \notin Files
        /\ file' = [file EXCEPT ![curId + 1] = [size |-> 0, recs |-> {}]]
        /\ UNCHANGED <<meta, mode, curOff, curSize, arg, wasFull, clean, log, gone, torn>>
    BY <1>0 DEF NewSegment, DownInv
  <1>2. curId \in Nat /\ (curId + 1) - 1 = curId
    BY <1>0, MemoryTypes
  <1>3. Files' \ {curId + 1} = Files
    BY <1>0, <1>1 DEF TypeOK, Files
  <1>4. absLog' = absLog
    BY <1>1 DEF absLog, Positions
  <1>5. absFiles' = absFiles
    <2>1. absFiles' = Files' \ {curId + 1} /\ absFiles = Files
      BY <1>1 DEF absFiles, Rolled
    <2> QED
      BY <2>1, <1>3
  <1>6. absCur' = absCur /\ Stuck' = Stuck
    BY <1>1, <1>2 DEF absCur, Rolled, Stuck
  <1>7. absFull' = absFull
    BY <1>1 DEF absFull, Stuck
  <1> QED
    BY <1>1, <1>4, <1>5, <1>6, <1>7, Stutter

\* Its size is not part of it either.
LEMMA PadNewSegmentRefines ==
  ASSUME IInv, PadNewSegment
  PROVE  UNCHANGED Log!segVars
  <1>0. /\ TypeOK /\ FilesHold /\ OffsetsRise /\ ClosedIsCut /\ NothingAbove
        /\ SegmentsCount /\ IdleInv /\ CutInv /\ NewInv /\ RollingInv
        /\ CleanInv /\ DownInv /\ ChecksumInv
    BY DEF IInv
  <1>1. /\ mode = "up" /\ pc = "pad" /\ pc' = "write"
        /\ file' = [file EXCEPT ![curId].size = Cap]
        /\ UNCHANGED <<meta, mode, curId, arg, wasFull, clean, log, gone, torn>>
    BY <1>0 DEF PadNewSegment, DownInv
  <1>2. Files' \ {curId} = Files \ {curId}
    BY <1>0, <1>1 DEF TypeOK, Files
  <1>3. absLog' = absLog
    BY <1>1 DEF absLog, Positions
  <1>4. absFiles' = absFiles
    BY <1>1, <1>2 DEF absFiles, Rolled
  <1>5. absCur' = absCur /\ Stuck' = Stuck
    BY <1>1 DEF absCur, Rolled, Stuck
  <1>6. absFull' = absFull
    BY <1>1 DEF absFull, Stuck
  <1> QED
    BY <1>1, <1>3, <1>4, <1>5, <1>6, Stutter

\* A store that is refused stays down.
LEMMA StartRefusedRefines ==
  ASSUME IInv, StartRefused
  PROVE  UNCHANGED Log!segVars
  <1>1. /\ mode = "down" /\ mode' = "refused"
        /\ UNCHANGED <<file, meta, curId, curOff, curSize, pc, arg, wasFull, clean, log, gone, torn>>
    BY DEF StartRefused, memory
  <1>2. absLog' = absLog
    BY <1>1 DEF absLog, Positions
  <1>3. absFiles' = absFiles /\ absCur' = absCur /\ Stuck' = Stuck
    BY <1>1 DEF absFiles, absCur, Files, Rolled, Stuck
  <1>4. absFull' = absFull
    BY <1>1 DEF absFull
  <1> QED
    BY <1>1, <1>2, <1>3, <1>4, Stutter

\* A step of others.
LEMMA UnchangedRefines ==
  ASSUME UNCHANGED vars
  PROVE  UNCHANGED Log!segVars
  <1>1. UNCHANGED <<file, meta, mode, curId, curOff, curSize, pc, arg, wasFull, clean, log, gone, torn>>
    BY DEF vars, memory
  <1>2. absLog' = absLog
    BY <1>1 DEF absLog, Positions
  <1>3. absFiles' = absFiles /\ absCur' = absCur /\ Stuck' = Stuck
    BY <1>1 DEF absFiles, absCur, Files, Rolled, Stuck
  <1>4. absFull' = absFull
    BY <1>1 DEF absFull, Stuck
  <1> QED
    BY <1>1, <1>2, <1>3, <1>4, Stutter

\* A new store is a new log.
LEMMA InitRefines == Init => Log!SegInit
  <1> SUFFICES ASSUME Init PROVE Log!SegInit
    OBVIOUS
  <1>1. /\ mode = "up" /\ curId = 0 /\ curOff = 0 /\ curSize = Cap /\ pc = "idle"
        /\ clean = NoSegment /\ log = <<>> /\ gone = {}
        /\ file = [s \in Segment |-> IF s = 0 THEN [size |-> Cap, recs |-> {}] ELSE NoFile]
    BY DEF Init
  <1>2. absLog = <<>>
    <2>1. Positions = {}
      BY <1>1 DEF Positions
    <2> QED
      BY <2>1 DEF absLog
  <1>3. absFiles = {0}
    <2>1. 0 \in Segment /\ [size |-> Cap, recs |-> {}] # NoFile
      BY Sizes DEF Segment, NoFile
    <2>2. Files = {0}
      BY <2>1, <1>1 DEF Files
    <2> QED
      BY <2>2, <1>1 DEF absFiles, Rolled
  <1>4. absCur = 0 /\ Stuck = FALSE
    BY <1>1 DEF absCur, Rolled, Stuck
  <1>5. absFull = FALSE
    BY <1>1, Sizes DEF absFull
  <1>6. Log!NoSegment = NoSegment
    BY DEF Log!NoSegment, NoSegment
  <1> QED
    BY <1>1, <1>2, <1>3, <1>4, <1>5, <1>6 DEF Log!SegInit, absLog, absFiles, absCur, absFull

\* Every step of the store is a step of the log, or a stutter.
LEMMA StepRefines == IInv /\ [Next]_vars => [Log!SegNext]_(Log!segVars)
  <1> SUFFICES ASSUME IInv, [Next]_vars PROVE [Log!SegNext]_(Log!segVars)
    OBVIOUS
  <1>1. ASSUME NEW k \in Key, NEW n \in Length, AppendHere(k, n) PROVE Log!SegNext
    BY <1>1, AppendHereRefines DEF Log!SegNext
  <1>2. ASSUME NEW k \in Key, NEW n \in Length, AppendTruncate(k, n) PROVE UNCHANGED Log!segVars
    BY <1>2, AppendTruncateRefines
  <1>3. ASSUME WriteSegmentId \/ WriteChecksum \/ WriteChecksumFails PROVE UNCHANGED Log!segVars
    BY <1>3, UpdateMetadataRefines
  <1>4. ASSUME NewSegment PROVE UNCHANGED Log!segVars
    BY <1>4, NewSegmentRefines
  <1>5. ASSUME PadNewSegment PROVE UNCHANGED Log!segVars
    BY <1>5, PadNewSegmentRefines
  <1>6. ASSUME RolloverFails PROVE Log!SegNext
    BY <1>6, RolloverFailsRefines DEF Log!SegNext
  <1>7. ASSUME AppendToNewFails PROVE Log!SegNext
    BY <1>7, AppendToNewFailsRefines DEF Log!SegNext
  <1>8. ASSUME AppendToNew PROVE Log!SegNext
    BY <1>8, AppendToNewRefines DEF Log!SegNext
  <1>9. ASSUME NEW p \in Positions, RemoveAsync(p) PROVE Log!SegNext
    BY <1>9, RemoveAsyncRefines DEF Log!SegNext
  <1>10. ASSUME DeleteSegment PROVE Log!SegNext
    BY <1>10, DeleteSegmentRefines DEF Log!SegNext
  <1>11. ASSUME Crash PROVE Log!SegNext
    BY <1>11, CrashIdleRefines, CrashCutRefines, CrashNewRefines DEF Log!SegNext
  <1>12. ASSUME Start PROVE Log!SegNext
    BY <1>12, StartRefines DEF Log!SegNext
  <1>13. ASSUME StartRefused PROVE UNCHANGED Log!segVars
    BY <1>13, StartRefusedRefines
  <1>14. ASSUME UNCHANGED vars PROVE UNCHANGED Log!segVars
    BY <1>14, UnchangedRefines
  <1> QED
    BY <1>1, <1>2, <1>3, <1>4, <1>5, <1>6, <1>7, <1>8, <1>9, <1>10, <1>11,
       <1>12, <1>13, <1>14 DEF Next

\* The files, sizes and system calls of LogSegmentStore implement the log of
\* segments that the log storage is written against: a rolling Append takes
\* effect in one step, a crash leaves one of the states SegmentLog allows,
\* and the test for the end of the file finds exactly the last record of a
\* closed segment (all of LogSegmentStore).
THEOREM ImplementsLog == Spec => ImplementsSegmentLog
  <1>1. Spec => [][Log!SegNext]_(Log!segVars)
    BY StepRefines, Inductive, PTL DEF Spec
  <1>2. Spec => Log!SegInit
    BY InitRefines DEF Spec
  <1> QED
    BY <1>1, <1>2, PTL DEF ImplementsSegmentLog, Log!SegSpec

=============================================================================
