-------------------------- MODULE LogStorageProofs --------------------------
(***************************************************************************)
(* The log storage's invariants for any set of keys and any number of      *)
(* records.                                                                *)
(***************************************************************************)
EXTENDS LogStorage, TLAPS

\* Records are appended to segments of rising ids.
LogIsOrdered ==
  /\ \A i, j \in Positions : i <= j => log[i].seg <= log[j].seg
  /\ \A i \in Positions : log[i].seg <= cur

\* p is newer than everything that was removed.
PastRemoved(p) == (\A g \in gone : g < p) /\ (\A j \in Key : dead[j] < p)

\* The index names records of its keys, newer than all that was removed.  Only
\* the entry of a key whose DelIndex failed may name the newest deleted one.
IndexIsNew ==
  /\ \A j \in Key : dead[j] <= Len(log)
  /\ \A k \in Key : idx[k] # 0 =>
       /\ idx[k] \in Positions /\ log[idx[k]].key = k
       /\ \A j \in Key : dead[j] < idx[k]
       /\ \A g \in gone : g < idx[k] \/ (g = idx[k] /\ k \in kept)

\* The segment of a deleted record that the index still names is wholly gone,
\* and takes no new records, as long as Init has not created its file anew.
GoneIsWhole ==
  \A k \in Key : idx[k] # 0 /\ idx[k] \in gone =>
    /\ RecordsOf(log[idx[k]].seg) \subseteq gone
    /\ mode \in {"up", "replay"} => log[idx[k]].seg < cur \/ full

\* The files RemoveAsync has left empty belong to deleted segments.
HusksAreEmpty ==
  \A s \in husks :
    /\ RecordsOf(s) # {} /\ RecordsOf(s) \subseteq gone
    /\ s < cur \/ (s = cur /\ (full \/ mode = "down"))

\* No file is missing from the oldest indexed record onwards, so the replay
\* does not end early; only a current segment the crash left uncreated may,
\* and the segment of a deleted record.
NoFileMissing ==
  /\ \A k \in Key : idx[k] # 0 => \A s \in log[idx[k]].seg..cur :
       \/ s \in files
       \/ s = cur /\ mode = "down"
       \/ s = log[idx[k]].seg /\ idx[k] \in gone
  /\ mode # "down" /\ ~full => cur \in files

\* The segment about to be deleted takes no more records, and holds none that
\* the index names but the last one, if that is being deleted or its DelIndex
\* has failed.
CleanIsEmpty ==
  clean # NoSegment =>
    /\ clean < cur \/ (clean = cur /\ full)
    /\ \A k \in Key : idx[k] # 0 =>
         \/ clean < log[idx[k]].seg
         \/ /\ k \in kept \/ (op.type = "delete" /\ op.key = k)
            /\ clean = log[idx[k]].seg
            /\ \A q \in RecordsOf(clean) : q <= idx[k]

\* The call in progress.
OpIsCurrent ==
  /\ op.type = "put" =>
       /\ op.pos = Len(log) /\ op.pos \in Positions
       /\ log[op.pos].key = op.key /\ log[op.pos].seg = cur
       /\ PastRemoved(op.pos)
       /\ cur \in files
       /\ clean # NoSegment => clean < cur
  /\ op.type = "delete" =>
       /\ op.pos = idx[op.key] /\ op.pos # 0 /\ op.pos \notin gone
       /\ acked[op.key] = 0
       /\ \A k \in Key : idx[k] # 0 => op.pos <= idx[k]

\* The segments from s to the current one are all there.
Covered(s) == \A t \in s..cur : SegmentExists(t)

\* The replay stands past all that was removed, and its files are there, or
\* the first is not and the replay ends at once.
ReplayIsPast ==
  mode = "replay" =>
    /\ replay.pos \in 1..(Len(log) + 1)
    /\ PastRemoved(replay.pos)
    /\ replay.pos \in Positions => replay.seg <= log[replay.pos].seg
    /\ Covered(replay.seg) \/ ~SegmentExists(replay.seg)
    /\ \A m \in Key : IsLastIndex(m) =>
         /\ idx[m] <= replay.pos
         /\ Covered(replay.seg) => SegmentExists(log[idx[m]].seg)

\* Outside of "up" no call and no clean event is in progress.
QuietUnlessUp == mode # "up" => op = NoOp /\ clean = NoSegment

\* What was acknowledged is in the index, unless the replay's PutIndex failed
\* or a replay that was cut short has put an older record there; then the next
\* replay comes past it.
AckedIsKept ==
  \A k \in Key : acked[k] # 0 =>
    /\ idx[k] # 0 /\ k \notin kept
    /\ acked[k] \in Positions /\ log[acked[k]].key = k
    /\ \/ k \in missed
       \/ acked[k] <= idx[k]
       \/ mode = "replay" /\ replay.pos <= acked[k] /\ Covered(replay.seg)
       \/ /\ mode \in {"down", "astray"}
          /\ \A m \in Key : IsLastIndex(m) =>
               idx[m] <= acked[k] /\ SegmentExists(log[idx[m]].seg)

IInv ==
  /\ TypeOK
  /\ LogIsOrdered
  /\ IndexIsNew
  /\ GoneIsWhole
  /\ HusksAreEmpty
  /\ NoFileMissing
  /\ CleanIsEmpty
  /\ OpIsCurrent
  /\ ReplayIsPast
  /\ QuietUnlessUp
  /\ AckedIsKept

-----------------------------------------------------------------------------
(* Type correctness.                                                       *)

\* What Append does to the log: one record more, in the current segment or in
\* the one after it.
LEMMA AppendFacts ==
  ASSUME TypeOK, NEW k \in Key, AppendRecord(k)
  PROVE  /\ log' \in Seq(Record)
         /\ Len(log') = Len(log) + 1
         /\ \A i \in Positions : log'[i] = log[i]
         /\ log'[Len(log')] = [key |-> k, seg |-> cur']
         /\ cur' \in Nat
         /\ \/ ~full /\ cur' = cur /\ files' = files
            \/ cur' = cur + 1 /\ files' = files \cup {cur + 1}
<1>1. \/ ~full /\ cur' = cur /\ files' = files
      \/ cur' = cur + 1 /\ files' = files \cup {cur + 1}
  BY DEF AppendRecord
<1>2. cur' \in Nat
  BY <1>1 DEF TypeOK
<1>3. [key |-> k, seg |-> cur'] \in Record
  BY <1>2 DEF Record
<1>4. log' = Append(log, [key |-> k, seg |-> cur'])
  BY DEF AppendRecord
<1> QED BY <1>1, <1>2, <1>3, <1>4 DEF TypeOK, Positions

\* The record at a position has a key and a segment id.
LEMMA RecordFields ==
  ASSUME TypeOK, NEW p \in Positions
  PROVE  log[p] \in Record /\ log[p].key \in Key /\ log[p].seg \in Nat
<1>1. log \in Seq(Record) /\ p \in 1..Len(log)
  BY DEF TypeOK, Positions
<1>2. log[p] \in Record
  BY <1>1
<1> QED BY <1>2 DEF Record

\* The numbers among the variables.
LEMMA Numbers ==
  ASSUME TypeOK
  PROVE  /\ Len(log) \in Nat /\ cur \in Nat
         /\ clean # NoSegment => clean \in Nat
         /\ \A g \in gone : g \in Nat /\ 1 <= g /\ g <= Len(log)
         /\ \A p \in Positions : p \in Nat /\ 1 <= p /\ p <= Len(log)
         /\ \A k \in Key : idx[k] \in Nat /\ acked[k] \in Nat /\ dead[k] \in Nat
         /\ replay.seg \in Nat /\ replay.pos \in Nat
<1>1. Len(log) \in Nat
  BY DEF TypeOK
<1>2. \A p \in Positions : p \in Nat /\ 1 <= p /\ p <= Len(log)
  BY <1>1 DEF Positions
<1> QED BY <1>1, <1>2 DEF TypeOK

\* A call in progress has a key.
LEMMA OpFields ==
  ASSUME TypeOK
  PROVE  /\ op.type \in {"put", "delete", "none"} /\ op.pos \in Nat
         /\ op.type # "none" => op.key \in Key
BY DEF TypeOK, NoOp

\* What a crash leaves on disk: the segments as they are, or the next one
\* begun.
LEMMA CrashFacts ==
  ASSUME TypeOK, Crash
  PROVE  /\ log' = log /\ gone' = gone /\ clean' = NoSegment
         /\ full' \in BOOLEAN /\ stuck' \in BOOLEAN
         /\ \/ cur' = cur /\ files' = files
            \/ /\ cur' = cur + 1
               /\ files \subseteq files' /\ files' \subseteq files \cup {cur + 1}
<1>1. CASE CrashSegments
  <2>1. full' \in BOOLEAN
    <3>1. CASE full' = (full /\ cur \in files)
      BY <3>1, Zenon
    <3>2. CASE full' = (cur \in files)
      BY <3>2, SMT
    <3>3. CASE full' = FALSE
      BY <3>3, Zenon
    <3> QED BY <1>1, <3>1, <3>2, <3>3, Zenon DEF CrashSegments
  <2>2. \/ cur' = cur /\ files' = files
        \/ cur' = cur + 1 /\ files' \in {files, files \cup {cur + 1}}
    BY <1>1, Zenon DEF CrashSegments
  <2>3. log' = log /\ gone' = gone /\ clean' = NoSegment
    BY <1>1 DEF CrashSegments
  <2>4. stuck' \in BOOLEAN
    BY <1>1, Zenon DEF CrashSegments
  <2> QED BY <2>1, <2>2, <2>3, <2>4, Zenon
<1>2. CASE /\ clean' = NoSegment /\ full' = (full /\ cur \in files)
           /\ UNCHANGED <<log, files, cur, stuck, gone>>
  <2>1. full' \in BOOLEAN
    BY <1>2, Zenon
  <2>2. stuck' \in BOOLEAN
    BY <1>2, Zenon DEF TypeOK
  <2> QED BY <1>2, <2>1, <2>2
<1> QED BY <1>1, <1>2 DEF Crash

\* TypeOK holds along with IndexIsNew and ReplayIsPast.
LEMMA TypeInductive == IInv /\ [Next]_vars => TypeOK'
<1> SUFFICES ASSUME IInv, [Next]_vars PROVE TypeOK'
  OBVIOUS
<1>t. TypeOK
  BY DEF IInv
<1> NoOp.type = "none"
  BY DEF NoOp
<1>1. ASSUME NEW k \in Key, PutAppend(k) PROVE TypeOK'
  <2>1. AppendRecord(k)
    BY <1>1 DEF PutAppend
  <2>2. Len(log') \in Nat
    BY <1>t, <2>1, AppendFacts DEF TypeOK
  <2>3. op' \in [type : {"put", "delete"}, key : Key, pos : Nat]
    BY <1>1, <2>2 DEF PutAppend
  <2>4. full' \in BOOLEAN
    BY <2>1, Zenon DEF AppendRecord
  <2>5. files' \subseteq Nat /\ clean' = clean /\ gone' = gone /\ stuck' = stuck
    BY <1>t, <2>1, AppendFacts DEF TypeOK, AppendRecord
  <2>6. gone' \subseteq Positions'
    <3>1. gone \subseteq 1..Len(log) /\ Len(log) \in Nat
      BY <1>t DEF TypeOK, Positions
    <3>2. Len(log') = Len(log) + 1
      BY <1>t, <2>1, AppendFacts
    <3> QED BY <2>5, <3>1, <3>2 DEF Positions
  <2> QED BY <1>t, <1>1, <2>1, <2>3, <2>4, <2>5, <2>6, AppendFacts DEF TypeOK, PutAppend
<1>2. CASE PutIndex
  <2>1. op.key \in Key /\ op.pos \in Nat
    BY <1>t, <1>2, OpFields DEF PutIndex
  <2>2. idx' \in [Key -> Nat] /\ acked' \in [Key -> Nat] /\ missed' \subseteq Key /\ kept' \subseteq Key
    BY <1>t, <1>2, <2>1 DEF TypeOK, PutIndex
  <2> QED BY <1>t, <1>2, <2>2 DEF TypeOK, PutIndex, segVars, Positions
<1>3. ASSUME NEW k \in Key, DeleteRemove(k) PROVE TypeOK'
  <2>1. idx[k] \in Positions
    BY <1>3 DEF IInv, IndexIsNew, DeleteRemove
  <2>2. log[idx[k]].seg \in Nat
    BY <1>t, <2>1, RecordFields
  <2>3. op' \in [type : {"put", "delete"}, key : Key, pos : Nat]
    BY <1>t, <1>3 DEF DeleteRemove, TypeOK
  <2>4. clean' \in Nat \cup {NoSegment} /\ toClean' \subseteq Nat
    BY <1>t, <1>3, <2>2 DEF TypeOK, DeleteRemove, RemoveAsync
  <2> QED BY <1>t, <1>3, <2>3, <2>4 DEF TypeOK, DeleteRemove, RemoveAsync, Positions
<1>4. CASE DeleteIndex
  <2>1. op.key \in Key /\ op.pos \in Nat
    BY <1>t, <1>4, OpFields DEF DeleteIndex
  <2>2. idx' \in [Key -> Nat] /\ dead' \in [Key -> Nat] /\ kept' \subseteq Key
    <3>1. CASE kept' = kept \ {op.key} /\ idx' = [idx EXCEPT ![op.key] = 0]
                 /\ dead' = [dead EXCEPT ![op.key] = op.pos]
      BY <1>t, <2>1, <3>1 DEF TypeOK
    <3>2. CASE kept' = kept \cup {op.key} /\ idx' = idx /\ dead' = dead
      BY <1>t, <2>1, <3>2 DEF TypeOK
    <3> QED BY <1>4, <3>1, <3>2 DEF DeleteIndex
  <2> QED BY <1>t, <1>4, <2>2 DEF TypeOK, DeleteIndex, segVars, Positions
<1>5. CASE Clean
  BY <1>t, <1>5 DEF TypeOK, Clean, DeleteSegment, RecordsOf, Positions
<1>6. CASE Crash
  <2>1. /\ log' = log /\ gone' = gone /\ clean' = NoSegment
        /\ full' \in BOOLEAN /\ stuck' \in BOOLEAN
        /\ \/ cur' = cur /\ files' = files
           \/ cur' = cur + 1 /\ files' \subseteq files \cup {cur + 1}
    BY <1>t, <1>6, CrashFacts
  <2>3. cur' \in Nat /\ files' \subseteq Nat
    <3>1. cur \in Nat /\ cur + 1 \in Nat /\ files \subseteq Nat
      BY <1>t DEF TypeOK
    <3> QED BY <2>1, <3>1
  <2>2. NoReplay \in [seg : Nat, pos : Nat]
    BY DEF NoReplay
  <2>4. kept' \subseteq Key
    BY <1>t, <1>6 DEF TypeOK, Crash
  <2> QED BY <1>t, <1>6, <2>1, <2>2, <2>3, <2>4 DEF TypeOK, Crash, Positions
<1>7. CASE Restart
  <2>1. mode' \in {"up", "replay", "astray"} /\ replay' \in [seg : Nat, pos : Nat]
    <3>1. CASE mode' \in {"up", "astray"} /\ replay' = replay
      BY <1>t, <3>1 DEF TypeOK
    <3>2. ASSUME NEW m \in Key, IsLastIndex(m), mode' = "replay",
                 replay' = [seg |-> log[idx[m]].seg,
                            pos |-> IF idx[m] \in gone THEN idx[m] + 1 ELSE idx[m]]
          PROVE  replay' \in [seg : Nat, pos : Nat]
      <4>1. idx[m] \in Positions
        BY <3>2 DEF IInv, IndexIsNew, IsLastIndex
      <4>2. log[idx[m]].seg \in Nat /\ idx[m] \in Nat /\ idx[m] + 1 \in Nat
        BY <1>t, <4>1, RecordFields DEF TypeOK
      <4> QED BY <3>2, <4>2
    <3> QED BY <1>7, <3>1, <3>2 DEF Restart
  <2>2. full' \in BOOLEAN
    BY <1>t, <1>7, Zenon DEF TypeOK, Restart, InitSegments
  <2>3. files' \subseteq Nat
    BY <1>t, <1>7 DEF TypeOK, Restart, InitSegments
  <2>4. husks' \subseteq Nat
    BY <1>t, <1>7 DEF TypeOK, Restart
  <2> QED BY <1>t, <1>7, <2>1, <2>2, <2>3, <2>4 DEF TypeOK, Restart, InitSegments, Positions
<1>8. CASE ReplayRecord
  <2>1. replay.pos \in Positions
    BY <1>8 DEF ReplayRecord, HasNext
  <2>2. log[replay.pos].key \in Key
    BY <1>t, <2>1, RecordFields
  <2>3. replay.pos \in Nat /\ replay.pos + 1 \in Nat
    BY <1>t DEF TypeOK
  <2>4. idx' \in [Key -> Nat] /\ missed' \subseteq Key /\ kept' \subseteq Key
    BY <1>t, <1>8, <2>2, <2>3 DEF TypeOK, ReplayRecord
  <2>5. replay' \in [seg : Nat, pos : Nat]
    BY <1>t, <1>8, <2>3 DEF TypeOK, ReplayRecord
  <2> QED BY <1>t, <1>8, <2>4, <2>5 DEF TypeOK, ReplayRecord, segVars, Positions
<1>9. CASE ReplayNextSegment
  <2>1. replay \in [seg : Nat, pos : Nat] /\ replay.seg + 1 \in Nat
    BY <1>t DEF TypeOK
  <2>2. replay' \in [seg : Nat, pos : Nat]
    BY <1>9, <2>1 DEF ReplayNextSegment
  <2> QED BY <1>t, <1>9, <2>2 DEF TypeOK, ReplayNextSegment, segVars, Positions
<1>10. CASE ReplayDone
  <2>1. NoReplay \in [seg : Nat, pos : Nat]
    BY DEF NoReplay
  <2> QED BY <1>t, <1>10, <2>1 DEF TypeOK, ReplayDone, segVars, Positions
<1>11. CASE UNCHANGED vars
  BY <1>t, <1>11 DEF TypeOK, vars, segVars, Positions
<1>12. CASE PutAppendFails
  <2>1. full' \in BOOLEAN
    BY <1>12, Zenon DEF PutAppendFails, AppendFails
  <2>2. stuck' \in BOOLEAN
    BY <1>t, <1>12, Zenon DEF TypeOK, PutAppendFails, AppendFails
  <2>3. cur' \in Nat /\ files' \subseteq Nat
    <3>1. cur \in Nat /\ cur + 1 \in Nat /\ files \subseteq Nat
      BY <1>t DEF TypeOK
    <3>2. \/ cur' = cur /\ files' = files
          \/ cur' = cur + 1 /\ files' = files \cup {cur + 1}
      BY <1>12, Zenon DEF PutAppendFails, AppendFails
    <3> QED BY <3>1, <3>2
  <2> QED BY <1>t, <1>12, <2>1, <2>2, <2>3
        DEF TypeOK, PutAppendFails, AppendFails, Positions
<1>13. ASSUME NEW k \in Key, DeleteAgain(k) PROVE TypeOK'
  <2>1. log[idx[k]].seg \in Nat
    BY <1>t, <1>13, RecordFields DEF IInv, IndexIsNew, DeleteAgain
  <2> QED BY <1>t, <1>13, <2>1 DEF TypeOK, DeleteAgain, segVars, Positions
<1> QED BY <1>1, <1>2, <1>3, <1>4, <1>5, <1>6, <1>7, <1>8, <1>9, <1>10, <1>11, <1>12, <1>13
      DEF Next

-----------------------------------------------------------------------------
(* The inductive invariant.                                                *)

\* Put's Append preserves the invariant: the new record is newer than all
\* that was removed, and is not in the segment about to be deleted.
LEMMA PutAppendStep ==
  ASSUME IInv, TypeOK', NEW k \in Key, PutAppend(k)
  PROVE  IInv'
<1>t. TypeOK
  BY DEF IInv
<1>1. /\ Len(log) \in Nat /\ Len(log') = Len(log) + 1
      /\ \A i \in Positions : log'[i] = log[i]
      /\ log'[Len(log')].key = k /\ log'[Len(log')].seg = cur'
      /\ \/ ~full /\ cur' = cur /\ files' = files
         \/ cur' = cur + 1 /\ files' = files \cup {cur + 1}
      /\ cur \in Nat /\ cur' \in Nat
  <2>1. AppendRecord(k)
    BY DEF PutAppend
  <2>2. Len(log) \in Nat /\ cur \in Nat
    BY <1>t DEF TypeOK
  <2>3. log'[Len(log')] = [key |-> k, seg |-> cur']
    BY <1>t, <2>1, AppendFacts
  <2>4. log'[Len(log')].key = k /\ log'[Len(log')].seg = cur'
    BY <2>3
  <2> QED BY <1>t, <2>1, <2>2, <2>4, AppendFacts
<1>2. /\ clean' = clean /\ gone' = gone /\ mode = "up" /\ mode' = "up"
      /\ idx' = idx /\ acked' = acked /\ dead' = dead
      /\ husks' = husks /\ kept' = kept /\ missed' = missed
      /\ op.type = "none" /\ op' = [type |-> "put", key |-> k, pos |-> Len(log')]
  BY DEF PutAppend, AppendRecord
<1>3. Positions' = Positions \cup {Len(log')} /\ \A i \in Positions : i \in Nat /\ i < Len(log')
  BY <1>1 DEF Positions
<1>4. \A i \in Positions : log[i].seg \in Nat
  BY <1>t, RecordFields
<1>5. LogIsOrdered'
  BY <1>1, <1>3, <1>4 DEF IInv, LogIsOrdered
<1>6. IndexIsNew'
  <2>1. \A j \in Key : dead'[j] <= Len(log')
    BY <1>t, <1>1, <1>2, Numbers DEF IInv, IndexIsNew
  <2> QED BY <1>1, <1>2, <1>3, <2>1 DEF IInv, IndexIsNew, PastRemoved
<1>12. \A q \in Nat : q # cur' => RecordsOf(q)' = RecordsOf(q)
  BY <1>1, <1>3 DEF RecordsOf
<1>13. GoneIsWhole'
  <2> SUFFICES ASSUME NEW j \in Key, idx[j] # 0, idx[j] \in gone
               PROVE  /\ \A p \in Positions' : log'[p].seg = log'[idx[j]].seg => p \in gone
                      /\ log'[idx[j]].seg < cur'
    BY <1>2 DEF GoneIsWhole, RecordsOf
  <2>1. /\ idx[j] \in Positions /\ log[idx[j]].seg <= cur
        /\ \A p \in Positions : log[p].seg = log[idx[j]].seg => p \in gone
        /\ log[idx[j]].seg < cur \/ full
    BY <1>2 DEF IInv, IndexIsNew, LogIsOrdered, GoneIsWhole, RecordsOf
  <2>2. log'[idx[j]] = log[idx[j]] /\ log[idx[j]].seg \in Nat
    BY <1>1, <1>4, <2>1
  <2>3. log[idx[j]].seg < cur'
    BY <1>1, <2>1, <2>2
  <2> QED BY <1>1, <1>3, <2>1, <2>2, <2>3
<1>14. HusksAreEmpty'
  <2> SUFFICES ASSUME NEW q \in husks
               PROVE  RecordsOf(q)' # {} /\ RecordsOf(q)' \subseteq gone /\ q < cur'
    BY <1>2 DEF HusksAreEmpty
  <2>1. q \in Nat /\ RecordsOf(q) # {} /\ RecordsOf(q) \subseteq gone /\ (q < cur \/ (q = cur /\ full))
    BY <1>t, <1>2 DEF IInv, HusksAreEmpty, TypeOK
  <2>2. q < cur'
    BY <1>1, <2>1
  <2> QED BY <1>1, <1>12, <2>1, <2>2
<1>7. NoFileMissing'
  BY <1>1, <1>2, <1>4 DEF IInv, IndexIsNew, NoFileMissing
<1>8. CleanIsEmpty'
  <2>1. clean' # NoSegment => clean' < cur'
    BY <1>t, <1>1, <1>2, Numbers DEF IInv, CleanIsEmpty
  <2>2. clean # NoSegment => clean \in Nat /\ RecordsOf(clean)' = RecordsOf(clean)
    <3> SUFFICES ASSUME clean # NoSegment
                 PROVE  clean \in Nat /\ RecordsOf(clean)' = RecordsOf(clean)
      OBVIOUS
    <3>1. PICK c \in Nat : c = clean
      BY <1>t, Numbers
    <3>2. RecordsOf(c)' = RecordsOf(c)
      BY <1>1, <1>2, <1>12, <2>1, <3>1
    <3> QED BY <1>2, <3>1, <3>2
  <2>3. \A j \in Key : idx[j] # 0 => log'[idx[j]] = log[idx[j]]
    BY <1>1 DEF IInv, IndexIsNew
  <2> QED BY <1>2, <2>1, <2>2, <2>3 DEF IInv, CleanIsEmpty
<1>9. OpIsCurrent'
  <2>1. op'.type = "put" /\ op'.key = k /\ op'.pos = Len(log')
    BY <1>2
  <2>2. PastRemoved(Len(log))'
    BY <1>t, <1>1, <1>2, Numbers DEF IInv, IndexIsNew, PastRemoved
  <2>3. cur' \in files'
    BY <1>1, <1>2 DEF IInv, NoFileMissing
  <2>4. clean' # NoSegment => clean' < cur'
    BY <1>t, <1>1, <1>2, Numbers DEF IInv, CleanIsEmpty
  <2>5. Len(log') \in Positions'
    BY <1>3
  <2> QED BY <1>1, <2>1, <2>2, <2>3, <2>4, <2>5 DEF OpIsCurrent
<1>10. ReplayIsPast' /\ QuietUnlessUp'
  BY <1>2 DEF ReplayIsPast, QuietUnlessUp
<1>11. AckedIsKept'
  BY <1>1, <1>2, <1>3 DEF IInv, AckedIsKept
<1> QED BY <1>5, <1>6, <1>7, <1>8, <1>9, <1>10, <1>11, <1>13, <1>14 DEF IInv

\* A Put whose Append fails in a rollover preserves the invariant: the closed
\* segment counts as full, and the one begun behind it holds no record.
LEMMA PutAppendFailsStep ==
  ASSUME IInv, TypeOK', PutAppendFails
  PROVE  IInv'
<1>t. TypeOK
  BY DEF IInv
<1>1. /\ log' = log /\ clean' = clean /\ gone' = gone /\ Positions' = Positions
      /\ mode = "up" /\ mode' = "up" /\ idx' = idx
      /\ acked' = acked /\ dead' = dead /\ op' = op /\ op.type = "none"
      /\ husks' = husks /\ kept' = kept /\ missed' = missed
  BY DEF PutAppendFails, AppendFails, Positions
<1>2. \/ full' /\ cur' = cur /\ files' = files
      \/ cur' = cur + 1 /\ files' = files \cup {cur + 1}
  <2>1. CASE full' = TRUE /\ files' = files /\ cur' = cur
    BY <2>1, Zenon
  <2>2. CASE cur' = cur + 1 /\ files' = files \cup {cur + 1}
    BY <2>2
  <2> QED BY <2>1, <2>2 DEF PutAppendFails, AppendFails
<1>3. cur \in Nat /\ \A i \in Positions : log[i].seg \in Nat
  BY <1>t, RecordFields DEF TypeOK
<1>4. LogIsOrdered'
  BY <1>1, <1>2, <1>3 DEF IInv, LogIsOrdered
<1>5. NoFileMissing'
  BY <1>1, <1>2, <1>3 DEF IInv, IndexIsNew, NoFileMissing
<1>7. \A q : RecordsOf(q)' = RecordsOf(q)
  BY <1>1 DEF RecordsOf
<1>8. GoneIsWhole'
  BY <1>1, <1>2, <1>3, <1>7 DEF IInv, GoneIsWhole, IndexIsNew, LogIsOrdered
<1>9. HusksAreEmpty'
  <2>1. \A q \in husks : q \in Nat
    BY <1>t DEF TypeOK
  <2> QED BY <1>1, <1>2, <1>3, <1>7, <2>1 DEF IInv, HusksAreEmpty
<1>6. CleanIsEmpty'
  BY <1>t, <1>1, <1>2, <1>3, <1>7, Numbers DEF IInv, CleanIsEmpty
<1> QED BY <1>1, <1>4, <1>5, <1>6, <1>8, <1>9
      DEF IInv, IndexIsNew, PastRemoved, OpIsCurrent, ReplayIsPast, QuietUnlessUp,
          AckedIsKept

\* Put's PutIndex preserves the invariant, whether it succeeds or fails.
LEMMA PutIndexStep ==
  ASSUME IInv, TypeOK', PutIndex
  PROVE  IInv'
<1>t. TypeOK
  BY DEF IInv
<1>1. /\ log' = log /\ files' = files /\ cur' = cur /\ full' = full
      /\ clean' = clean /\ gone' = gone /\ Positions' = Positions
      /\ mode = "up" /\ mode' = "up" /\ dead' = dead
      /\ op.type = "put" /\ op'.type = "none" /\ husks' = husks
  BY DEF PutIndex, segVars, NoOp, Positions
<1>r. \A q : RecordsOf(q)' = RecordsOf(q)
  BY <1>1 DEF RecordsOf
<1>h. HusksAreEmpty'
  BY <1>1, <1>r DEF IInv, HusksAreEmpty
<1>2. CASE idx' = idx /\ acked' = acked /\ missed' = missed /\ kept' = kept
  <2>1. GoneIsWhole' /\ CleanIsEmpty'
    BY <1>1, <1>2, <1>r DEF IInv, GoneIsWhole, CleanIsEmpty
  <2> QED BY <1>1, <1>2, <1>h, <2>1
        DEF IInv, LogIsOrdered, IndexIsNew, PastRemoved, NoFileMissing,
            OpIsCurrent, ReplayIsPast, QuietUnlessUp, AckedIsKept
<1>3. CASE /\ idx' = [idx EXCEPT ![op.key] = op.pos]
           /\ acked' = [acked EXCEPT ![op.key] = op.pos]
           /\ missed' = missed \ {op.key}
           /\ kept' = kept \ {op.key}
  <2>1. op.key \in Key /\ op.pos \in Nat
    BY <1>t, <1>1, OpFields
  <2>2. \A k \in Key : /\ idx'[k] = IF k = op.key THEN op.pos ELSE idx[k]
                       /\ acked'[k] = IF k = op.key THEN op.pos ELSE acked[k]
    BY <1>t, <1>3, <2>1 DEF TypeOK
  <2>3. IndexIsNew'
    BY <1>1, <1>3, <2>2 DEF IInv, IndexIsNew, PastRemoved, OpIsCurrent
  <2>4. NoFileMissing'
    <3>1. \A s \in log[op.pos].seg..cur : s \in files
      BY <1>t, <1>1, Numbers DEF IInv, OpIsCurrent
    <3> QED BY <1>1, <2>2, <3>1 DEF IInv, NoFileMissing
  <2>5. CleanIsEmpty'
    BY <1>1, <1>3, <1>r, <2>2 DEF IInv, CleanIsEmpty, OpIsCurrent
  <2>6. AckedIsKept'
    BY <1>1, <1>3, <2>1, <2>2 DEF IInv, AckedIsKept, OpIsCurrent
  <2>7. GoneIsWhole'
    <3>1. op.pos \notin gone
      BY <1>1, <2>1 DEF IInv, OpIsCurrent, PastRemoved
    <3> QED BY <1>1, <1>r, <2>2, <3>1 DEF IInv, GoneIsWhole
  <2> QED BY <1>1, <1>h, <2>3, <2>4, <2>5, <2>6, <2>7
        DEF IInv, LogIsOrdered, OpIsCurrent, ReplayIsPast, QuietUnlessUp
<1> QED BY <1>2, <1>3 DEF PutIndex

\* Delete's RemoveAsync preserves the invariant: when the oldest record ends
\* its segment, every other indexed record is in a later one.
LEMMA DeleteRemoveStep ==
  ASSUME IInv, TypeOK', NEW k \in Key, DeleteRemove(k)
  PROVE  IInv'
<1>t. TypeOK
  BY DEF IInv
<1>1. /\ log' = log /\ files' = files /\ cur' = cur /\ full' = full
      /\ gone' = gone /\ Positions' = Positions
      /\ mode = "up" /\ mode' = "up" /\ dead' = dead /\ idx' = idx
      /\ op.type = "none" /\ op' = [type |-> "delete", key |-> k, pos |-> idx[k]]
      /\ acked' = [acked EXCEPT ![k] = 0]
      /\ clean' = IF EndsSegment(idx[k]) THEN log[idx[k]].seg ELSE clean
      /\ idx[k] # 0 /\ idx[k] \notin gone
      /\ husks' = husks /\ kept' = kept /\ missed' = missed
  BY DEF DeleteRemove, RemoveAsync, Positions
<1>2. op'.type = "delete" /\ op'.key = k /\ op'.pos = idx[k]
  BY <1>1
<1>3. \A j \in Key : idx[j] # 0 =>
        /\ idx[j] \in Positions /\ idx[j] \in Nat /\ log[idx[j]].seg \in Nat
        /\ j # k => idx[k] < idx[j]
  <2>1. \A j \in Key : idx[j] # 0 => idx[j] \in Positions /\ log[idx[j]].key = j
    BY DEF IInv, IndexIsNew
  <2>2. \A j \in Key : idx[j] # 0 => idx[k] <= idx[j]
    BY DEF DeleteRemove, Oldest
  <2>3. \A j \in Key : idx[j] \in Nat
    BY <1>t DEF TypeOK
  <2>4. \A j \in Key : idx[j] # 0 => log[idx[j]].seg \in Nat
    BY <1>t, <2>1, RecordFields
  <2> QED BY <1>1, <2>1, <2>2, <2>3, <2>4
<1>r. \A q : RecordsOf(q)' = RecordsOf(q)
  BY <1>1 DEF RecordsOf
<1>4. CleanIsEmpty'
  <2>1. CASE EndsSegment(idx[k])
    <3>1. clean' = log[idx[k]].seg
      BY <1>1, <2>1
    <3>2. log[idx[k]].seg <= cur
      BY <1>1, <1>3 DEF IInv, LogIsOrdered
    <3>3. log[idx[k]].seg < cur \/ (log[idx[k]].seg = cur /\ full)
      BY <1>t, <1>1, <1>3, <2>1, <3>2 DEF EndsSegment, TypeOK
    <3>4. ASSUME NEW j \in Key, j # k, idx[j] # 0
          PROVE  log[idx[k]].seg < log[idx[j]].seg
      <4>1. idx[j] \in Positions /\ idx[k] \in Positions /\ idx[k] < idx[j]
        BY <1>1, <1>3, <3>4
      <4>2. log[idx[k]].seg <= log[idx[j]].seg
        BY <1>3, <4>1, <3>4 DEF IInv, LogIsOrdered
      <4>3. log[idx[j]].seg # log[idx[k]].seg
        BY <1>1, <1>3, <2>1, <4>1, <3>4 DEF EndsSegment, RecordsOf
      <4> QED BY <1>1, <1>3, <3>4, <4>2, <4>3
    <3>5. \A q \in RecordsOf(log[idx[k]].seg) : q <= idx[k]
      BY <2>1 DEF EndsSegment
    <3> QED BY <1>1, <1>2, <1>r, <3>1, <3>3, <3>4, <3>5 DEF CleanIsEmpty
  <2>2. CASE ~EndsSegment(idx[k])
    BY <1>1, <1>2, <1>r, <2>2 DEF IInv, CleanIsEmpty
  <2> QED BY <2>1, <2>2
<1>5. OpIsCurrent'
  <2>1. acked'[k] = 0
    BY <1>t, <1>1 DEF TypeOK
  <2> QED BY <1>1, <1>2, <1>3, <2>1 DEF OpIsCurrent
<1>6. AckedIsKept'
  <2>1. \A j \in Key : acked'[j] = IF j = k THEN 0 ELSE acked[j]
    BY <1>t, <1>1 DEF TypeOK
  <2> QED BY <1>1, <2>1 DEF IInv, AckedIsKept
<1>7. LogIsOrdered' /\ IndexIsNew' /\ NoFileMissing' /\ ReplayIsPast' /\ QuietUnlessUp'
  BY <1>1 DEF IInv, LogIsOrdered, IndexIsNew, PastRemoved, NoFileMissing,
       ReplayIsPast, QuietUnlessUp
<1>8. GoneIsWhole' /\ HusksAreEmpty'
  BY <1>1, <1>r DEF IInv, GoneIsWhole, HusksAreEmpty
<1> QED BY <1>4, <1>5, <1>6, <1>7, <1>8 DEF IInv

\* Trying a Delete again preserves the invariant: the file that RemoveAsync
\* leaves is one of a deleted segment.
LEMMA DeleteAgainStep ==
  ASSUME IInv, TypeOK', NEW k \in Key, DeleteAgain(k)
  PROVE  IInv'
<1>1. /\ log' = log /\ files' = files /\ cur' = cur /\ full' = full
      /\ clean' = clean /\ gone' = gone /\ Positions' = Positions
      /\ mode = "up" /\ mode' = "up" /\ dead' = dead /\ idx' = idx /\ acked' = acked
      /\ op' = op /\ kept' = kept /\ missed' = missed
      /\ husks' = husks \cup {log[idx[k]].seg}
      /\ idx[k] # 0 /\ idx[k] \in gone
  BY DEF DeleteAgain, segVars, Positions
<1>2. \A q : RecordsOf(q)' = RecordsOf(q)
  BY <1>1 DEF RecordsOf
<1>3. /\ RecordsOf(log[idx[k]].seg) \subseteq gone
      /\ log[idx[k]].seg < cur \/ full
      /\ log[idx[k]].seg <= cur /\ log[idx[k]].seg \in Nat /\ cur \in Nat
      /\ idx[k] \in RecordsOf(log[idx[k]].seg)
  BY <1>1, RecordFields DEF IInv, GoneIsWhole, IndexIsNew, LogIsOrdered, TypeOK, RecordsOf
<1>4. HusksAreEmpty'
  BY <1>1, <1>2, <1>3 DEF IInv, HusksAreEmpty
<1>5. GoneIsWhole' /\ CleanIsEmpty'
  BY <1>1, <1>2 DEF IInv, GoneIsWhole, CleanIsEmpty
<1> QED BY <1>1, <1>4, <1>5
      DEF IInv, LogIsOrdered, IndexIsNew, PastRemoved, NoFileMissing, OpIsCurrent,
          ReplayIsPast, QuietUnlessUp, AckedIsKept

\* Delete's DelIndex preserves the invariant: when it succeeds, what is left
\* in the index is newer than the record that was removed; when it fails, the
\* key is one whose record may go.
LEMMA DeleteIndexStep ==
  ASSUME IInv, TypeOK', DeleteIndex
  PROVE  IInv'
<1>t. TypeOK
  BY DEF IInv
<1>1. /\ log' = log /\ files' = files /\ cur' = cur /\ full' = full
      /\ clean' = clean /\ gone' = gone /\ Positions' = Positions
      /\ mode = "up" /\ mode' = "up" /\ acked' = acked
      /\ op.type = "delete" /\ op'.type = "none"
      /\ husks' = husks /\ missed' = missed
  BY DEF DeleteIndex, segVars, NoOp, Positions
<1>2. op.key \in Key /\ op.pos \in Nat
  BY <1>t, <1>1, OpFields
<1>r. \A q : RecordsOf(q)' = RecordsOf(q)
  BY <1>1 DEF RecordsOf
<1>h. HusksAreEmpty'
  BY <1>1, <1>r DEF IInv, HusksAreEmpty
<1>3. CASE /\ idx' = [idx EXCEPT ![op.key] = 0]
           /\ dead' = [dead EXCEPT ![op.key] = op.pos]
           /\ kept' = kept \ {op.key}
  <2>1. \A k \in Key : /\ idx'[k] = IF k = op.key THEN 0 ELSE idx[k]
                       /\ dead'[k] = IF k = op.key THEN op.pos ELSE dead[k]
    BY <1>t, <1>2, <1>3 DEF TypeOK
  <2>2. IndexIsNew'
    <3>1. op.pos = idx[op.key] /\ op.pos # 0 /\ log[op.pos].key = op.key
      BY <1>1, <1>2 DEF IInv, OpIsCurrent, IndexIsNew
    <3>2. \A k \in Key : k # op.key /\ idx[k] # 0 => op.pos < idx[k]
      BY <1>t, <1>1, <1>2, <3>1, Numbers DEF IInv, OpIsCurrent, IndexIsNew
    <3>3. op.pos <= Len(log)
      BY <1>t, <1>2, <3>1, Numbers DEF IInv, IndexIsNew
    <3> QED BY <1>1, <1>2, <1>3, <2>1, <3>2, <3>3 DEF IInv, IndexIsNew
  <2>3. NoFileMissing'
    BY <1>1, <2>1 DEF IInv, NoFileMissing
  <2>4. GoneIsWhole' /\ CleanIsEmpty'
    BY <1>1, <1>3, <1>r, <2>1 DEF IInv, GoneIsWhole, CleanIsEmpty
  <2>5. AckedIsKept'
    BY <1>1, <1>2, <1>3, <2>1 DEF IInv, AckedIsKept, OpIsCurrent
  <2> QED BY <1>1, <1>h, <2>2, <2>3, <2>4, <2>5
        DEF IInv, LogIsOrdered, OpIsCurrent, ReplayIsPast, QuietUnlessUp
<1>4. CASE kept' = kept \cup {op.key} /\ idx' = idx /\ dead' = dead
  <2>1. IndexIsNew' /\ NoFileMissing'
    BY <1>1, <1>4 DEF IInv, IndexIsNew, NoFileMissing
  <2>2. GoneIsWhole' /\ CleanIsEmpty'
    BY <1>1, <1>4, <1>r DEF IInv, GoneIsWhole, CleanIsEmpty
  <2>3. AckedIsKept'
    BY <1>1, <1>2, <1>4 DEF IInv, AckedIsKept, OpIsCurrent
  <2> QED BY <1>1, <1>h, <2>1, <2>2, <2>3
        DEF IInv, LogIsOrdered, OpIsCurrent, ReplayIsPast, QuietUnlessUp
<1> QED BY <1>3, <1>4 DEF DeleteIndex

\* The deletion of a segment preserves the invariant: the index and a Put in
\* progress name later segments only, but for a key whose DelIndex failed.
LEMMA CleanStep ==
  ASSUME IInv, TypeOK', Clean
  PROVE  IInv'
<1>t. TypeOK
  BY DEF IInv
<1>1. /\ log' = log /\ cur' = cur /\ full' = full /\ Positions' = Positions
      /\ clean # NoSegment /\ clean' = NoSegment
      /\ files' = files \ {clean} /\ gone' = gone \cup RecordsOf(clean)
      /\ mode = "up" /\ mode' = "up" /\ idx' = idx /\ acked' = acked /\ dead' = dead
      /\ op.type # "delete" /\ op' = op
      /\ husks' = husks /\ kept' = kept /\ missed' = missed
  BY DEF Clean, DeleteSegment, Positions
<1>2. \A k \in Key : idx[k] # 0 =>
        /\ idx[k] \in Positions /\ log[idx[k]].seg \in Nat
        /\ \/ clean < log[idx[k]].seg
           \/ /\ k \in kept /\ clean = log[idx[k]].seg
              /\ \A q \in RecordsOf(clean) : q <= idx[k]
  <2>1. \A k \in Key : idx[k] # 0 => idx[k] \in Positions
    BY DEF IInv, IndexIsNew
  <2> QED BY <1>t, <1>1, <2>1, RecordFields DEF IInv, CleanIsEmpty
<1>3. ASSUME NEW p \in Positions, clean < log[p].seg
      PROVE  \A g \in RecordsOf(clean) : g < p
  BY <1>t, <1>1, <1>3, Numbers, RecordFields DEF IInv, LogIsOrdered, RecordsOf
<1>r. \A q : RecordsOf(q)' = RecordsOf(q)
  BY <1>1 DEF RecordsOf
<1>n. clean \in Nat /\ cur \in Nat /\ RecordsOf(clean) \subseteq Positions
  BY <1>t, <1>1, Numbers DEF RecordsOf
<1>4. IndexIsNew'
  <2> SUFFICES ASSUME NEW k \in Key, idx[k] # 0, NEW g \in RecordsOf(clean)
               PROVE  g < idx[k] \/ (g = idx[k] /\ k \in kept)
    BY <1>1 DEF IInv, IndexIsNew
  <2>1. g \in Nat /\ idx[k] \in Nat
    BY <1>t, <1>2, <1>n, Numbers
  <2> QED BY <1>2, <1>3, <2>1
<1>5. NoFileMissing'
  <2>1. \A k \in Key : idx[k] # 0 /\ clean = log[idx[k]].seg => idx[k] \in gone'
    BY <1>1, <1>2 DEF RecordsOf
  <2>2. ~full => cur \in files /\ clean # cur
    BY <1>1, <1>n DEF IInv, NoFileMissing, CleanIsEmpty
  <2>3. ASSUME NEW k \in Key, idx[k] # 0, NEW u \in log[idx[k]].seg..cur
        PROVE  u \in files' \/ (u = log[idx[k]].seg /\ idx[k] \in gone')
    BY <1>1, <1>2, <1>n, <2>1, <2>3 DEF IInv, NoFileMissing
  <2> QED BY <1>1, <2>2, <2>3 DEF NoFileMissing
<1>6. OpIsCurrent'
  BY <1>t, <1>1, <1>3, Numbers DEF IInv, OpIsCurrent, PastRemoved
<1>7. GoneIsWhole'
  <2> SUFFICES ASSUME NEW k \in Key, idx[k] # 0, idx[k] \in gone \cup RecordsOf(clean)
               PROVE  /\ RecordsOf(log[idx[k]].seg) \subseteq gone \cup RecordsOf(clean)
                      /\ log[idx[k]].seg < cur \/ full
    BY <1>1, <1>r DEF GoneIsWhole
  <2>1. CASE idx[k] \in gone
    BY <1>1, <2>1 DEF IInv, GoneIsWhole
  <2>2. CASE idx[k] \in RecordsOf(clean)
    <3>1. clean = log[idx[k]].seg
      BY <2>2 DEF RecordsOf
    <3> QED BY <1>1, <1>n, <3>1 DEF IInv, CleanIsEmpty
  <2> QED BY <2>1, <2>2
<1>8. HusksAreEmpty'
  BY <1>1, <1>r DEF IInv, HusksAreEmpty
<1> QED BY <1>1, <1>4, <1>5, <1>6, <1>7, <1>8
      DEF IInv, LogIsOrdered, CleanIsEmpty, ReplayIsPast, QuietUnlessUp, AckedIsKept

\* A crash preserves the invariant, wherever it happens.
LEMMA CrashStep ==
  ASSUME IInv, TypeOK', Crash
  PROVE  IInv'
<1>t. TypeOK
  BY DEF IInv
<1>1. /\ log' = log /\ gone' = gone /\ clean' = NoSegment
      /\ files \subseteq files'
      /\ \/ cur' = cur /\ files' = files
         \/ cur' = cur + 1 /\ files \subseteq files'
  BY <1>t, CrashFacts
<1>2. /\ mode # "down" /\ mode' = "down" /\ op' = NoOp
      /\ idx' = idx /\ acked' = acked /\ dead' = dead
      /\ husks' = husks /\ missed' = missed
      /\ kept' = {k \in kept : idx[k] \in gone}
  BY DEF Crash
<1>3. Positions' = Positions /\ op'.type = "none"
  BY <1>1, <1>2 DEF Positions, NoOp
<1>r. \A q : RecordsOf(q)' = RecordsOf(q)
  BY <1>1, <1>3 DEF RecordsOf
<1>4. LogIsOrdered'
  BY <1>t, <1>1, <1>3, Numbers, RecordFields DEF IInv, LogIsOrdered
<1>s. \A k \in Key : idx[k] # 0 => log[idx[k]].seg \in Nat
  BY <1>t, RecordFields DEF IInv, IndexIsNew
<1>5. NoFileMissing'
  <2>2. \A k \in Key : idx[k] # 0 => \A u \in log[idx[k]].seg..cur :
          u \in files \/ (u = log[idx[k]].seg /\ idx[k] \in gone)
    BY <1>2 DEF IInv, NoFileMissing
  <2> QED BY <1>t, <1>1, <1>2, <1>s, <2>2, Numbers DEF NoFileMissing
<1>6. AckedIsKept'
  <2>1. \A m \in Key : IsLastIndex(m)' <=> IsLastIndex(m)
    BY <1>2 DEF IsLastIndex
  <2>2. \A u : SegmentExists(u) => SegmentExists(u)'
    BY <1>1, <1>2 DEF SegmentExists
  <2>3. mode = "replay" => \A m \in Key : IsLastIndex(m) =>
          idx[m] <= replay.pos /\ (Covered(replay.seg) => SegmentExists(log[idx[m]].seg))
    BY DEF IInv, ReplayIsPast
  <2> SUFFICES ASSUME NEW k \in Key, acked[k] # 0
               PROVE  /\ idx[k] # 0 /\ k \notin kept'
                      /\ acked[k] \in Positions /\ log[acked[k]].key = k
                      /\ \/ k \in missed
                         \/ acked[k] <= idx[k]
                         \/ \A m \in Key : IsLastIndex(m) =>
                              idx[m] <= acked[k] /\ SegmentExists(log[idx[m]].seg)
    BY <1>1, <1>2, <1>3, <2>1, <2>2 DEF AckedIsKept
  <2>4. /\ idx[k] # 0 /\ k \notin kept
        /\ acked[k] \in Positions /\ log[acked[k]].key = k
        /\ \/ k \in missed
           \/ acked[k] <= idx[k]
           \/ mode = "replay" /\ replay.pos <= acked[k] /\ Covered(replay.seg)
           \/ \A m \in Key : IsLastIndex(m) =>
                idx[m] <= acked[k] /\ SegmentExists(log[idx[m]].seg)
    BY DEF IInv, AckedIsKept
  <2> QED BY <1>t, <1>2, <2>3, <2>4, Numbers
<1>7. IndexIsNew'
  BY <1>1, <1>2, <1>3 DEF IInv, IndexIsNew
<1>8. GoneIsWhole'
  BY <1>1, <1>2, <1>r DEF IInv, GoneIsWhole
<1>9. HusksAreEmpty'
  <2>1. \A q \in husks : q \in Nat /\ RecordsOf(q) # {} /\ RecordsOf(q) \subseteq gone /\ (q < cur \/ q = cur)
    BY <1>t DEF IInv, HusksAreEmpty, TypeOK
  <2> QED BY <1>t, <1>1, <1>2, <1>r, <2>1, Numbers DEF HusksAreEmpty
<1> QED BY <1>1, <1>2, <1>3, <1>4, <1>5, <1>6, <1>7, <1>8, <1>9
      DEF IInv, CleanIsEmpty, OpIsCurrent, ReplayIsPast, QuietUnlessUp

\* The beginning of Init preserves the invariant: the replay starts at a
\* record newer than all that was removed and not past what was acknowledged.
LEMMA RestartStep ==
  ASSUME IInv, TypeOK', Restart
  PROVE  IInv'
<1>t. TypeOK
  BY DEF IInv
<1>1. /\ log' = log /\ gone' = gone /\ clean' = clean /\ cur' = cur /\ full' = full
      /\ files' = files \cup {cur} /\ Positions' = Positions
      /\ mode = "down" /\ idx' = idx /\ acked' = acked /\ dead' = dead /\ op' = op
      /\ kept' = kept /\ missed' = missed /\ husks' = husks \ {cur}
  BY DEF Restart, InitSegments, Positions
<1>2. op = NoOp /\ op.type = "none" /\ clean = NoSegment
  BY <1>1 DEF IInv, QuietUnlessUp, NoOp
<1>r. \A q : RecordsOf(q)' = RecordsOf(q)
  BY <1>1 DEF RecordsOf
<1>e. \A u : SegmentExists(u) => SegmentExists(u)'
  BY <1>1 DEF SegmentExists
<1>4. LogIsOrdered' /\ IndexIsNew' /\ CleanIsEmpty' /\ OpIsCurrent' /\ QuietUnlessUp'
  BY <1>1, <1>2 DEF IInv, LogIsOrdered, IndexIsNew, CleanIsEmpty, OpIsCurrent, QuietUnlessUp
<1>5. NoFileMissing'
  BY <1>1 DEF IInv, NoFileMissing
<1>h. HusksAreEmpty'
  BY <1>1, <1>r DEF IInv, HusksAreEmpty
<1>l. \A m \in Key : IsLastIndex(m)' <=> IsLastIndex(m)
  BY <1>1 DEF IsLastIndex
<1>g. ASSUME mode' = "astray" \/ ~NamesRecreated PROVE GoneIsWhole'
  <2> SUFFICES ASSUME NEW k \in Key, idx[k] # 0, idx[k] \in gone
               PROVE  /\ RecordsOf(log[idx[k]].seg) \subseteq gone
                      /\ mode' # "astray" => log[idx[k]].seg < cur
    BY <1>1, <1>r DEF GoneIsWhole
  <2>1. /\ RecordsOf(log[idx[k]].seg) \subseteq gone
        /\ log[idx[k]].seg <= cur /\ log[idx[k]].seg \in Nat /\ cur \in Nat
    BY <1>t, RecordFields DEF IInv, GoneIsWhole, IndexIsNew, LogIsOrdered, TypeOK
  <2>2. ~NamesRecreated => log[idx[k]].seg # cur
    BY DEF NamesRecreated
  <2> QED BY <1>g, <2>1, <2>2
<1>6. CASE (\A k \in Key : idx[k] = 0) /\ mode' = "up"
  <2>1. GoneIsWhole'
    BY <1>1, <1>6 DEF GoneIsWhole
  <2> QED BY <1>1, <1>4, <1>5, <1>6, <1>h, <2>1 DEF IInv, ReplayIsPast, AckedIsKept
<1>8. CASE mode' = "astray"
  <2>1. AckedIsKept'
    BY <1>1, <1>8, <1>e, <1>l DEF IInv, AckedIsKept
  <2> QED BY <1>4, <1>5, <1>8, <1>h, <1>g, <2>1 DEF IInv, ReplayIsPast
<1>7. ASSUME NEW m \in Key, IsLastIndex(m), mode' = "replay", ~NamesRecreated,
             replay' = [seg |-> log[idx[m]].seg,
                        pos |-> IF idx[m] \in gone THEN idx[m] + 1 ELSE idx[m]]
      PROVE  IInv'
  <2>1. /\ replay'.seg = log[idx[m]].seg /\ idx[m] # 0
        /\ replay'.pos = IF idx[m] \in gone THEN idx[m] + 1 ELSE idx[m]
    BY <1>7 DEF IsLastIndex
  <2>2. /\ idx[m] \in Positions /\ log[idx[m]].key = m
        /\ \A j \in Key : dead[j] < idx[m]
        /\ \A g \in gone : g < idx[m] \/ (g = idx[m] /\ m \in kept)
    BY <2>1 DEF IInv, IndexIsNew
  <2>3. \A n \in Key : IsLastIndex(n) => n = m
    BY <1>7, KeyAssumption DEF IsLastIndex
  <2>n. /\ idx[m] \in Nat /\ 1 <= idx[m] /\ idx[m] <= Len(log) /\ Len(log) \in Nat
        /\ log[idx[m]].seg \in Nat /\ cur \in Nat /\ log[idx[m]].seg <= cur
        /\ \A g \in gone : g \in Nat
        /\ \A j \in Key : dead[j] \in Nat /\ acked[j] \in Nat
    BY <1>t, <2>2, Numbers, RecordFields DEF IInv, LogIsOrdered
  <2>4. replay'.pos \in Nat /\ idx[m] <= replay'.pos /\ replay'.pos <= idx[m] + 1
    BY <2>1, <2>n
  <2>5. (\A g \in gone : g < replay'.pos) /\ (\A j \in Key : dead[j] < replay'.pos)
    BY <2>1, <2>2, <2>n
  <2>6. replay'.pos \in Positions => replay'.seg <= log[replay'.pos].seg
    BY <2>1, <2>2, <2>4, <2>n DEF IInv, LogIsOrdered
  <2>7. \A u \in (log[idx[m]].seg + 1)..cur : u \in files'
    BY <1>1, <2>1, <2>n DEF IInv, NoFileMissing
  <2>8. SegmentExists(log[idx[m]].seg)' => \A u \in log[idx[m]].seg..cur : SegmentExists(u)'
    <3>1. \A u \in log[idx[m]].seg..cur : u = log[idx[m]].seg \/ u \in (log[idx[m]].seg + 1)..cur
      BY <2>n
    <3> QED BY <1>1, <2>7, <3>1 DEF SegmentExists
  <2>9. SegmentExists(log[idx[m]].seg)' => Covered(replay.seg)'
    BY <1>1, <2>1, <2>8 DEF Covered
  <2>10. Covered(replay.seg)' => SegmentExists(log[idx[m]].seg)'
    BY <1>1, <2>1, <2>n DEF Covered
  <2>11. ReplayIsPast'
    <3>1. replay'.pos \in 1..(Len(log) + 1)
      BY <2>4, <2>n
    <3>2. PastRemoved(replay.pos)'
      BY <1>1, <2>5 DEF PastRemoved
    <3>3. Covered(replay.seg)' \/ ~SegmentExists(replay.seg)'
      BY <1>1, <2>1, <2>9
    <3> QED BY <1>1, <1>l, <2>1, <2>3, <2>4, <2>6, <2>10, <3>1, <3>2, <3>3 DEF ReplayIsPast
  <2>12. AckedIsKept'
    <3> SUFFICES ASSUME NEW k \in Key, acked[k] # 0
                 PROVE  /\ idx[k] # 0 /\ k \notin kept
                        /\ acked[k] \in Positions /\ log[acked[k]].key = k
                        /\ \/ k \in missed
                           \/ acked[k] <= idx[k]
                           \/ replay'.pos <= acked[k] /\ Covered(replay.seg)'
      BY <1>1, <1>7 DEF AckedIsKept
    <3>1. /\ idx[k] # 0 /\ k \notin kept
          /\ acked[k] \in Positions /\ log[acked[k]].key = k
          /\ \/ k \in missed
             \/ acked[k] <= idx[k]
             \/ idx[m] <= acked[k] /\ SegmentExists(log[idx[m]].seg)
      BY <1>1, <1>7 DEF IInv, AckedIsKept
    <3>2. CASE idx[m] <= acked[k] /\ SegmentExists(log[idx[m]].seg)
      <4>1. Covered(replay.seg)'
        BY <1>1, <1>e, <2>9, <3>2 DEF SegmentExists
      <4>2. idx[m] \in gone => idx[m] # acked[k]
        BY <2>2, <2>n, <3>1
      <4>3. replay'.pos <= acked[k]
        BY <2>1, <2>n, <3>2, <4>2
      <4> QED BY <3>1, <4>1, <4>3
    <3> QED BY <3>1, <3>2
  <2> QED BY <1>4, <1>5, <1>7, <1>h, <1>g, <2>11, <2>12 DEF IInv
<1> QED BY <1>6, <1>7, <1>8 DEF Restart

\* Writing a replayed record's index preserves the invariant: it may put an
\* older record in the index, but then the newer one is still to come.  When
\* the write fails the key is left as it is, and counted as missed if that is
\* behind what was acknowledged.
LEMMA ReplayRecordStep ==
  ASSUME IInv, TypeOK', ReplayRecord
  PROVE  IInv'
<1>t. TypeOK
  BY DEF IInv
<1>1. /\ log' = log /\ files' = files /\ cur' = cur /\ full' = full
      /\ clean' = clean /\ gone' = gone /\ Positions' = Positions
      /\ mode = "replay" /\ mode' = "replay" /\ acked' = acked /\ dead' = dead
      /\ op' = op /\ op = NoOp /\ op.type = "none" /\ clean = NoSegment
      /\ husks' = husks
  BY DEF ReplayRecord, segVars, Positions, IInv, QuietUnlessUp, NoOp
<1>2. PICK k \in Key : k = log[replay.pos].key
  BY <1>t, RecordFields DEF ReplayRecord, HasNext
<1>3. /\ replay.pos \in Positions /\ log[replay.pos].seg = replay.seg
      /\ PastRemoved(replay.pos) /\ Covered(replay.seg)
  BY <1>1 DEF ReplayRecord, HasNext, IInv, ReplayIsPast
<1>n. /\ replay.pos \in Nat /\ replay.seg \in Nat /\ cur \in Nat
      /\ replay.seg <= cur /\ replay.pos \notin gone
  BY <1>t, <1>3, Numbers DEF IInv, LogIsOrdered, PastRemoved
<1>4. \/ /\ \A j \in Key : idx'[j] = IF j = k THEN replay.pos ELSE idx[j]
         /\ missed' = missed \ {k} /\ kept' = kept \ {k}
      \/ /\ idx' = idx /\ kept' = kept
         /\ missed' = IF idx[k] < acked[k] THEN missed \cup {k} ELSE missed
  BY <1>t, <1>2 DEF ReplayRecord, TypeOK
<1>5. replay'.seg = replay.seg /\ replay'.pos = replay.pos + 1
  BY <1>t DEF ReplayRecord, TypeOK
<1>r. \A q : RecordsOf(q)' = RecordsOf(q)
  BY <1>1 DEF RecordsOf
<1>e. \A u : SegmentExists(u)' <=> SegmentExists(u)
  BY <1>1 DEF SegmentExists
<1>c. Covered(replay.seg)' <=> Covered(replay.seg)
  BY <1>1, <1>5, <1>e DEF Covered
<1>h. HusksAreEmpty'
  BY <1>1, <1>r DEF IInv, HusksAreEmpty
<1>6. IndexIsNew'
  BY <1>1, <1>2, <1>3, <1>4 DEF IInv, IndexIsNew, PastRemoved
<1>g. GoneIsWhole'
  BY <1>1, <1>4, <1>n, <1>r DEF IInv, GoneIsWhole
<1>7. NoFileMissing'
  <2>1. ASSUME NEW u \in replay.seg..cur PROVE u \in files
    <3>1. u \in Nat /\ replay.seg <= u /\ u <= cur /\ u \in files \cup husks
      BY <1>3, <1>n DEF Covered, SegmentExists
    <3>2. ASSUME u \in husks PROVE FALSE
      <4>1. PICK q \in RecordsOf(u) : q \in gone
        BY <3>2 DEF IInv, HusksAreEmpty
      <4>2. q \in Positions /\ q \in Nat /\ q < replay.pos /\ log[q].seg = u
        BY <1>t, <1>3, <4>1, Numbers DEF PastRemoved, RecordsOf
      <4>3. u <= replay.seg
        BY <1>3, <1>n, <4>2 DEF IInv, LogIsOrdered
      <4>4. replay.pos \in RecordsOf(u)
        BY <1>3, <1>n, <3>1, <4>3 DEF RecordsOf
      <4> QED BY <1>n, <3>2, <4>4 DEF IInv, HusksAreEmpty
    <3> QED BY <3>1, <3>2
  <2> QED BY <1>1, <1>3, <1>4, <2>1 DEF IInv, NoFileMissing
<1>8. ReplayIsPast'
  <2>1. replay'.pos \in 1..(Len(log) + 1)
    BY <1>t, <1>3, <1>5, Numbers
  <2>2. PastRemoved(replay.pos)'
    BY <1>t, <1>1, <1>3, <1>5, Numbers DEF PastRemoved
  <2>3. replay'.pos \in Positions => replay'.seg <= log[replay'.pos].seg
    BY <1>t, <1>3, <1>5, Numbers DEF IInv, LogIsOrdered
  <2>4. ASSUME NEW m \in Key, IsLastIndex(m)'
        PROVE  idx'[m] <= replay'.pos /\ SegmentExists(log[idx'[m]].seg)
    <3>1. CASE idx'[m] = replay.pos
      BY <1>3, <1>5, <1>n, <3>1 DEF Covered
    <3>2. CASE idx'[m] # replay.pos
      <4>1. IsLastIndex(m) /\ idx'[m] = idx[m]
        BY <1>t, <1>3, <1>4, <2>4, <3>2, Numbers DEF IsLastIndex
      <4>2. idx[m] <= replay.pos /\ SegmentExists(log[idx[m]].seg)
        BY <1>1, <1>3, <4>1 DEF IInv, ReplayIsPast
      <4> QED BY <1>t, <1>5, <4>1, <4>2, Numbers
    <3> QED BY <3>1, <3>2
  <2> QED BY <1>1, <1>3, <1>5, <1>c, <1>e, <2>1, <2>2, <2>3, <2>4 DEF ReplayIsPast
<1>9. AckedIsKept'
  <2> SUFFICES ASSUME NEW j \in Key, acked[j] # 0
               PROVE  /\ idx'[j] # 0 /\ j \notin kept'
                      /\ acked[j] \in Positions /\ log[acked[j]].key = j
                      /\ j \in missed' \/ acked[j] <= idx'[j] \/ replay'.pos <= acked[j]
    BY <1>1, <1>3, <1>c DEF AckedIsKept
  <2>1. /\ idx[j] # 0 /\ j \notin kept
        /\ acked[j] \in Positions /\ log[acked[j]].key = j
        /\ j \in missed \/ acked[j] <= idx[j] \/ replay.pos <= acked[j]
    BY <1>1 DEF IInv, AckedIsKept
  <2> QED BY <1>t, <1>2, <1>3, <1>4, <1>5, <2>1, Numbers
<1> QED BY <1>1, <1>6, <1>7, <1>8, <1>9, <1>g, <1>h
      DEF IInv, LogIsOrdered, CleanIsEmpty, OpIsCurrent, QuietUnlessUp

\* Going on to the next segment preserves the invariant: no record that the
\* replay has not seen is left behind.
LEMMA ReplayNextSegmentStep ==
  ASSUME IInv, TypeOK', ReplayNextSegment
  PROVE  IInv'
<1>t. TypeOK
  BY DEF IInv
<1>1. /\ log' = log /\ files' = files /\ cur' = cur /\ full' = full
      /\ clean' = clean /\ gone' = gone /\ Positions' = Positions
      /\ mode = "replay" /\ mode' = "replay" /\ idx' = idx
      /\ acked' = acked /\ dead' = dead /\ op' = op
      /\ husks' = husks /\ kept' = kept /\ missed' = missed
  BY DEF ReplayNextSegment, segVars, Positions
<1>2. replay'.seg = replay.seg + 1 /\ replay'.pos = replay.pos
  BY <1>t DEF ReplayNextSegment, TypeOK
<1>r. \A q : RecordsOf(q)' = RecordsOf(q)
  BY <1>1 DEF RecordsOf
<1>e. \A u : SegmentExists(u)' <=> SegmentExists(u)
  BY <1>1 DEF SegmentExists
<1>c. Covered(replay.seg) /\ Covered(replay.seg)'
  <2>1. Covered(replay.seg)
    BY <1>1 DEF IInv, ReplayIsPast, ReplayNextSegment
  <2>2. \A u \in (replay.seg + 1)..cur : SegmentExists(u)
    BY <1>t, <2>1, Numbers DEF Covered
  <2> QED BY <1>1, <1>2, <1>e, <2>1, <2>2 DEF Covered
<1>3. ReplayIsPast'
  <2>1. replay.pos \in Positions => replay.seg + 1 <= log[replay.pos].seg
    BY <1>t, <1>1, Numbers, RecordFields DEF ReplayNextSegment, HasNext, IInv, ReplayIsPast
  <2>2. \A m \in Key : IsLastIndex(m)' <=> IsLastIndex(m)
    BY <1>1 DEF IsLastIndex
  <2>3. \A m \in Key : IsLastIndex(m) => idx[m] <= replay.pos /\ SegmentExists(log[idx[m]].seg)
    BY <1>1, <1>c DEF IInv, ReplayIsPast
  <2>4. PastRemoved(replay.pos)'
    BY <1>1, <1>2 DEF IInv, ReplayIsPast, PastRemoved
  <2> QED BY <1>t, <1>1, <1>2, <1>c, <1>e, <2>1, <2>2, <2>3, <2>4 DEF IInv, ReplayIsPast
<1>4. AckedIsKept'
  BY <1>1, <1>2, <1>c DEF IInv, AckedIsKept
<1>5. GoneIsWhole' /\ HusksAreEmpty' /\ CleanIsEmpty'
  BY <1>1, <1>r DEF IInv, GoneIsWhole, HusksAreEmpty, CleanIsEmpty
<1> QED BY <1>1, <1>2, <1>3, <1>4, <1>5
      DEF IInv, LogIsOrdered, IndexIsNew, PastRemoved, NoFileMissing,
          OpIsCurrent, QuietUnlessUp

\* The end of Init preserves the invariant: the first missing segment is the
\* one after the current, so every record has been replayed, or it is the one
\* the replay began with, and then none had to be.
LEMMA ReplayDoneStep ==
  ASSUME IInv, TypeOK', ReplayDone
  PROVE  IInv'
<1>t. TypeOK
  BY DEF IInv
<1>1. /\ log' = log /\ files' = files /\ cur' = cur /\ full' = full
      /\ clean' = clean /\ gone' = gone /\ Positions' = Positions
      /\ mode = "replay" /\ mode' = "up" /\ idx' = idx
      /\ acked' = acked /\ dead' = dead /\ op' = op /\ op = NoOp /\ op.type = "none"
      /\ husks' = husks /\ kept' = kept /\ missed' = missed
      /\ ~SegmentExists(replay.seg)
  BY DEF ReplayDone, segVars, Positions, IInv, QuietUnlessUp, NoOp
<1>2. Covered(replay.seg) => replay.pos = Len(log) + 1
  <2> SUFFICES ASSUME Covered(replay.seg) PROVE replay.pos = Len(log) + 1
    OBVIOUS
  <2>1. cur < replay.seg
    BY <1>t, <1>1, Numbers DEF Covered
  <2>2. replay.pos \notin Positions
    BY <1>t, <1>1, <2>1, Numbers, RecordFields DEF IInv, ReplayIsPast, LogIsOrdered
  <2> QED BY <1>t, <1>1, <2>2, Numbers DEF IInv, ReplayIsPast, Positions
<1>3. AckedIsKept'
  BY <1>t, <1>1, <1>2, Numbers DEF IInv, AckedIsKept
<1>4. \A q : RecordsOf(q)' = RecordsOf(q)
  BY <1>1 DEF RecordsOf
<1>5. GoneIsWhole' /\ HusksAreEmpty' /\ CleanIsEmpty'
  BY <1>1, <1>4 DEF IInv, GoneIsWhole, HusksAreEmpty, CleanIsEmpty
<1> QED BY <1>1, <1>3, <1>5
      DEF IInv, LogIsOrdered, IndexIsNew, PastRemoved, NoFileMissing,
          OpIsCurrent, ReplayIsPast, QuietUnlessUp

\* A new store satisfies the invariant.
LEMMA InitIInv == Init => IInv
<1> SUFFICES ASSUME Init PROVE IInv
  OBVIOUS
<1>1. /\ log = <<>> /\ files = {0} /\ cur = 0 /\ full = FALSE /\ stuck = FALSE
      /\ clean = NoSegment /\ gone = {} /\ mode = "up" /\ op = NoOp /\ op.type = "none" /\ replay = NoReplay
      /\ toClean = {} /\ husks = {} /\ missed = {} /\ kept = {}
      /\ idx = [k \in Key |-> 0] /\ acked = [k \in Key |-> 0] /\ dead = [k \in Key |-> 0]
  BY DEF Init, SegInit, NoOp
<1>2. Len(log) = 0 /\ Positions = {} /\ log \in Seq(Record)
  BY <1>1 DEF Positions
<1>3. replay \in [seg : Nat, pos : Nat]
  BY <1>1 DEF NoReplay
<1>4. TypeOK
  <2>1. full \in BOOLEAN /\ stuck \in BOOLEAN
    BY <1>1, Zenon
  <2>2. /\ idx \in [Key -> Nat] /\ acked \in [Key -> Nat] /\ dead \in [Key -> Nat]
        /\ files \subseteq Nat /\ cur \in Nat
    BY <1>1
  <2> QED BY <1>1, <1>2, <1>3, <2>1, <2>2, Zenon DEF TypeOK
<1>5. /\ LogIsOrdered /\ IndexIsNew /\ NoFileMissing /\ AckedIsKept
      /\ GoneIsWhole /\ HusksAreEmpty
  BY <1>1, <1>2
     DEF LogIsOrdered, IndexIsNew, NoFileMissing, AckedIsKept, GoneIsWhole, HusksAreEmpty
<1>6. CleanIsEmpty /\ OpIsCurrent /\ ReplayIsPast /\ QuietUnlessUp
  BY <1>1 DEF CleanIsEmpty, OpIsCurrent, ReplayIsPast, QuietUnlessUp
<1> QED BY <1>4, <1>5, <1>6 DEF IInv

\* Every step preserves the invariant.
LEMMA NextIInv == IInv /\ [Next]_vars => IInv'
<1> SUFFICES ASSUME IInv, [Next]_vars PROVE IInv'
  OBVIOUS
<1>1. TypeOK'
  BY TypeInductive
<1>2. CASE UNCHANGED vars
  BY <1>1, <1>2
     DEF vars, segVars, IInv, LogIsOrdered, IndexIsNew, PastRemoved, GoneIsWhole,
         HusksAreEmpty, NoFileMissing, CleanIsEmpty, OpIsCurrent, ReplayIsPast,
         QuietUnlessUp, AckedIsKept, IsLastIndex, Covered, SegmentExists, RecordsOf,
         Positions
<1>3. CASE Next
  BY <1>1, <1>3, PutAppendStep, PutAppendFailsStep, PutIndexStep, DeleteRemoveStep, DeleteAgainStep,
     DeleteIndexStep,     CleanStep, CrashStep, RestartStep, ReplayRecordStep, ReplayNextSegmentStep,
     ReplayDoneStep DEF Next
<1> QED BY <1>2, <1>3

\* The invariant holds in every state.
LEMMA IInvAlways == Spec => []IInv
BY InitIInv, NextIInv, PTL DEF Spec

-----------------------------------------------------------------------------
(* The theorems.                                                           *)

\* Every variable has its type, whatever Put, Delete, crashes and Init do.
THEOREM TypeCorrect == Spec => []TypeOK
<1>1. IInv => TypeOK
  BY DEF IInv
<1> QED BY <1>1, IInvAlways, PTL

\* Only a key whose DelIndex failed can name a record whose segment file was
\* deleted; every other indexed key is readable (RemoveAsync, DeleteSegment).
THEOREM IndexAlwaysReadable == Spec => []IndexIsReadable
<1>1. ASSUME IInv PROVE IndexIsReadable
  <2>1. ASSUME NEW k \in Key, idx[k] # 0, k \notin kept PROVE Get(k) = idx[k]
    <3>1. log[idx[k]].key = k /\ idx[k] \in Nat /\ \A g \in gone : g < idx[k]
      BY <1>1, <2>1, Numbers DEF IInv, IndexIsNew
    <3>2. idx[k] \notin gone
      BY <3>1
    <3> QED BY <2>1, <3>1, <3>2 DEF Get
  <2> QED BY <2>1 DEF IndexIsReadable
<1> QED BY <1>1, IInvAlways, PTL

\* A Put that returned true is found by Get as long as it was not deleted,
\* through any number of crashes and interrupted replays, unless the replay's
\* own PutIndex for its key failed (AlignIndexWithSegmentStore).
THEOREM AckedPutsAreKept == Spec => []NoAckedPutLost
<1>1. ASSUME IInv PROVE NoAckedPutLost
  <2>1. ASSUME mode = "up", NEW k \in Key, acked[k] # 0, k \notin missed
        PROVE  Get(k) >= acked[k]
    <3>1. idx[k] # 0 /\ acked[k] <= idx[k] /\ k \notin kept
      BY <1>1, <2>1 DEF IInv, AckedIsKept
    <3>2. /\ log[idx[k]].key = k /\ idx[k] \in Nat /\ acked[k] \in Nat
          /\ \A g \in gone : g < idx[k]
      BY <1>1, <3>1, Numbers DEF IInv, IndexIsNew
    <3>3. idx[k] \notin gone
      BY <3>2
    <3> QED BY <3>1, <3>2, <3>3 DEF Get
  <2> QED BY <2>1 DEF NoAckedPutLost
<1> QED BY <1>1, IInvAlways, PTL

\* A removed record does not come back through a replay.
THEOREM RemovedNeverReturns == Spec => []RemovedStaysRemoved
<1>1. ASSUME IInv PROVE RemovedStaysRemoved
  BY <1>1, Numbers DEF IInv, IndexIsNew, PastRemoved, RemovedStaysRemoved
<1> QED BY <1>1, IInvAlways, PTL

=============================================================================
