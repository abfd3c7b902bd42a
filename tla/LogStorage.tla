----------------------------- MODULE LogStorage -----------------------------
(***************************************************************************)
(* DataBaseLogStorage (src/storage/log_stroage.cpp): the index in leveldb  *)
(* (index_db.cpp) over the segment log.  Put and Delete each touch both    *)
(* and may be cut short between the two; Init replays the segments to      *)
(* bring the index back in line.                                           *)
(*                                                                         *)
(* One client calls Put and Delete, one call at a time.  It obeys the note *)
(* on RemoveAsync, "assume that Remove as the sequence of append": it      *)
(* deletes the key whose record is the oldest of the indexed ones, and     *)
(* when that fails it tries again before it goes on to the next.  The      *)
(* clean event is due ten seconds after RemoveAsync, so it does not fall   *)
(* between RemoveAsync and the DelIndex of the same Delete.                *)
(*                                                                         *)
(* Every write to leveldb may fail, and then changes nothing.  Its reads   *)
(* succeed.                                                                *)
(***************************************************************************)
EXTENDS SegmentLog

VARIABLES
  mode,     \* "down", "replay" inside Init, "up", or "astray": up, with an
            \* index entry of a deleted file that Init has created anew
  idx,      \* the index: position of each key's record, 0 when absent
  op,       \* the Put or Delete in progress, between its two steps
  replay,   \* segment_id and position of AlignIndexWithSegmentStore's loop
  husks,    \* segments whose deleted file RemoveAsync has created again, empty
  \* History, kept for the properties only:
  acked,    \* position of the key's last Put that returned true, 0 after a
            \* Delete was asked for
  dead,     \* position of the key's last record that a Delete removed
  toClean,  \* segments whose clean event was scheduled and not yet run
  missed,   \* keys left behind their acked Put when the replay's PutIndex failed
  kept      \* keys whose index entry stayed because DelIndex failed, while the
            \* clean event may come or after it came

vars == <<segVars, mode, idx, op, replay, husks, acked, dead, toClean, missed, kept>>

NoOp == [type |-> "none", key |-> 0, pos |-> 0]
NoReplay == [seg |-> 0, pos |-> 0]

-----------------------------------------------------------------------------
\* Get: the value is known by its position; 0 when Get returns false.
Get(k) ==
  IF idx[k] # 0 /\ idx[k] \notin gone /\ log[idx[k]].key = k THEN idx[k] ELSE 0

\* GetLastIndex: the greatest key of the index.
IsLastIndex(m) == idx[m] # 0 /\ \A k \in Key : idx[k] # 0 => k <= m

\* The client's side of RemoveAsync's note.
Oldest(k) == \A j \in Key : idx[j] # 0 => idx[k] <= idx[j]

\* SegmentExists.
SegmentExists(s) == s \in files \cup husks

\* Put, first half: Append.
PutAppend(k) ==
  /\ mode = "up" /\ op.type = "none"
  /\ AppendRecord(k)
  /\ op' = [type |-> "put", key |-> k, pos |-> Len(log')]
  /\ UNCHANGED <<mode, idx, replay, husks, acked, dead, toClean, missed, kept>>

\* Put, when Append fails: it returns false.
PutAppendFails ==
  /\ mode = "up" /\ op.type = "none"
  /\ AppendFails
  /\ UNCHANGED <<mode, idx, op, replay, husks, acked, dead, toClean, missed, kept>>

\* Put, second half: PutIndex, which may fail, and then Put returns false.
PutIndex ==
  /\ mode = "up" /\ op.type = "put"
  /\ \/ /\ idx' = [idx EXCEPT ![op.key] = op.pos]
        /\ acked' = [acked EXCEPT ![op.key] = op.pos]
        /\ missed' = missed \ {op.key}
        /\ kept' = kept \ {op.key}
     \/ UNCHANGED <<idx, acked, missed, kept>>
  /\ op' = NoOp
  /\ UNCHANGED <<segVars, mode, replay, husks, dead, toClean>>

\* Delete, first half: GetIndex and RemoveAsync.
DeleteRemove(k) ==
  /\ mode = "up" /\ op.type = "none"
  /\ idx[k] # 0
  /\ Oldest(k)
  /\ idx[k] \notin gone
  /\ RemoveAsync(idx[k])
  /\ op' = [type |-> "delete", key |-> k, pos |-> idx[k]]
  /\ acked' = [acked EXCEPT ![k] = 0]
  /\ toClean' = IF EndsSegment(idx[k]) THEN toClean \cup {log[idx[k]].seg}
                                       ELSE toClean
  /\ UNCHANGED <<mode, idx, replay, husks, dead, missed, kept>>

\* Delete, tried again after the segment was deleted: RemoveAsync creates the
\* file again, finds nothing in it, and Delete returns false.
DeleteAgain(k) ==
  /\ mode = "up" /\ op.type = "none"
  /\ idx[k] # 0
  /\ Oldest(k)
  /\ idx[k] \in gone
  /\ husks' = husks \cup {log[idx[k]].seg}
  /\ UNCHANGED <<segVars, mode, idx, op, replay, acked, dead, toClean, missed, kept>>

\* Delete, second half: DelIndex.  When it fails Delete returns false, but the
\* clean event, if there is one, stays scheduled.
DeleteIndex ==
  /\ mode = "up" /\ op.type = "delete"
  /\ \/ /\ idx' = [idx EXCEPT ![op.key] = 0]
        /\ dead' = [dead EXCEPT ![op.key] = op.pos]
        /\ kept' = kept \ {op.key}
     \/ /\ kept' = kept \cup {op.key}
        /\ UNCHANGED <<idx, dead>>
  /\ op' = NoOp
  /\ UNCHANGED <<segVars, mode, replay, husks, acked, toClean, missed>>

\* The clean event fires.
Clean ==
  /\ mode = "up" /\ op.type # "delete"
  /\ DeleteSegment
  /\ toClean' = toClean \ {clean}
  /\ UNCHANGED <<mode, idx, op, replay, husks, acked, dead, missed, kept>>

\* The process dies, in a call, between the halves of one or inside Init.
Crash ==
  /\ mode # "down"
  /\ mode' = "down"
  /\ IF mode = "up" /\ (op.type = "none" \/ stuck)
     THEN CrashSegments
     ELSE /\ clean' = NoSegment /\ full' = (full /\ cur \in files)
          /\ UNCHANGED <<log, files, cur, stuck, gone>>
  /\ op' = NoOp
  /\ replay' = NoReplay
  /\ toClean' = {}
  /\ kept' = {k \in kept : idx[k] \in gone}
  /\ UNCHANGED <<idx, husks, acked, dead, missed>>

\* The index names a record of the current segment's file that was deleted:
\* Init creates the file anew, and what Delete, Get and the replay then read
\* at that record's offset is anything.  The model does not follow the store
\* any further.
NamesRecreated == \E k \in Key : idx[k] \in gone /\ log[idx[k]].seg = cur

\* Mutant: the replay starts at the head of the segment, not at the offset.
RestartAtSegmentHead ==
  /\ mode = "down"
  /\ InitSegments
  /\ husks' = husks \ {cur}
  /\ \/ /\ \A k \in Key : idx[k] = 0
        /\ mode' = "up"
        /\ UNCHANGED replay
     \/ \E m \in Key, p \in Positions :
          /\ IsLastIndex(m)
          /\ log[p].seg = log[idx[m]].seg
          /\ \A q \in RecordsOf(log[p].seg) : p <= q
          /\ mode' = "replay"
          /\ replay' = [seg |-> log[p].seg, pos |-> p]
  /\ UNCHANGED <<idx, op, acked, dead, toClean, missed, kept>>

\* Init up to the loop of AlignIndexWithSegmentStore.  An empty index ends it
\* at once; a greatest key in a segment past the last one makes it fail.  If
\* the greatest key's record is gone, the next one is the first to be found.
Restart ==
  /\ mode = "down"
  /\ InitSegments
  /\ husks' = husks \ {cur}
  /\ \/ /\ NamesRecreated
        /\ mode' = "astray"
        /\ UNCHANGED replay
     \/ /\ \A k \in Key : idx[k] = 0
        /\ mode' = "up"
        /\ UNCHANGED replay
     \/ \E m \in Key :
          /\ ~NamesRecreated
          /\ IsLastIndex(m)
          /\ log[idx[m]].seg <= cur
          /\ mode' = "replay"
          /\ replay' = [seg |-> log[idx[m]].seg,
                        pos |-> IF idx[m] \in gone THEN idx[m] + 1 ELSE idx[m]]
  /\ UNCHANGED <<idx, op, acked, dead, toClean, missed, kept>>

HasNext == replay.pos \in Positions /\ log[replay.pos].seg = replay.seg

\* ReplayLog returns a record: its index is written again.  Whether PutIndex
\* has failed is not looked at, and the index may be left with an older one.
ReplayRecord ==
  /\ mode = "replay"
  /\ SegmentExists(replay.seg) /\ HasNext
  /\ LET k == log[replay.pos].key IN
       \/ /\ idx' = [idx EXCEPT ![k] = replay.pos]
          /\ missed' = missed \ {k}
          /\ kept' = kept \ {k}
       \/ /\ missed' = IF idx[k] < acked[k] THEN missed \cup {k} ELSE missed
          /\ UNCHANGED <<idx, kept>>
  /\ replay' = [replay EXCEPT !.pos = @ + 1]
  /\ UNCHANGED <<segVars, mode, op, husks, acked, dead, toClean>>

\* Mutant: the segments are walked downwards.
ReplayPreviousSegment ==
  /\ mode = "replay"
  /\ SegmentExists(replay.seg) /\ ~HasNext
  /\ replay' = [replay EXCEPT !.seg = @ - 1]
  /\ UNCHANGED <<segVars, mode, idx, op, husks, acked, dead, toClean, missed, kept>>

\* ReplayLog returns 0 at the end of a segment: on to the next one.
ReplayNextSegment ==
  /\ mode = "replay"
  /\ SegmentExists(replay.seg) /\ ~HasNext
  /\ replay' = [replay EXCEPT !.seg = @ + 1]
  /\ UNCHANGED <<segVars, mode, idx, op, husks, acked, dead, toClean, missed, kept>>

\* ReplayLog returns -1 when there is no such segment: Init is done.
ReplayDone ==
  /\ mode = "replay"
  /\ ~SegmentExists(replay.seg)
  /\ mode' = "up"
  /\ replay' = NoReplay
  /\ UNCHANGED <<segVars, idx, op, husks, acked, dead, toClean, missed, kept>>

-----------------------------------------------------------------------------
\* A new store, after its first Init.
Init ==
  /\ SegInit
  /\ mode = "up"
  /\ idx = [k \in Key |-> 0]
  /\ op = NoOp
  /\ replay = NoReplay
  /\ acked = [k \in Key |-> 0]
  /\ dead = [k \in Key |-> 0]
  /\ toClean = {}
  /\ husks = {} /\ missed = {} /\ kept = {}

Next ==
  \/ \E k \in Key : PutAppend(k)
  \/ PutAppendFails
  \/ PutIndex
  \/ \E k \in Key : DeleteRemove(k)
  \/ \E k \in Key : DeleteAgain(k)
  \/ DeleteIndex
  \/ Clean
  \/ Crash
  \/ Restart
  \/ ReplayRecord
  \/ ReplayNextSegment
  \/ ReplayDone

Spec == Init /\ [][Next]_vars

\* A call that was begun goes on, and AutoDispatch, which looks at the queue
\* once a second, runs the clean event once it is due.
FairSpec == Spec /\ WF_vars(PutIndex) /\ WF_vars(DeleteIndex) /\ WF_vars(Clean)

-----------------------------------------------------------------------------
(* Properties.                                                             *)

\* Every variable has its type.
TypeOK ==
  /\ log \in Seq(Record)
  /\ files \subseteq Nat
  /\ cur \in Nat
  /\ full \in BOOLEAN /\ stuck \in BOOLEAN
  /\ clean \in Nat \cup {NoSegment}
  /\ gone \subseteq Positions
  /\ mode \in {"down", "replay", "up", "astray"}
  /\ idx \in [Key -> Nat]
  /\ op \in [type : {"put", "delete"}, key : Key, pos : Nat] \cup {NoOp}
  /\ replay \in [seg : Nat, pos : Nat]
  /\ acked \in [Key -> Nat]
  /\ dead \in [Key -> Nat]
  /\ husks \subseteq Nat /\ toClean \subseteq Nat
  /\ missed \subseteq Key /\ kept \subseteq Key

\* A Put that returned true and was not followed by a Delete of its key is
\* never lost and never overtaken by an older value, but by a replay whose
\* PutIndex failed for that very key: whenever the store runs, Get finds the
\* value of that Put or of a later one.  This holds through crashes between
\* Append and PutIndex, inside a rollover and inside the replay itself, with
\* any order of keys, and while segments are deleted (Put, Get,
\* AlignIndexWithSegmentStore, RemoveAsync).
NoAckedPutLost ==
  mode = "up" => \A k \in Key : acked[k] # 0 /\ k \notin missed => Get(k) >= acked[k]

\* A record whose Delete returned true does not come back after a restart:
\* what the index names is newer than anything removed under that key
\* (Delete, AlignIndexWithSegmentStore).
RemovedStaysRemoved ==
  mode = "up" => \A k \in Key : idx[k] # 0 => idx[k] > dead[k]

\* Only a key whose Delete failed in DelIndex can be left with an index entry
\* of a deleted segment file: for all others a Get of an indexed key does not
\* fail (Delete; DeleteSegment, ten seconds after RemoveAsync).
IndexIsReadable ==
  mode \in {"replay", "up"} =>
    \A k \in Key : idx[k] # 0 /\ k \notin kept => Get(k) = idx[k]

-----------------------------------------------------------------------------
(* What a comment of the code says of it and the code does not do.         *)

=============================================================================
