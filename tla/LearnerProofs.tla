--------------------------- MODULE LearnerProofs ----------------------------
(***************************************************************************)
(* The invariants of module Learner, for every set of nodes, every number  *)
(* of instances and every window.                                          *)
(***************************************************************************)
EXTENDS Learner, TLAPS

\* What is learned but not yet executed belongs to this instance, and its
\* record has been written unless the write failed.
LearnedHere ==
  learner.learned =>
    /\ instance \in Instance
    /\ learner.value \in ValueOf(instance)
    /\ instance \notin unsaved => stored[instance] = learner.value

\* m, if it carries a value, carries the one that was executed.
CarriesWhatRan(m) ==
  m.type \in {"LEARNER_VALUE_SEND", "LEARNER_VALUE_SYNC"} =>
    /\ m.instance < Len(executed)
    /\ m.instance \notin unsaved => m.value = executed[m.instance + 1]

\* Between two rounds of the main loop nothing is learned and not executed.
RoundInv == main # "handled" => ~learner.learned /\ mainOut = NoOut

\* Where the sending thread is tells how far it has come.
ThreadInv ==
  /\ sender = "match" => toSend = begin
  /\ sender = "read" => toSend < instance
  /\ sender \in {"loop", "read"} /\ toSend > begin =>
       toSend - 1 <= ack + LEAD_FOLLOW_DIS

DataInv == ExecutedInOrder /\ RecordIsWhatRan /\ LearnedHere
OutInv == CarriesWhatRan(mainOut) /\ CarriesWhatRan(syncOut)
JobInv == JobIsTheThreads /\ WindowHeld /\ ThreadInv

IInv == TypeOK /\ DataInv /\ OutInv /\ RoundInv /\ JobInv

-----------------------------------------------------------------------------
(* The values.                                                             *)

LEMMA ConstantFacts ==
  /\ Empty \in Value /\ NoNumber \in Number
  /\ \A i \in Instance : i \in Number /\ i + 1 \in Number /\ ValueOf(i) \subseteq Value
  /\ NoOut \in OutMessage
  /\ \A i \in Number, v \in Value :
       /\ Out("VALUE_CHOSEN_BROADCAST", i, v) \in OutMessage
       /\ Out("SYNC_VALUE_ACK", i, v) \in OutMessage
       /\ Out("LEARNER_VALUE_SEND", i, v) \in OutMessage
       /\ Out("LEARNER_VALUE_SYNC", i, v) \in OutMessage
       /\ Out("TELL_INSTANCE_ID", i, v) \in OutMessage
  BY BoundAssumption
  DEF Empty, Value, Instance, Number, NoNumber, ValueOf, NoOut, Out, OutMessage

LEMMA PublishFacts ==
  ASSUME NEW m \in Publish
  PROVE  /\ m.instance \in Instance /\ m.value \in ValueOf(m.instance)
         /\ m.value \in Value
  BY ConstantFacts DEF Publish

LEMMA LargerFacts ==
  ASSUME NEW i \in Number, NEW j \in Number
  PROVE  Larger(i, j) \in Number /\ Larger(i, j) >= i /\ Larger(i, j) >= j
  BY BoundAssumption DEF Larger, Number

\* Only the record that is written changes, and it is right unless the
\* write failed.
LEMMA WriteStateFacts ==
  ASSUME TypeOK, NEW i \in Instance, NEW v \in Value, WriteState(i, v)
  PROVE  /\ stored' \in [Instance -> Value]
         /\ unsaved' \subseteq Instance
         /\ \A j \in Instance : j # i =>
              stored'[j] = stored[j] /\ (j \in unsaved' <=> j \in unsaved)
         /\ i \notin unsaved' => stored'[i] = v
  BY DEF TypeOK, WriteState

-----------------------------------------------------------------------------
(* One lemma for each way a handler changes the data.                      *)

\* Nothing is learned.
LEMMA DataUnchanged ==
  ASSUME DataInv, UNCHANGED <<instance, executed, learner, stored, unsaved>>
  PROVE  DataInv'
  BY DEF DataInv, ExecutedInOrder, RecordIsWhatRan, LearnedHere

\* The record of the current instance is written.
LEMMA CurrentWritten ==
  ASSUME TypeOK, DataInv, NEW v \in Value, instance \in Instance,
         WriteState(instance, v), UNCHANGED <<instance, executed>>
  PROVE  /\ ExecutedInOrder' /\ RecordIsWhatRan'
         /\ stored' \in [Instance -> Value] /\ unsaved' \subseteq Instance
         /\ instance' \notin unsaved' => stored'[instance'] = v
  <1>1. \A j \in Instance : j # instance =>
          stored'[j] = stored[j] /\ (j \in unsaved' <=> j \in unsaved)
    BY WriteStateFacts
  <1>2. ExecutedInOrder'
    BY DEF DataInv, ExecutedInOrder
  <1>3. RecordIsWhatRan'
    <2>1. \A k \in 1..Len(executed) : k - 1 \in Instance /\ k - 1 # instance
      BY BoundAssumption DEF DataInv, ExecutedInOrder, TypeOK, Instance, Number
    <2>2. QED
      BY <1>1, <2>1 DEF DataInv, RecordIsWhatRan
  <1>4. QED
    BY <1>2, <1>3, WriteStateFacts

\* A message that carries a finished instance's value is not concerned.
LEMMA CarriedKept ==
  ASSUME TypeOK, DataInv, NEW m \in OutMessage, CarriesWhatRan(m),
         NEW v \in Value, instance \in Instance,
         WriteState(instance, v), UNCHANGED <<instance, executed>>
  PROVE  m.type \in {"LEARNER_VALUE_SEND", "LEARNER_VALUE_SYNC"} =>
           /\ m.instance < Len(executed')
           /\ m.instance \notin unsaved' => m.value = executed'[m.instance + 1]
  <1>1. \A j \in Instance : j # instance => (j \in unsaved' <=> j \in unsaved)
    BY WriteStateFacts
  <1>2. m.type \in {"LEARNER_VALUE_SEND", "LEARNER_VALUE_SYNC"} =>
          m.instance \in Instance /\ m.instance # instance
    BY BoundAssumption
    DEF CarriesWhatRan, DataInv, ExecutedInOrder, OutMessage, Number, Instance, TypeOK
  <1>3. QED
    BY <1>1, <1>2 DEF CarriesWhatRan

\* Learning, or not, from a message.
LEMMA Learning ==
  ASSUME TypeOK, DataInv, ~learner.learned, NEW m \in Publish,
         LearnFromOthers(m, learner) \/ HandleOthersPublish(m, learner),
         UNCHANGED <<instance, executed>>
  PROVE  /\ DataInv'
         /\ learner' \in [learned : BOOLEAN, value : Value]
         /\ stored' \in [Instance -> Value] /\ unsaved' \subseteq Instance
         /\ \A o \in OutMessage : CarriesWhatRan(o) =>
              (o.type \in {"LEARNER_VALUE_SEND", "LEARNER_VALUE_SYNC"} =>
                 /\ o.instance < Len(executed')
                 /\ o.instance \notin unsaved' => o.value = executed'[o.instance + 1])
  <1>1. CASE UNCHANGED <<learner, stored, unsaved>>
    BY <1>1, DataUnchanged DEF TypeOK, CarriesWhatRan
  <1>2. CASE m.instance = instance /\ LearnNew(m)
    <2>1. /\ instance \in Instance /\ m.value \in Value /\ m.value \in ValueOf(instance)
          /\ WriteState(instance, m.value)
          /\ learner' = [learned |-> TRUE, value |-> m.value]
      BY <1>2, PublishFacts DEF LearnNew
    <2>2. DataInv'
      BY <2>1, CurrentWritten DEF DataInv, LearnedHere
    <2>3. stored' \in [Instance -> Value] /\ unsaved' \subseteq Instance
      BY <2>1, CurrentWritten
    <2>4. QED
      BY <2>1, <2>2, <2>3, CarriedKept
  <1>3. QED
    BY <1>1, <1>2 DEF LearnFromOthers, HandleOthersPublish

\* The main loop's other handlers leave the job alone.
LEMMA JobUnchanged ==
  ASSUME TypeOK, TypeOK', JobInv, UNCHANGED <<jobVars, senderVars>>, instance' >= instance
  PROVE  JobInv'
  BY BoundAssumption
  DEF TypeOK, Number, JobInv, JobIsTheThreads, WindowHeld, ThreadInv, jobVars, senderVars

\* The sending thread leaves the main loop's state alone.
LEMMA MainUnchanged ==
  ASSUME DataInv, RoundInv, CarriesWhatRan(mainOut), UNCHANGED <<main, mainOut, mainVars>>
  PROVE  DataInv' /\ RoundInv' /\ CarriesWhatRan(mainOut)'
  BY DataUnchanged DEF RoundInv, CarriesWhatRan, mainVars

-----------------------------------------------------------------------------
(* The handlers.                                                           *)

LEMMA SenderPublishStep ==
  ASSUME IInv, NEW m \in ValueChosen, HandleSenderPublish(m)
  PROVE  IInv'
  <1>1. ~MyProposal(m)
    BY NodeAssumption DEF MyProposal, ValueChosen, NoNode
  <1>2. UNCHANGED <<instance, learner, stored, unsaved, highest, accepted, executed,
                    jobVars, senderVars>>
    BY <1>1 DEF HandleSenderPublish, HandleOthersPublish, LearnFromSelf
  <1>3. main' = "handled" /\ mainOut' = Out("VALUE_CHOSEN_BROADCAST", instance, Empty)
    BY DEF HandleSenderPublish, Handle
  <1>4. TypeOK'
    BY <1>2, <1>3, ConstantFacts DEF IInv, TypeOK, jobVars, senderVars
  <1>5. DataInv'
    BY <1>2, DataUnchanged DEF IInv
  <1>6. OutInv'
    BY <1>2, <1>3 DEF IInv, OutInv, CarriesWhatRan, Out, senderVars
  <1>7. RoundInv'
    BY <1>2, <1>3 DEF IInv, RoundInv
  <1>8. JobInv'
    BY <1>2, <1>4, JobUnchanged DEF IInv, TypeOK, Number
  <1>9. QED
    BY <1>4, <1>5, <1>6, <1>7, <1>8 DEF IInv

LEMMA PublishStep ==
  ASSUME IInv, NEW m \in Publish, HandlePublish(m) \/ HandleSyncValue(m)
  PROVE  IInv'
  <1>1. /\ ~learner.learned /\ mainOut = NoOut
        /\ main' = "handled"
        /\ UNCHANGED <<instance, highest, accepted, executed, jobVars, senderVars>>
        /\ mainOut' \in {mainOut, Out("SYNC_VALUE_ACK", instance, Empty)}
        /\ LearnFromOthers(m, learner) \/ HandleOthersPublish(m, learner)
    BY DEF IInv, RoundInv, HandlePublish, HandleSyncValue, Handle
  <1>2. /\ DataInv'
        /\ learner' \in [learned : BOOLEAN, value : Value]
        /\ stored' \in [Instance -> Value] /\ unsaved' \subseteq Instance
        /\ CarriesWhatRan(syncOut)'
    BY <1>1, Learning DEF IInv, OutInv, TypeOK, senderVars, CarriesWhatRan
  <1>3. TypeOK'
    BY <1>1, <1>2, ConstantFacts DEF IInv, TypeOK, jobVars, senderVars
  <1>4. CarriesWhatRan(mainOut)'
    BY <1>1 DEF CarriesWhatRan, NoOut, Out
  <1>5. RoundInv'
    BY <1>1 DEF IInv, RoundInv
  <1>6. JobInv'
    BY <1>1, <1>3, JobUnchanged DEF IInv, TypeOK, Number
  <1>7. QED
    BY <1>2, <1>3, <1>4, <1>5, <1>6 DEF IInv, OutInv

LEMMA AcceptStep ==
  ASSUME IInv, NEW n \in Node, NEW v \in Acceptable, AcceptValue(n, v)
  PROVE  IInv'
  <1>1. /\ instance \in Instance /\ v \in Value
        /\ WriteState(instance, v)
        /\ main' = "handled"
        /\ accepted' = [id |-> n, node |-> n, value |-> v]
        /\ UNCHANGED <<mainOut, instance, learner, highest, executed,
                       jobVars, senderVars>>
    BY BoundAssumption DEF IInv, TypeOK, AcceptValue, Acceptable, Handle, Instance, Number, Value
  <1>2. ~learner.learned
    BY DEF IInv, RoundInv, AcceptValue, Handle
  <1>3. /\ DataInv'
        /\ stored' \in [Instance -> Value] /\ unsaved' \subseteq Instance
    BY <1>1, <1>2, CurrentWritten DEF IInv, DataInv, LearnedHere
  <1>4. TypeOK'
    BY <1>1, <1>3 DEF IInv, TypeOK, jobVars, senderVars
  <1>5. OutInv'
    <2>1. CarriesWhatRan(mainOut)'
      BY <1>1, CarriedKept DEF IInv, OutInv, TypeOK, CarriesWhatRan
    <2>2. CarriesWhatRan(syncOut)'
      BY <1>1, CarriedKept DEF IInv, OutInv, TypeOK, CarriesWhatRan, senderVars
    <2>3. QED
      BY <2>1, <2>2 DEF OutInv
  <1>6. RoundInv'
    BY <1>1 DEF IInv, RoundInv
  <1>7. JobInv'
    BY <1>1, <1>4, JobUnchanged DEF IInv, TypeOK, Number
  <1>8. QED
    BY <1>3, <1>4, <1>5, <1>6, <1>7 DEF IInv

LEMMA ShallILearnStep ==
  ASSUME IInv, NEW i \in Told, HandleShallILearn(i)
  PROVE  IInv'
  <1>1. /\ main' = "handled"
        /\ SetPossibleHigherInstanceId(i)
        /\ i \in Number
        /\ UNCHANGED <<instance, learner, accepted, stored, executed, unsaved,
                       jobVars, senderVars>>
    BY BoundAssumption DEF HandleShallILearn, Handle, Number
  <1>2. highest' \in Number
    BY <1>1, LargerFacts DEF IInv, TypeOK, RoundInv, SetPossibleHigherInstanceId
  <1>3. mainOut' \in OutMessage /\ CarriesWhatRan(mainOut)'
    <2>1. CASE i + 1 = instance
      <3>1. mainOut' = Out("LEARNER_VALUE_SEND", i, stored[i]) /\ i \in Instance
        BY <2>1, <1>1, BoundAssumption
        DEF HandleShallILearn, ReadState, IInv, TypeOK, Instance, Number
      <3>2. i < Len(executed) /\ (i \notin unsaved => stored[i] = executed[i + 1])
        BY <2>1, <3>1, BoundAssumption
        DEF IInv, TypeOK, DataInv, ExecutedInOrder, RecordIsWhatRan, Instance, Number
      <3>3. mainOut' \in OutMessage
        BY <3>1, <1>1, ConstantFacts DEF IInv, TypeOK
      <3>4. QED
        BY <3>1, <3>2, <3>3, <1>1 DEF CarriesWhatRan, Out
    <2>2. CASE i + 1 # instance
      <3>1. mainOut' = Out("TELL_INSTANCE_ID", instance, Empty)
        BY <2>2 DEF HandleShallILearn
      <3>2. QED
        BY <3>1, ConstantFacts DEF CarriesWhatRan, Out, IInv, TypeOK
    <2>3. QED
      BY <2>1, <2>2
  <1>4. TypeOK'
    BY <1>1, <1>2, <1>3 DEF IInv, TypeOK, jobVars, senderVars
  <1>5. DataInv'
    BY <1>1, DataUnchanged DEF IInv
  <1>6. CarriesWhatRan(syncOut)'
    BY <1>1 DEF IInv, OutInv, CarriesWhatRan, senderVars
  <1>7. RoundInv'
    BY <1>1, <1>2 DEF IInv, RoundInv
  <1>8. JobInv'
    BY <1>1, <1>4, JobUnchanged DEF IInv, TypeOK, Number
  <1>9. QED
    BY <1>3, <1>4, <1>5, <1>6, <1>7, <1>8 DEF IInv, OutInv

LEMMA TellInstanceStep ==
  ASSUME IInv, NEW i \in Told, NEW lead \in Told, HandleTellNewInstanceId(i, lead)
  PROVE  IInv'
  <1>1. /\ main = "idle" /\ main' \in {"confirming", "handled"}
        /\ SetPossibleHigherInstanceId(lead)
        /\ lead \in Number
        /\ UNCHANGED <<mainOut, instance, learner, accepted, stored, executed, unsaved,
                       jobVars, senderVars>>
    BY BoundAssumption DEF HandleTellNewInstanceId, Number
  <1>2. highest' \in Number
    BY <1>1, LargerFacts DEF IInv, TypeOK, RoundInv, SetPossibleHigherInstanceId
  <1>3. TypeOK'
    BY <1>1, <1>2 DEF IInv, TypeOK, jobVars, senderVars
  <1>4. DataInv'
    BY <1>1, DataUnchanged DEF IInv
  <1>5. OutInv'
    BY <1>1 DEF IInv, OutInv, CarriesWhatRan, senderVars
  <1>6. RoundInv'
    BY <1>1, <1>2 DEF IInv, RoundInv
  <1>7. JobInv'
    BY <1>1, <1>3, JobUnchanged DEF IInv, TypeOK, Number
  <1>8. QED
    BY <1>3, <1>4, <1>5, <1>6, <1>7 DEF IInv

\* What was within the window of an acknowledgement is within that of a
\* higher one.
LEMMA AckGrows ==
  ASSUME NEW a \in Int, NEW b \in Int, a <= b, NEW dis \in Int, NEW t \in Int
  PROVE  /\ t - 1 <= a + dis => t - 1 <= b + dis
         /\ t - 1 <= a + dis + 1 => t - 1 <= b + dis + 1
  OBVIOUS

LEMMA JobMessageStep ==
  ASSUME IInv, NEW n \in Node, NEW i \in Told, MakeSenderReady(n, i) \/ HandleValueAck(n, i)
  PROVE  IInv'
  <1>1. /\ main' = "handled" /\ i \in Number
        /\ UNCHANGED <<mainOut, mainVars, senderVars>>
    BY BoundAssumption DEF MakeSenderReady, HandleValueAck, Handle, Number
  <1>2. CASE MakeSenderReady(n, i)
    <2>1. TypeOK'
      BY <1>1, <1>2 DEF IInv, TypeOK, MakeSenderReady, mainVars, senderVars, jobVars
    <2>2. JobInv'
      BY <1>1, <1>2 DEF IInv, TypeOK, MakeSenderReady, JobInv, JobIsTheThreads,
                        WindowHeld, ThreadInv, mainVars, senderVars, jobVars
    <2>3. QED
      BY <1>1, <2>1, <2>2, DataUnchanged
      DEF IInv, OutInv, RoundInv, CarriesWhatRan, mainVars, senderVars
  <1>3. CASE HandleValueAck(n, i)
    <2>1. /\ UNCHANGED <<job, receiver, begin>>
          /\ ack' \in Number /\ ack' >= ack
          /\ job # "sending" => ack' = ack
      BY <1>1, <1>3, LargerFacts DEF IInv, TypeOK, HandleValueAck, Number
    <2>2. TypeOK'
      BY <1>1, <2>1 DEF IInv, TypeOK, mainVars, senderVars
    <2>3. JobInv'
      <3>1. JobIsTheThreads'
        BY <1>1, <2>1 DEF IInv, JobInv, JobIsTheThreads, senderVars
      <3>2. /\ toSend \in Int /\ ack \in Int /\ ack' \in Int
            /\ LEAD_FOLLOW_DIS \in Int /\ ack <= ack'
        BY <2>1, BoundAssumption DEF IInv, TypeOK, Number
      <3>3. /\ toSend - 1 <= ack + LEAD_FOLLOW_DIS => toSend - 1 <= ack' + LEAD_FOLLOW_DIS
            /\ toSend - 1 <= ack + LEAD_FOLLOW_DIS + 1 =>
                 toSend - 1 <= ack' + LEAD_FOLLOW_DIS + 1
        BY <3>2, AckGrows
      <3>4. WindowHeld'
        BY <1>1, <2>1, <3>2, <3>3 DEF IInv, JobInv, WindowHeld, senderVars
      <3>5. ThreadInv'
        BY <1>1, <2>1, <3>2, <3>3 DEF IInv, JobInv, ThreadInv, senderVars, mainVars
      <3>6. QED
        BY <3>1, <3>4, <3>5 DEF JobInv
    <2>4. QED
      BY <1>1, <2>2, <2>3, DataUnchanged
      DEF IInv, OutInv, RoundInv, CarriesWhatRan, mainVars, senderVars
  <1>4. QED
    BY <1>2, <1>3

LEMMA FinishStep ==
  ASSUME IInv, Finish
  PROVE  IInv'
  <1>1. /\ main' = "idle" /\ mainOut' = NoOut
        /\ UNCHANGED <<highest, stored, unsaved, jobVars, senderVars>>
    BY DEF Finish
  <1>2. CASE ~learner.learned
    <2>1. UNCHANGED <<executed, instance, accepted, learner>>
      BY <1>2 DEF Finish
    <2>2. TypeOK'
      BY <1>1, <2>1, ConstantFacts DEF IInv, TypeOK, jobVars, senderVars
    <2>3. DataInv'
      BY <1>1, <2>1, DataUnchanged DEF IInv
    <2>4. OutInv' /\ RoundInv'
      BY <1>1, <1>2, <2>1 DEF IInv, OutInv, RoundInv, CarriesWhatRan, NoOut, Out, senderVars
    <2>5. JobInv'
      BY <1>1, <2>1, <2>2, JobUnchanged DEF IInv, TypeOK, Number
    <2>6. QED
      BY <2>2, <2>3, <2>4, <2>5 DEF IInv
  <1>3. CASE learner.learned
    <2>1. /\ instance < MaxInstance
          /\ executed' = Append(executed, learner.value)
          /\ instance' = instance + 1
          /\ accepted' = NotAccepted
          /\ learner' = NotLearned
      BY <1>3 DEF Finish, NewInstance
    <2>2. /\ Len(executed') = Len(executed) + 1
          /\ \A k \in 1..Len(executed) : executed'[k] = executed[k]
          /\ executed'[Len(executed) + 1] = learner.value
          /\ executed' \in Seq(Value)
      BY <2>1 DEF IInv, TypeOK
    <2>3. TypeOK'
      <3>1. instance' \in Number
        BY <2>1, BoundAssumption DEF IInv, TypeOK, Number
      <3>2. QED
        BY <1>1, <2>1, <2>2, <3>1, ConstantFacts
        DEF IInv, TypeOK, jobVars, senderVars, NotAccepted, NotLearned, NoNode, NoNumber
    <2>4. Len(executed) = instance /\ instance \in Nat
      BY BoundAssumption DEF IInv, DataInv, ExecutedInOrder, TypeOK, Number
    <2>5. DataInv'
      <3>1. ExecutedInOrder'
        <4>1. \A k \in 1..Len(executed') : executed'[k] \in ValueOf(k - 1)
          BY <2>1, <2>2, <2>4, <1>3
          DEF IInv, DataInv, ExecutedInOrder, LearnedHere, ValueOf
        <4>2. QED
          BY <2>1, <2>2, <2>4, <4>1 DEF ExecutedInOrder
      <3>2. RecordIsWhatRan'
        BY <1>1, <2>2, <2>4, <1>3 DEF IInv, DataInv, RecordIsWhatRan, LearnedHere
      <3>3. LearnedHere'
        BY <2>1 DEF LearnedHere, NotLearned
      <3>4. QED
        BY <3>1, <3>2, <3>3 DEF DataInv
    <2>6. OutInv' /\ RoundInv'
      <3>1. CarriesWhatRan(syncOut)'
        BY <1>1, <2>2, <2>4, BoundAssumption
        DEF IInv, OutInv, CarriesWhatRan, TypeOK, OutMessage, Number, senderVars
      <3>2. CarriesWhatRan(mainOut)'
        BY <1>1 DEF CarriesWhatRan, NoOut, Out
      <3>3. RoundInv'
        BY <1>1, <2>1 DEF IInv, RoundInv, NotLearned
      <3>4. QED
        BY <3>1, <3>2, <3>3 DEF OutInv
    <2>7. JobInv'
      BY <1>1, <2>1, <2>3, JobUnchanged DEF IInv, TypeOK, Number
    <2>8. QED
      BY <2>3, <2>5, <2>6, <2>7 DEF IInv
  <1>4. QED
    BY <1>2, <1>3

-----------------------------------------------------------------------------
(* The sending thread.                                                     *)

\* A step that leaves the main loop's state alone and sends nothing.
LEMMA SilentStep ==
  ASSUME IInv, UNCHANGED <<main, mainOut, mainVars>>, syncOut' \in {syncOut, NoOut},
         TypeOK', JobInv'
  PROVE  IInv'
  <1>1. DataInv' /\ RoundInv' /\ CarriesWhatRan(mainOut)'
    BY MainUnchanged DEF IInv, OutInv
  <1>2. CarriesWhatRan(syncOut)'
    BY DEF IInv, OutInv, CarriesWhatRan, NoOut, Out, mainVars
  <1>3. QED
    BY <1>1, <1>2 DEF IInv, OutInv

LEMMA WaitForReadyStep ==
  ASSUME IInv, WaitForReady
  PROVE  IInv'
  <1>1. TypeOK'
    BY DEF IInv, TypeOK, WaitForReady, mainVars
  <1>2. JobInv'
    BY DEF IInv, WaitForReady, JobInv, JobIsTheThreads, WindowHeld, ThreadInv
  <1>3. QED
    BY <1>1, <1>2, SilentStep DEF WaitForReady

LEMMA SendLearnedValuesStep ==
  ASSUME IInv, SendLearnedValues
  PROVE  IInv'
  <1>1. TypeOK'
    BY DEF IInv, TypeOK, SendLearnedValues, jobVars, mainVars
  <1>2. JobInv'
    <2>1. begin \in Nat
      BY BoundAssumption DEF IInv, TypeOK, Number
    <2>2. JobIsTheThreads'
      BY <2>1 DEF IInv, SendLearnedValues, JobInv, JobIsTheThreads, jobVars
    <2>3. WindowHeld' /\ ThreadInv'
      BY <2>1 DEF IInv, SendLearnedValues, WindowHeld, ThreadInv, jobVars
    <2>4. QED
      BY <2>2, <2>3 DEF JobInv
  <1>3. QED
    BY <1>1, <1>2, SilentStep DEF SendLearnedValues

LEMMA MatchReceiverStep ==
  ASSUME IInv, MatchReceiver
  PROVE  IInv'
  <1>1. TypeOK'
    BY DEF IInv, TypeOK, MatchReceiver, jobVars, mainVars
  <1>2. JobInv'
    <2>1. begin \in Nat /\ toSend = begin
      BY BoundAssumption DEF IInv, TypeOK, Number, JobInv, ThreadInv, MatchReceiver
    <2>2. JobIsTheThreads'
      BY DEF IInv, MatchReceiver, JobInv, JobIsTheThreads, jobVars
    <2>3. WindowHeld' /\ ThreadInv'
      BY <2>1 DEF MatchReceiver, WindowHeld, ThreadInv, jobVars
    <2>4. QED
      BY <2>2, <2>3 DEF JobInv
  <1>3. QED
    BY <1>1, <1>2, SilentStep DEF MatchReceiver

LEMMA MoreToSendStep ==
  ASSUME IInv, MoreToSend
  PROVE  IInv'
  <1>1. TypeOK'
    BY DEF IInv, TypeOK, MoreToSend, jobVars, mainVars
  <1>2. JobInv'
    <2>1. JobIsTheThreads'
      BY DEF IInv, MoreToSend, JobInv, JobIsTheThreads, jobVars
    <2>2. WindowHeld'
      BY DEF IInv, MoreToSend, JobInv, WindowHeld, jobVars
    <2>3. ThreadInv'
      BY DEF IInv, MoreToSend, JobInv, ThreadInv, jobVars, mainVars
    <2>4. QED
      BY <2>1, <2>2, <2>3 DEF JobInv
  <1>3. QED
    BY <1>1, <1>2, SilentStep DEF MoreToSend

LEMMA SendLearnedValueStep ==
  ASSUME IInv, SendLearnedValue
  PROVE  IInv'
  <1>1. /\ sender = "read" /\ sender' = "window"
        /\ toSend' = toSend + 1
        /\ syncOut' = Out("LEARNER_VALUE_SYNC", toSend, stored[toSend])
        /\ UNCHANGED <<to, late, jobVars, main, mainOut, mainVars>>
    BY DEF SendLearnedValue, ReadState
  <1>2. /\ toSend < instance /\ toSend \in Instance /\ toSend \in Nat
        /\ begin \in Nat /\ ack \in Nat /\ begin <= toSend
        /\ toSend > begin => toSend - 1 <= ack + LEAD_FOLLOW_DIS
    BY <1>1, BoundAssumption
    DEF IInv, JobInv, ThreadInv, JobIsTheThreads, TypeOK, Instance, Number
  <1>3. DataInv' /\ RoundInv' /\ CarriesWhatRan(mainOut)'
    BY <1>1, MainUnchanged DEF IInv, OutInv
  <1>4. TypeOK'
    <2>1. syncOut' \in OutMessage /\ toSend' \in Number
      BY <1>1, <1>2, ConstantFacts DEF IInv, TypeOK
    <2>2. QED
      BY <1>1, <2>1 DEF IInv, TypeOK, jobVars, mainVars
  <1>5. CarriesWhatRan(syncOut)'
    <2>1. toSend < Len(executed) /\ (toSend \notin unsaved => stored[toSend] = executed[toSend + 1])
      BY <1>2 DEF IInv, DataInv, ExecutedInOrder, RecordIsWhatRan
    <2>2. QED
      BY <1>1, <2>1 DEF CarriesWhatRan, Out, mainVars
  <1>6. JobInv'
    <2>1. JobIsTheThreads'
      BY <1>1, <1>2 DEF IInv, JobInv, JobIsTheThreads, jobVars
    <2>2. WindowHeld'
      BY <1>1, <1>2, BoundAssumption DEF WindowHeld, jobVars
    <2>3. ThreadInv'
      BY <1>1 DEF ThreadInv
    <2>4. QED
      BY <2>1, <2>2, <2>3 DEF JobInv
  <1>7. QED
    BY <1>3, <1>4, <1>5, <1>6 DEF IInv, OutInv

\* The window lets the next value be sent only when the last one is near
\* enough to the acknowledgements.
LEMMA WindowStep ==
  ASSUME IInv, Window
  PROVE  IInv'
  <1>1. TypeOK'
    BY ConstantFacts DEF IInv, TypeOK, Window, jobVars, mainVars
  <1>2. JobInv'
    <2>1. JobIsTheThreads'
      BY DEF IInv, Window, JobInv, JobIsTheThreads, jobVars
    <2>2. WindowHeld'
      BY DEF IInv, Window, JobInv, WindowHeld, jobVars
    <2>3. ThreadInv'
      BY BoundAssumption
      DEF IInv, TypeOK, Number, Window, TooFarAhead, ThreadInv, jobVars
    <2>4. QED
      BY <2>1, <2>2, <2>3 DEF JobInv
  <1>3. QED
    BY <1>1, <1>2, SilentStep DEF Window

LEMMA ElapseStep ==
  ASSUME IInv, Elapse
  PROVE  IInv'
  <1>1. TypeOK'
    BY DEF IInv, TypeOK, Elapse, jobVars, mainVars
  <1>2. JobInv'
    BY DEF IInv, Elapse, JobInv, JobIsTheThreads, WindowHeld, ThreadInv, jobVars, mainVars
  <1>3. QED
    BY <1>1, <1>2, SilentStep DEF Elapse

LEMMA ClearStep ==
  ASSUME IInv, ClearSendingState
  PROVE  IInv'
  <1>1. TypeOK'
    BY ConstantFacts DEF IInv, TypeOK, ClearSendingState, NoNode, mainVars
  <1>2. JobInv'
    BY DEF ClearSendingState, JobInv, JobIsTheThreads, WindowHeld, ThreadInv
  <1>3. QED
    BY <1>1, <1>2, SilentStep DEF ClearSendingState

-----------------------------------------------------------------------------
LEMMA InitEstablishes ==
  ASSUME Init
  PROVE  IInv
  <1>1. TypeOK
    <2>1. 0 \in Number /\ Empty \in Value /\ NoOut \in OutMessage
      BY ConstantFacts DEF NoNumber
    <2>2. /\ learner \in [learned : BOOLEAN, value : Value]
          /\ accepted \in [id : Node \cup {NoNumber}, node : Node \cup {NoNode}, value : Value]
          /\ stored \in [Instance -> Value]
          /\ executed \in Seq(Value)
      BY <2>1 DEF Init, NotLearned, NotAccepted
    <2>3. QED
      BY <2>1, <2>2 DEF Init, TypeOK, NoNode, NoNumber
  <1>2. DataInv
    BY DEF Init, DataInv, ExecutedInOrder, RecordIsWhatRan, LearnedHere, NotLearned
  <1>3. OutInv /\ RoundInv
    BY DEF Init, OutInv, CarriesWhatRan, NoOut, Out, RoundInv, NoNumber, NotLearned
  <1>4. JobInv
    BY DEF Init, JobInv, JobIsTheThreads, WindowHeld, ThreadInv
  <1>5. QED
    BY <1>1, <1>2, <1>3, <1>4 DEF IInv

LEMMA NextPreserves ==
  ASSUME IInv, [Next]_vars
  PROVE  IInv'
  <1>1. CASE MainNext
    BY <1>1, SenderPublishStep, PublishStep, AcceptStep, ShallILearnStep, TellInstanceStep,
       JobMessageStep, FinishStep DEF MainNext
  <1>2. CASE SenderNext \/ Elapse
    BY <1>2, WaitForReadyStep, SendLearnedValuesStep, MatchReceiverStep, MoreToSendStep,
       SendLearnedValueStep, WindowStep, ElapseStep, ClearStep DEF SenderNext
  <1>3. CASE UNCHANGED vars
    <2>1. TypeOK'
      BY <1>3 DEF IInv, TypeOK, vars, mainVars, jobVars, senderVars
    <2>2. JobInv'
      BY <1>3, <2>1, JobUnchanged DEF IInv, vars, mainVars, TypeOK, Number
    <2>3. QED
      BY <1>3, <2>1, <2>2, SilentStep DEF vars, senderVars
  <1>4. QED
    BY <1>1, <1>2, <1>3 DEF Next

\* The inductive invariant holds (Init, Next).
THEOREM Invariance == Spec => []IInv
  BY InitEstablishes, NextPreserves, PTL DEF Spec

\* Every variable has its type, in every reachable state (Init, Next).
THEOREM TypeCorrect == Spec => []TypeOK
  <1>1. IInv => TypeOK
    BY DEF IInv
  <1>2. QED
    BY <1>1, Invariance, PTL

\* One value per instance is executed, in order, whatever comes late, twice
\* or out of order (LearnFromOthers, NewInstance).
THEOREM ExecutedAlwaysInOrder == Spec => []ExecutedInOrder
  <1>1. IInv => ExecutedInOrder
    BY DEF IInv, DataInv
  <1>2. QED
    BY <1>1, Invariance, PTL

\* The records of finished instances stay what was executed, failed writes
\* apart (LearnNew, AcceptValue).
THEOREM RecordAlwaysWhatRan == Spec => []RecordIsWhatRan
  <1>1. IInv => RecordIsWhatRan
    BY DEF IInv, DataInv
  <1>2. QED
    BY <1>1, Invariance, PTL

\* The sending thread and the replies send what was executed, without a lock
\* on the instance number and the records (SendLearnedValue).
THEOREM AlwaysSendsWhatRan == Spec => []SendsWhatRan
  <1>1. IInv => SendsWhatRan
    BY DEF IInv, OutInv, CarriesWhatRan, SendsWhatRan
  <1>2. QED
    BY <1>1, Invariance, PTL

\* The job under way is not changed under the sending thread
\* (MakeSenderReady, ClearSendingState).
THEOREM JobAlwaysTheThreads == Spec => []JobIsTheThreads
  <1>1. IInv => JobIsTheThreads
    BY DEF IInv, JobInv
  <1>2. QED
    BY <1>1, Invariance, PTL

\* The sending keeps its distance to the acknowledgements, for every
\* LEAD_FOLLOW_DIS (SendLearnedValues, HandleValueAck).
THEOREM WindowAlwaysHeld == Spec => []WindowHeld
  <1>1. IInv => WindowHeld
    BY DEF IInv, JobInv
  <1>2. QED
    BY <1>1, Invariance, PTL
=============================================================================
