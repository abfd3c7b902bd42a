------------------------------ MODULE Learner -------------------------------
(***************************************************************************)
(* PaxLearner (core/learner_pax.cpp, learner_follow.cpp, learner_lead.cpp) *)
(* of one node, with the end of PaxController::HandleMessage that runs a   *)
(* learned value and moves to the next instance.                           *)
(*                                                                         *)
(* Two threads: the controller's main loop, which calls every handler, and *)
(* the learner's sending thread, which brings a follower up to date.  They *)
(* share the sending job (under lock_), the instance number and the store  *)
(* (the learner takes no lock for these).                                  *)
(*                                                                         *)
(* The other nodes are open: any message of the learner's types may come,  *)
(* in any order and any number of times, but one about instance i carries  *)
(* a value proposed in instance i or, as code that reads a missing record  *)
(* sends it, the empty value.  Proposal ids are those the acceptor stores, *)
(* node numbers.                                                           *)
(***************************************************************************)
EXTENDS Integers, Sequences

CONSTANTS
  Node,             \* node numbers, not 0
  Self,             \* this node
  MaxInstance,      \* bound: instances 0..MaxInstance, values below it
  Told,             \* bound: instances other nodes say they are in
  LEAD_FOLLOW_DIS   \* how far the sending may run ahead of the acknowledgements

ASSUME NodeAssumption == Node \subseteq Nat \ {0} /\ Self \in Node
ASSUME BoundAssumption ==
  MaxInstance \in Nat /\ LEAD_FOLLOW_DIS \in Nat /\ Told \subseteq 0..MaxInstance

VARIABLES
  instance,    \* PaxController::instance_id_
  main,        \* where the main loop is: idle, handled or confirming
  mainOut,     \* the learner message the running handler has sent
  learner,     \* learner_state_
  highest,     \* highest_known_instance_id_
  accepted,    \* what the acceptor has accepted in this instance
  stored,      \* per instance: the value in its record, Empty without one
  job,         \* job_status_: stale, prepared or sending
  receiver,    \* receiver_
  begin,       \* begin_instance_id_
  ack,         \* ack_send_
  sender,      \* where the sending thread is
  toSend,      \* its to_send
  to,          \* its receiver argument
  late,        \* more than SENDING_INTERNAL_MS since its timeBegin
  syncOut,     \* the message it has just sent
  \* History, kept for the properties only:
  executed,    \* values given to the state machine, in order
  unsaved      \* instances whose last WriteState failed

mainVars == <<instance, learner, highest, accepted, stored, executed, unsaved>>
jobVars == <<job, receiver, begin, ack>>
senderVars == <<sender, toSend, to, late, syncOut>>
vars == <<main, mainOut, mainVars, jobVars, senderVars>>

-----------------------------------------------------------------------------
Instance == 0..(MaxInstance - 1)
Number == 0..MaxInstance
Empty == -1                       \* LogValue("")
Value == Instance \cup {Empty}    \* i: a value proposed in instance i
ValueOf(i) == {i, Empty}
Acceptable == {instance - 1, instance} \cap Instance   \* bound: one instance late
NoNode == 0                       \* NODE_DUMMY
NoNumber == 0                     \* INSTANCE_DUMMY, PROPOSAL_DUMMY

Publish == UNION {[instance : {i}, proposer : Node \cup {NoNode},
                   id : Node \cup {NoNumber}, value : ValueOf(i)] : i \in Instance}
\* PaxProposer::HandleAcceptAck sets neither the proposer nor a value.
ValueChosen == [instance : Instance, proposer : {NoNode},
                id : Node \cup {NoNumber}, value : {Empty}]

NotLearned == [learned |-> FALSE, value |-> Empty]
NotAccepted == [id |-> NoNumber, node |-> NoNode, value |-> Empty]
Out(type, i, v) == [type |-> type, instance |-> i, value |-> v]
NoOut == Out("NONE", NoNumber, Empty)
OutMessage == [type : {"NONE", "VALUE_CHOSEN_BROADCAST", "SYNC_VALUE_ACK",
                       "LEARNER_VALUE_SEND", "LEARNER_VALUE_SYNC", "TELL_INSTANCE_ID",
                       "CONFIRM_LEARN"},
               instance : Number, value : Value]

Larger(i, j) == IF i > j THEN i ELSE j

-----------------------------------------------------------------------------
(* Learning.                                                               *)

ReadState(i) == stored[i]

\* The result of the write is dropped.
WriteState(i, v) ==
  \E ok \in BOOLEAN :
    /\ ok \/ unsaved \subseteq {i}    \* bound: one record at a time is stale
    /\ stored' = IF ok THEN [stored EXCEPT ![i] = v] ELSE stored
    /\ unsaved' = IF ok THEN unsaved \ {i} ELSE unsaved \cup {i}

\* Mutant: the value is learned and not written.
LearnUnwritten(m) ==
  /\ learner' = [learned |-> TRUE, value |-> m.value]
  /\ UNCHANGED <<stored, unsaved>>

LearnNew(m) ==
  /\ learner' = [learned |-> TRUE, value |-> m.value]
  /\ WriteState(m.instance, m.value)

\* Also publishes the next ShallLearn, as every learning does.
LearnFromOthers(m, l) ==
  IF m.instance = instance THEN LearnNew(m)
  ELSE learner' = l /\ UNCHANGED <<stored, unsaved>>

\* m is about this node's proposal, the one its acceptor accepted last.
MyProposal(m) ==
  /\ m.instance = instance
  /\ m.proposer = Self
  /\ accepted.id # NoNumber /\ m.id = accepted.id

\* The learner's state afterwards; the acceptor has written the record.
LearnFromSelf(m) ==
  IF MyProposal(m) /\ accepted.node = Self
  THEN [learned |-> TRUE, value |-> accepted.value] ELSE learner

HandleOthersPublish(m, l) ==
  IF MyProposal(m) THEN LearnFromOthers(m, l)
  ELSE learner' = l /\ UNCHANGED <<stored, unsaved>>

\* Mutant: the instance after the one heard of counts.
InstanceAfter(i) == highest' = Larger(i + 1, highest)

SetPossibleHigherInstanceId(i) == highest' = Larger(i, highest)

-----------------------------------------------------------------------------
(* The handlers.  Each is called by PaxController::HandleMessage, whose    *)
(* last part, Finish, follows it before the main loop does anything else.  *)

Handle == main = "idle" /\ main' = "handled"

\* VALUE_CHOSEN of the own proposer: HandleSenderPublish, whose TellOthers
\* broadcasts the message's (unset) learned value, and, the case having no
\* break, HandleOthersPublish.
HandleSenderPublish(m) ==
  /\ Handle
  /\ mainOut' = Out("VALUE_CHOSEN_BROADCAST", instance, Empty)
  /\ HandleOthersPublish(m, LearnFromSelf(m))
  /\ UNCHANGED <<instance, highest, accepted, executed, jobVars, senderVars>>

\* LEARNER_VALUE_SEND and VALUE_CHOSEN_BROADCAST.
HandlePublish(m) ==
  /\ Handle
  /\ HandleOthersPublish(m, learner)
  /\ UNCHANGED <<mainOut, instance, highest, accepted, executed,
                 jobVars, senderVars>>

\* The acknowledgement names the instance this node is in, whether or not
\* the message was about that one.
HandleSyncValue(m) ==
  /\ Handle
  /\ LearnFromOthers(m, learner)
  /\ mainOut' = Out("SYNC_VALUE_ACK", instance, Empty)
  /\ UNCHANGED <<instance, highest, accepted, executed, jobVars, senderVars>>

\* A follower in instance i asks: it is sent the value of i, if i is the one
\* before this node's, and otherwise (TellInstanceId) this node's instance.
HandleShallILearn(i) ==
  /\ Handle
  /\ SetPossibleHigherInstanceId(i)
  /\ mainOut' = IF i + 1 = instance THEN Out("LEARNER_VALUE_SEND", i, ReadState(i))
                                    ELSE Out("TELL_INSTANCE_ID", instance, Empty)
  /\ UNCHANGED <<instance, learner, accepted, stored, executed, unsaved,
                 jobVars, senderVars>>

\* A node in instance lead answers a ShallLearn of instance i.  ConfirmLearn
\* takes mutex_follow_, which its caller holds, and never returns; what it
\* would do next is to fill in a message that it does not send.
HandleTellNewInstanceId(i, lead) ==
  /\ main = "idle"
  /\ SetPossibleHigherInstanceId(lead)
  /\ main' = IF i = instance /\ lead >= instance THEN "confirming" ELSE "handled"
  /\ UNCHANGED <<mainOut, instance, learner, accepted, stored, executed, unsaved,
                 jobVars, senderVars>>

\* Mutant: a job that is under way is replaced.
ReplaceJob(n, i) ==
  /\ Handle
  /\ job' = "prepared" /\ receiver' = n /\ begin' = i
  /\ UNCHANGED <<ack, mainOut, mainVars, senderVars>>

\* HandleConfirmLearn: MakeSenderReady.
MakeSenderReady(n, i) ==
  /\ Handle
  /\ \/ /\ job = "stale"
        /\ job' = "prepared" /\ receiver' = n /\ begin' = i
        /\ UNCHANGED ack
     \/ /\ job # "stale"
        /\ UNCHANGED jobVars
  /\ UNCHANGED <<mainOut, mainVars, senderVars>>

\* Mutant: acknowledgements are taken in the order in which they come.
TakeAnyAck(n, i) ==
  /\ Handle
  /\ ack' = IF job = "sending" /\ receiver = n THEN i ELSE ack
  /\ UNCHANGED <<job, receiver, begin, mainOut, mainVars, senderVars>>

HandleValueAck(n, i) ==
  /\ Handle
  /\ ack' = IF job = "sending" /\ receiver = n THEN Larger(i, ack) ELSE ack
  /\ UNCHANGED <<job, receiver, begin, mainOut, mainVars, senderVars>>

\* The acceptor accepts a proposal of node n (module Acceptor), through the
\* same PaxController::HandleMessage.  It does not look at the instance the
\* request is about, so v may be a late value of another one.
AcceptValue(n, v) ==
  /\ Handle
  /\ instance < MaxInstance
  /\ accepted' = [id |-> n, node |-> n, value |-> v]
  /\ WriteState(instance, v)
  /\ UNCHANGED <<mainOut, instance, learner, highest, executed,
                 jobVars, senderVars>>

-----------------------------------------------------------------------------
(* The end of a message.  The TryNewValue of each round, which looks at    *)
(* "highest" and touches nothing of the learner, is in module Scheduler.   *)

\* Mutant: learner_->NewInstance() is forgotten.
NewInstanceKeepsLearned ==
  /\ instance' = instance + 1
  /\ accepted' = NotAccepted
  /\ UNCHANGED learner

\* PaxController::NewInstance; the proposer's part is in module Proposer.
NewInstance ==
  /\ instance' = instance + 1
  /\ accepted' = NotAccepted
  /\ learner' = NotLearned

\* The end of PaxController::HandleMessage.  Execute's result is dropped.
Finish ==
  /\ main = "handled"
  /\ main' = "idle"
  /\ mainOut' = NoOut
  /\ \/ /\ learner.learned
        /\ instance < MaxInstance
        /\ executed' = Append(executed, learner.value)
        /\ NewInstance
     \/ /\ ~learner.learned
        /\ UNCHANGED <<executed, instance, accepted, learner>>
  /\ UNCHANGED <<highest, stored, unsaved, jobVars, senderVars>>

-----------------------------------------------------------------------------
(* The sending thread: SendingLoop.                                        *)

WaitForReady ==
  /\ sender = "wait"
  /\ job = "prepared"
  /\ job' = "sending"
  /\ sender' = "call"
  /\ UNCHANGED <<receiver, begin, ack, toSend, to, late, syncOut, main, mainOut, mainVars>>

\* SendLearnedValues is called with the job's fields, read without lock_.
SendLearnedValues ==
  /\ sender = "call"
  /\ toSend' = begin /\ to' = receiver /\ late' = FALSE
  /\ sender' = "match"
  /\ UNCHANGED <<syncOut, jobVars, main, mainOut, mainVars>>

MatchReceiver ==
  /\ sender = "match"
  /\ sender' = IF receiver = to THEN "loop" ELSE "clear"
  /\ UNCHANGED <<toSend, to, late, syncOut, jobVars, main, mainOut, mainVars>>

\* Mutant: the value of the instance that is still open is sent too.
MoreToSendInclusive ==
  /\ sender = "loop"
  /\ sender' = IF toSend <= instance THEN "read" ELSE "clear"
  /\ UNCHANGED <<toSend, to, late, syncOut, jobVars, main, mainOut, mainVars>>

MoreToSend ==
  /\ sender = "loop"
  /\ sender' = IF toSend < instance THEN "read" ELSE "clear"
  /\ UNCHANGED <<toSend, to, late, syncOut, jobVars, main, mainOut, mainVars>>

SendLearnedValue ==
  /\ sender = "read"
  /\ syncOut' = Out("LEARNER_VALUE_SYNC", toSend, ReadState(toSend))
  /\ toSend' = toSend + 1
  /\ sender' = "window"
  /\ UNCHANGED <<to, late, jobVars, main, mainOut, mainVars>>

\* last_send - ack_send_ > LEAD_FOLLOW_DIS, the numbers being unsigned.
TooFarAhead ==
  LET last == toSend - 1 IN last < ack \/ last - ack > LEAD_FOLLOW_DIS

\* Mutant: the wait does not look at the clock.
WindowOnly ==
  /\ sender = "window"
  /\ ~TooFarAhead
  /\ sender' = "loop" /\ syncOut' = NoOut
  /\ UNCHANGED <<toSend, to, late, jobVars, main, mainOut, mainVars>>

\* The loop around WaitFor is left; until then it goes round every 100 ms
\* and changes nothing.
Window ==
  /\ sender = "window"
  /\ \/ ~TooFarAhead /\ sender' = "loop"
     \/ TooFarAhead /\ late /\ sender' = "clear"
  /\ syncOut' = NoOut
  /\ UNCHANGED <<toSend, to, late, jobVars, main, mainOut, mainVars>>

\* SENDING_INTERNAL_MS have passed.  Only the window's loop looks.
Elapse ==
  /\ sender = "window"
  /\ ~late
  /\ late' = TRUE
  /\ UNCHANGED <<sender, toSend, to, syncOut, jobVars, main, mainOut, mainVars>>

ClearSendingState ==
  /\ sender = "clear"
  /\ job' = "stale" /\ begin' = NoNumber /\ receiver' = NoNode /\ ack' = NoNumber
  /\ sender' = "wait"
  /\ toSend' = NoNumber /\ to' = NoNode /\ late' = FALSE   \* its variables end
  /\ UNCHANGED <<syncOut, main, mainOut, mainVars>>

-----------------------------------------------------------------------------
Init ==
  /\ instance = 0 /\ main = "idle" /\ mainOut = NoOut
  /\ learner = NotLearned /\ highest = NoNumber /\ accepted = NotAccepted
  /\ stored = [i \in Instance |-> Empty]
  /\ job = "stale" /\ receiver = NoNode /\ begin = NoNumber /\ ack = NoNumber
  /\ sender = "wait" /\ toSend = NoNumber /\ to = NoNode /\ late = FALSE
  /\ syncOut = NoOut
  /\ executed = <<>> /\ unsaved = {}

MainNext ==
  \/ \E m \in ValueChosen : HandleSenderPublish(m)
  \/ \E m \in Publish : HandlePublish(m)
  \/ \E m \in Publish : HandleSyncValue(m)
  \/ \E n \in Node, i \in Told : MakeSenderReady(n, i) \/ HandleValueAck(n, i)
  \/ \E i \in Told : HandleShallILearn(i)
  \/ \E i, lead \in Told : HandleTellNewInstanceId(i, lead)
  \/ \E n \in Node, v \in Acceptable : AcceptValue(n, v)
  \/ Finish

SenderNext ==
  WaitForReady \/ SendLearnedValues \/ MatchReceiver \/ MoreToSend
    \/ SendLearnedValue \/ Window \/ ClearSendingState

Next == MainNext \/ SenderNext \/ Elapse

\* The sending thread goes on when it can and the clock does not stop.
\* Nothing is assumed of the main loop or of messages.
Spec == Init /\ [][Next]_vars /\ WF_vars(SenderNext) /\ WF_vars(Elapse)

-----------------------------------------------------------------------------
(* Properties.                                                             *)

\* Every variable has its type.
TypeOK ==
  /\ instance \in Number
  /\ main \in {"idle", "handled", "confirming"}
  /\ mainOut \in OutMessage
  /\ learner \in [learned : BOOLEAN, value : Value]
  /\ highest \in Number
  /\ accepted \in [id : Node \cup {NoNumber}, node : Node \cup {NoNode}, value : Value]
  /\ stored \in [Instance -> Value]
  /\ job \in {"stale", "prepared", "sending"}
  /\ receiver \in Node \cup {NoNode} /\ begin \in Number /\ ack \in Number
  /\ sender \in {"wait", "call", "match", "loop", "read", "window", "clear"}
  /\ toSend \in Number /\ to \in Node \cup {NoNode}
  /\ late \in BOOLEAN
  /\ syncOut \in OutMessage
  /\ executed \in Seq(Value)
  /\ unsaved \subseteq Instance

\* The state machine gets one value per instance, in the order of the
\* instances, each a value of that very instance or empty, whatever is
\* received late, twice or out of order (LearnFromOthers, NewInstance).
ExecutedInOrder ==
  /\ Len(executed) = instance
  /\ \A k \in 1..Len(executed) : executed[k] \in ValueOf(k - 1)

\* The record of a finished instance holds the value that was executed, and
\* a later accept or learn does not change it, unless a write failed
\* (LearnNew, WriteState).
RecordIsWhatRan ==
  \A k \in 1..Len(executed) :
    k - 1 \notin unsaved => stored[k - 1] = executed[k]

\* What followers are sent for an instance, by a reply or by the sending
\* thread, is what this node itself executed in it, although the thread
\* takes no lock for the instance number and the records (SendLearnedValue).
SendsWhatRan ==
  \A m \in {mainOut, syncOut} :
    m.type \in {"LEARNER_VALUE_SEND", "LEARNER_VALUE_SYNC"} =>
      /\ m.instance < Len(executed)
      /\ m.instance \notin unsaved => m.value = executed[m.instance + 1]

\* From WaitForReady to ClearSendingState the job is the thread's: nobody
\* changes the receiver or the first instance under it, so its unlocked
\* reads are safe and a confirmation of another follower does not get the
\* rest of the values (MakeSenderReady, SendLearnedValues).
JobIsTheThreads ==
  /\ sender \in {"call", "match", "loop", "read", "window", "clear"} <=> job = "sending"
  /\ sender \in {"match", "loop", "read", "window", "clear"} =>
       receiver = to /\ begin <= toSend
  /\ job = "stale" => receiver = NoNode /\ begin = NoNumber /\ ack = NoNumber

\* The first value apart, none is sent more than LEAD_FOLLOW_DIS + 1 ahead of
\* the highest instance acknowledged in this job (SendLearnedValues,
\* HandleValueAck).
WindowHeld ==
  job = "sending" /\ sender # "call" /\ toSend > begin + 1 =>
    toSend - 1 <= ack + LEAD_FOLLOW_DIS + 1

\* Once the node stays in its instance every sending job comes to an end, so
\* the learner can take another one: also when no acknowledgement arrives,
\* when they overtake what was sent, and when the main loop is stuck.  With
\* instances and acknowledgements that keep growing a job may go on: the time
\* is looked at only when the window is full (SendLearnedValues,
\* SENDING_INTERNAL_MS).
JobEnds ==
  <>[][instance' = instance]_vars => []<>(job = "stale")
=============================================================================
