------------------------------ MODULE Acceptor ------------------------------
(***************************************************************************)
(* PaxAcceptor (src/core/acceptor_pax.cpp) and the AcceptorState it keeps, *)
(* with the part of PaxController and PaxStore it touches: the instance    *)
(* counter that keys the stored records, and the records themselves.       *)
(*                                                                         *)
(* The acceptor is an open system: the requests are arbitrary, so every    *)
(* property holds whatever proposers, networks or duplications deliver.    *)
(* HandleMessage does not look at the instance a request carries, so       *)
(* requests carry none here.                                               *)
(*                                                                         *)
(* One handler is two steps, because the process may die between them:     *)
(* the state change with WriteState, then SendMessage.                     *)
(***************************************************************************)
EXTENDS Integers, Sequences

CONSTANTS
  ProposalId,       \* proposal numbers a request may carry
  Node,             \* node numbers a request may carry
  Value,            \* proposed log values
  NoValue,          \* the empty LogValue
  MaxInstance,      \* bound: instances are 0..MaxInstance
  InstanceModulus   \* instance_id_t is unsigned, 2^64 in the build

ASSUME IdAssumption ==
  /\ ProposalId \subseteq Nat
  /\ Node \subseteq Nat \ {0}      \* NODE_DUMMY is 0
  /\ NoValue \notin Value

ASSUME InstanceAssumption ==
  /\ MaxInstance \in Nat
  /\ InstanceModulus \in Nat
  /\ MaxInstance + 1 < InstanceModulus

VARIABLES
  up,             \* the node runs
  instance,       \* PaxController::instance_id_
  promised,       \* promised_proposal_id_, promised_node_id_
  accepted,       \* accepted_proposal_id_, accepted_proposer_
  acceptedValue,  \* accepted_value_
  stored,         \* the PaxosLogEntry PaxStore holds for each instance
  request,        \* the message the running handler was called with, or NoRequest
  reply,          \* the reply it has prepared
  \* History, kept for the properties only:
  granted,        \* grants sent in this instance since the last start
  unsaved         \* the last WriteState failed

state == <<promised, accepted, acceptedValue>>
vars == <<up, instance, state, stored, request, reply, granted, unsaved>>

-----------------------------------------------------------------------------
Instance == 0..MaxInstance
Ballot == [id : ProposalId, node : Node]
NoBallot == [id |-> 0, node |-> 0]              \* PROPOSAL_DUMMY, NODE_DUMMY
LogValue == Value \cup {NoValue}

Request == [type : {"PROPOSE", "ACCEPT"}, ballot : Ballot, value : LogValue]
NoRequest == [type |-> "NONE", ballot |-> NoBallot, value |-> NoValue]

\* The fields ReplyProposer copies; its instance is never set and stays 0.
Reply == [rejected : BOOLEAN, promised : [id : Nat, node : Nat],
          acceptedId : Nat, acceptedValue : LogValue]
NoReply == [rejected |-> FALSE, promised |-> NoBallot,
            acceptedId |-> 0, acceptedValue |-> NoValue]

\* proposer_id repeats promised.node and is left out.
Entry == [instance : Instance, promised : [id : Nat, node : Nat],
          accepted : [id : Nat, node : Nat], value : LogValue]
DefaultEntry == [instance |-> 0, promised |-> NoBallot,
                 accepted |-> NoBallot, value |-> NoValue]

Grant == [type : {"PROPOSE", "ACCEPT"}, ballot : Ballot, value : LogValue]

-----------------------------------------------------------------------------
\* No handler is between its two steps.
Idle == request.type = "NONE"

Higher(b, c) == b.id > c.id \/ (b.id = c.id /\ b.node > c.node)

\* Mutant: a request for the promised ballot itself is granted again.
NotLowerThanPromised(b) == ~Higher(promised, b)

IsHigherThanPromised(b) == Higher(b, promised)

\* Both fields are assigned proposer_id; proposal_id is not used.
AcceptedProposal(b) == [id |-> b.node, node |-> b.node]

\* A record that was never written reads as the default message.
ReadState(i) == IF i \in Instance THEN stored[i] ELSE DefaultEntry

\* WriteLog's result is dropped, so a failed write goes unnoticed.
WriteState(entry) ==
  \E ok \in BOOLEAN :
    /\ stored' = IF ok THEN [stored EXCEPT ![instance] = entry] ELSE stored
    /\ unsaved' = ~ok

\* Mutant: the record is filled in before the new promise is set.
RecordPromisedBefore(b, acc, val) ==
  /\ promised' = b
  /\ WriteState([instance |-> instance, promised |-> promised,
                 accepted |-> [id |-> acc.id, node |-> b.node], value |-> val])

\* acc and val are the accepted proposal and value at the time of the call.
UpdatePromised(b, acc, val) ==
  /\ promised' = b
  /\ WriteState([instance |-> instance, promised |-> b,
                 accepted |-> IF acc.id # 0 THEN [id |-> acc.id, node |-> b.node]
                                            ELSE NoBallot,
                 value |-> IF acc.id # 0 THEN val ELSE NoValue])

-----------------------------------------------------------------------------
(* The handlers.  They run one at a time, on the controller's main loop.   *)

HandlePropose(b) ==
  /\ up /\ Idle
  /\ request' = [type |-> "PROPOSE", ballot |-> b, value |-> NoValue]
  /\ \/ /\ IsHigherThanPromised(b)
        /\ reply' = [rejected |-> FALSE, promised |-> NoBallot,
                     acceptedId |-> accepted.id,
                     acceptedValue |-> IF accepted.id # 0 THEN acceptedValue
                                                          ELSE NoValue]
        /\ UpdatePromised(b, accepted, acceptedValue)
     \/ /\ ~IsHigherThanPromised(b)
        /\ reply' = [rejected |-> TRUE, promised |-> promised,
                     acceptedId |-> 0, acceptedValue |-> NoValue]
        /\ UNCHANGED <<promised, stored, unsaved>>
  /\ UNCHANGED <<up, instance, accepted, acceptedValue, granted>>

HandleAccept(b, v) ==
  /\ up /\ Idle
  /\ request' = [type |-> "ACCEPT", ballot |-> b, value |-> v]
  /\ \/ /\ IsHigherThanPromised(b)
        /\ accepted' = AcceptedProposal(b)
        /\ acceptedValue' = v
        /\ UpdatePromised(b, AcceptedProposal(b), v)
        /\ reply' = NoReply          \* not rejected, and no other field set
     \/ /\ ~IsHigherThanPromised(b)
        /\ reply' = [rejected |-> TRUE,
                     promised |-> [id |-> promised.id, node |-> 0],
                     acceptedId |-> 0, acceptedValue |-> NoValue]
        /\ UNCHANGED <<state, stored, unsaved>>
  /\ UNCHANGED <<up, instance, granted>>

\* The end of both handlers: SendMessage to the node the request named.
ReplyProposer ==
  /\ up /\ ~Idle
  /\ granted' = IF reply.rejected
                THEN granted
                ELSE Append(granted,
                       [type |-> request.type, ballot |-> request.ballot,
                        value |-> IF request.type = "PROPOSE"
                                  THEN reply.acceptedValue ELSE request.value])
  /\ request' = NoRequest
  /\ reply' = NoReply
  /\ UNCHANGED <<up, instance, state, stored, unsaved>>

\* Mutant: only the promise is cleared.
ResetPromise ==
  /\ promised' = NoBallot
  /\ UNCHANGED <<accepted, acceptedValue>>

\* Mutant: "no ballot" is -1, as in ReadState(-1), instead of the dummies.
ResetToMinusOne ==
  /\ promised' = [id |-> -1, node |-> -1]
  /\ accepted' = [id |-> -1, node |-> -1]
  /\ acceptedValue' = NoValue

\* AcceptorState::Reset
Reset ==
  /\ promised' = NoBallot
  /\ accepted' = NoBallot
  /\ acceptedValue' = NoValue

\* The record PaxLearner::LearnNew writes of the finished instance: the value
\* learned and whose it is, and no promise.  The write may fail unnoticed.
LearnNew ==
  \/ \E acc \in Ballot \cup {NoBallot}, v \in LogValue :
       stored' = [stored EXCEPT ![instance] =
                    [instance |-> instance, promised |-> NoBallot,
                     accepted |-> acc, value |-> v]]
  \/ UNCHANGED stored

\* The learner has learned the value of the instance: its record, and then
\* PaxController::NewInstance.
NewInstance ==
  /\ up /\ Idle
  /\ instance < MaxInstance
  /\ instance' = instance + 1
  /\ LearnNew
  /\ Reset
  /\ granted' = <<>>
  /\ unsaved' = FALSE
  /\ UNCHANGED <<up, request, reply>>

\* The process dies; what is in memory is gone.
Crash ==
  /\ up
  /\ up' = FALSE
  /\ Reset
  /\ request' = NoRequest
  /\ reply' = NoReply
  /\ granted' = <<>>
  /\ unsaved' = FALSE
  /\ UNCHANGED <<instance, stored>>

\* The instance PaxController::Init starts at, given the instance found in
\* the record and the one the state machine reports.  Between the two
\* conditions instance_id_ is never assigned and holds whatever it held.
InitialInstance(inState, inSM) ==
  IF inState > inSM + 1 THEN {inState}
  ELSE IF inState < inSM THEN {inSM + 1}
  ELSE Instance

\* PaxController::Init with PaxAcceptor::Init: the record that is read is
\* that of instance -1, which converts to the largest instance_id_t.
Start ==
  /\ ~up
  /\ LET entry == ReadState((-1) % InstanceModulus) IN
       /\ promised' = entry.promised
       /\ accepted' = AcceptedProposal(entry.accepted)
       /\ acceptedValue' = entry.value
       /\ \E inSM \in Instance :
            instance' \in InitialInstance(entry.instance, inSM) \cap Instance
  /\ up' = TRUE
  /\ UNCHANGED <<stored, request, reply, granted, unsaved>>

-----------------------------------------------------------------------------
Init ==
  /\ up = FALSE
  /\ instance = 0
  /\ promised = NoBallot
  /\ accepted = NoBallot
  /\ acceptedValue = NoValue
  /\ stored = [i \in Instance |-> DefaultEntry]
  /\ request = NoRequest
  /\ reply = NoReply
  /\ granted = <<>>
  /\ unsaved = FALSE

Next ==
  \/ \E b \in Ballot : HandlePropose(b)
  \/ \E b \in Ballot, v \in Value : HandleAccept(b, v)
  \/ ReplyProposer
  \/ NewInstance
  \/ Crash
  \/ Start

Spec == Init /\ [][Next]_vars

-----------------------------------------------------------------------------
(* Properties.                                                             *)

\* Every variable has its type: in particular ballots built by
\* SetAcceptedProposal and Reset stay in the range of the stored fields.
TypeOK ==
  /\ up \in BOOLEAN
  /\ instance \in Instance
  /\ promised \in Ballot \cup {NoBallot}
  /\ accepted \in [id : Nat, node : Nat]
  /\ acceptedValue \in LogValue
  /\ stored \in [Instance -> Entry]
  /\ request \in Request \cup {NoRequest}
  /\ reply \in Reply
  /\ granted \in Seq(Grant)
  /\ unsaved \in BOOLEAN

\* Within one instance and one run of the process the acceptor grants nothing
\* below an earlier grant, and grants of one kind strictly rise.  So it never
\* accepts below a promise it gave, never promises below what it accepted,
\* never answers a duplicated request twice with yes, and never accepts two
\* values under one ballot.  An acceptance may have the ballot of a promise,
\* as the comment on HandlePropose wants it (IsHigherThanPromised,
\* HandlePropose, HandleAccept).
GrantsRise ==
  \A i, j \in 1..Len(granted) :
    i < j => /\ ~Higher(granted[i].ballot, granted[j].ballot)
             /\ granted[i].type = granted[j].type =>
                  Higher(granted[j].ballot, granted[i].ballot)

\* v is the value of the last acceptance among the first n grants, or
\* NoValue when there is none.
LastAcceptedIs(n, v) ==
  \/ /\ v = NoValue
     /\ \A k \in 1..n : granted[k].type # "ACCEPT"
  \/ \E j \in 1..n :
       /\ granted[j].type = "ACCEPT" /\ granted[j].value = v
       /\ \A k \in (j + 1)..n : granted[k].type # "ACCEPT"

\* A promise reports exactly the value of the last acceptance before it in
\* this instance, and nothing when there was none: no value survives
\* NewInstance, none is dropped or reported from an older acceptance
\* (HandlePropose with GetAccepted; AcceptorState::Reset).
PromiseReportsLastAccept ==
  \A i \in 1..Len(granted) :
    granted[i].type = "PROPOSE" => LastAcceptedIs(i - 1, granted[i].value)

\* Once a grant has been sent, the record of this instance holds a promise
\* at least as high and the value last accepted, as long as the storage
\* reported no error (UpdatePromised writes before ReplyProposer sends).
\* A crash right after the reply therefore finds it on disk.
RecordCoversGrants ==
  ~unsaved /\ granted # <<>> =>
    /\ \A i \in 1..Len(granted) :
         ~Higher(granted[i].ballot, stored[instance].promised)
    /\ Idle => LastAcceptedIs(Len(granted), stored[instance].value)

-----------------------------------------------------------------------------
(* What comments of the code say of it and the code does not do.           *)

\* "An acceptor can accept a proposal numbered n iff it has not responded to
\* a prepare request having a number greater than n."  An accept request
\* that no grant exceeds is not rejected (HandlePropose, the quoted comment;
\* HandleAccept asks for strictly more than the promise).
AcceptsWhatItPromised ==
  /\ ~Idle /\ request.type = "ACCEPT"
  /\ \A i \in 1..Len(granted) : ~Higher(granted[i].ballot, request.ballot)
  => ~reply.rejected

\* "An acceptor is supposed to remember this information even if it fails and
\* then restarts": the promise on record for the instance the acceptor is in
\* never decreases (UpdatePromised; PaxAcceptor::Init reads another record).
RecordedPromiseKept ==
  [][instance' = instance =>
       ~Higher(stored[instance].promised, stored'[instance].promised)]_vars
=============================================================================
