------------------------------ MODULE Proposer ------------------------------
(***************************************************************************)
(* PaxProposer (src/core/proposer_pax.cpp) with its ProposerState and      *)
(* ProposalCounter, the timeouts it publishes, and what PaxController does *)
(* to it when an instance is done.                                         *)
(*                                                                         *)
(* The proposer is an open system: any acknowledgement may arrive at any   *)
(* time, again, or never, and a published timeout may run at any later     *)
(* time (module Scheduler has their order).  New values come after Init.   *)
(*                                                                         *)
(* Nothing calls Accept, so status_ is never kAccept: what is behind that  *)
(* test in HandleAcceptAck, and the accept timeout, cannot happen and is   *)
(* left out.                                                               *)
(***************************************************************************)
EXTENDS Integers, FiniteSets

CONSTANTS
  Self,          \* GetNodeId()
  Node,          \* node numbers a message may carry
  Value,         \* values clients submit
  NoValue,       \* the empty LogValue
  Options,       \* node count and majority count the options may give
  MaxNumber,     \* bound: proposal numbers
  MaxInstance    \* bound: instances

ASSUME NodeAssumption == Node \subseteq Nat /\ Self \in Node
ASSUME ValueAssumption == NoValue \notin Value
ASSUME OptionsAssumption == Options \subseteq [nodes : Nat, majority : Nat]
ASSUME BoundAssumption == MaxNumber \in Nat /\ MaxInstance \in Nat

VARIABLES
  options,        \* pax_config_
  instance,       \* the controller's instance_id_
  status,         \* status_
  myId,           \* my_proposal_id_
  highest,        \* highest_known_proposal_, highest_proposal_provider_
  value,          \* log_value_
  promises,       \* promises_
  rejections,     \* rejections_
  proposeTimer,   \* instance of the live kEVENT_PROPOSE_TIMEOUT, or NoTimer
  valueTimer,     \* kEVENT_NEWVALUE_TIMEOUT is live
  \* History, kept for the properties only:
  passed,         \* highest number that rejections counted in this instance
                  \* were of or reported
  sent            \* the last prepare, and what "passed" was when it was sent

vars == <<options, instance, status, myId, highest, value, promises, rejections,
          proposeTimer, valueTimer, passed, sent>>

Instance == 0..MaxInstance
Number == 0..MaxNumber
LogValue == Value \cup {NoValue}
NoTimer == -1
NoProposal == [id |-> 0, node |-> 0]
NoPrepare == [message |-> [instance |-> -1, node |-> 0, number |-> 0], above |-> 0]

\* A promise reports no promised proposal, a rejection no accepted value.
Ack ==
  [rejected : {FALSE}, node : Node, number : Number, instance : Instance,
   promised : {NoProposal}, value : LogValue] \cup
  [rejected : {TRUE}, node : Node, number : Number, instance : Instance,
   promised : [id : Number, node : Node], value : {NoValue}]

-----------------------------------------------------------------------------
(* ProposerState and ProposalCounter.                                      *)

\* TryUpdateHighestProposalId; it returns true when the result differs.
TryUpdateHighest(p) ==
  IF p.id >= highest.id /\ (p.id > highest.id \/ p.node > highest.node)
  THEN p ELSE highest

\* Mutant: the numbers of others do not count.
NextOwnId(high) == myId + 1

NewProposalId(high) == (IF myId > high.id THEN myId ELSE high.id) + 1

IsMajority(votes) == Cardinality(votes) >= options.majority

\* True when all have voted, whatever its name says.
IsStillPending(pro, rej) == Cardinality(pro) + Cardinality(rej) >= options.nodes

-----------------------------------------------------------------------------
\* GenerateMessage for a prepare: the id is set as the proposing node, over
\* the node's own, and the message's proposal id keeps its initial 0.
GenerateMessage(id) == [instance |-> instance, node |-> id, number |-> 0]

\* Propose, with the rejections and the highest proposal at the time of the
\* call: a new number if someone rejected, then the counters are reset, the
\* timeout is published and the prepare is broadcast.
Propose(rej, high) ==
  /\ status' = "Propose"
  /\ myId' = IF rej # {} THEN NewProposalId(high) ELSE myId
  /\ myId' <= MaxNumber
  /\ promises' = {} /\ rejections' = {}
  /\ proposeTimer' = instance
  /\ sent' = [message |-> GenerateMessage(myId'), above |-> passed']

\* NewValue, when TryNewValue finds a value: one that is already there stays.
NewValue(v) ==
  /\ value' = IF value = NoValue THEN v ELSE value
  /\ valueTimer' = TRUE
  /\ UNCHANGED <<options, instance, highest, passed>>
  /\ Propose(rejections, highest)

\* ProposeTimeoutCallback.
ProposeTimeout ==
  /\ proposeTimer # NoTimer
  /\ UNCHANGED <<options, instance, highest, value, valueTimer, passed>>
  /\ \/ /\ proposeTimer = instance
        /\ Propose(rejections, highest)
     \/ /\ proposeTimer # instance
        /\ proposeTimer' = NoTimer
        /\ UNCHANGED <<status, myId, promises, rejections, sent>>

\* The early returns of HandleProposeAck.
IsForMe(a) == status = "Propose" /\ a.node = Self /\ a.number = myId

\* A vote is counted under the proposer's own node id.  A majority of
\* promises prepares again; otherwise the timeout is published anew, for the
\* instance in the message.
HandleProposeAck(a) ==
  LET pro == IF a.rejected THEN promises ELSE promises \cup {Self}
      rej == IF a.rejected THEN rejections \cup {Self} ELSE rejections
      high == TryUpdateHighest(IF a.rejected THEN a.promised
                               ELSE [id |-> a.number, node |-> a.node])
      top == IF a.promised.id > a.number THEN a.promised.id ELSE a.number
  IN
  /\ IsForMe(a)
  /\ highest' = high
  /\ value' = IF ~a.rejected /\ high # highest THEN a.value ELSE value
  /\ passed' = IF a.rejected /\ top > passed THEN top ELSE passed
  /\ \/ /\ IsMajority(pro)
        /\ Propose(rej, high)
     \/ /\ ~IsMajority(pro)
        /\ promises' = pro /\ rejections' = rej
        /\ proposeTimer' = IF IsMajority(rej) \/ ~IsStillPending(pro, rej)
                           THEN a.instance ELSE proposeTimer
        /\ UNCHANGED <<status, myId, sent>>
  /\ UNCHANGED <<options, instance, valueTimer>>

\* Every other acknowledgement is dropped, those of accepts among them.
IgnoreAck(a) == ~IsForMe(a) /\ UNCHANGED vars

\* Mutant: the timeouts are not withdrawn.
ValueTimeoutKeepsTimer ==
  /\ valueTimer
  /\ valueTimer' = FALSE
  /\ status' = "None"
  /\ UNCHANGED <<options, instance, myId, highest, value, promises, rejections,
                 proposeTimer, passed, sent>>

\* NewValueTimeoutCallback: gives up, and does nothing if not proposing.  The
\* value stays.
ValueTimeout ==
  /\ valueTimer
  /\ valueTimer' = FALSE
  /\ \/ status = "Propose" /\ status' = "None" /\ proposeTimer' = NoTimer
     \/ status # "Propose" /\ UNCHANGED <<status, proposeTimer>>
  /\ UNCHANGED <<options, instance, myId, highest, value, promises, rejections,
                 passed, sent>>

\* Mutant: the counters are not reset.
InstanceDoneKeepsVotes ==
  /\ instance < MaxInstance
  /\ instance' = instance + 1
  /\ proposeTimer' = NoTimer
  /\ highest' = NoProposal /\ value' = NoValue
  /\ status' = "None"
  /\ passed' = 0
  /\ UNCHANGED <<options, myId, promises, rejections, valueTimer, sent>>

\* The controller has learned the value: InstanceDone withdraws the propose
\* and accept timeouts but not that of the value, NewInstance resets the rest
\* and keeps the number.
InstanceDone ==
  /\ instance < MaxInstance
  /\ instance' = instance + 1
  /\ proposeTimer' = NoTimer
  /\ promises' = {} /\ rejections' = {}
  /\ highest' = NoProposal /\ value' = NoValue
  /\ status' = "None"
  /\ passed' = 0
  /\ UNCHANGED <<options, myId, valueTimer, sent>>

\* Mutant: the number is the accepted one itself.
FirstIdAccepted(accepted) == accepted

\* What PaxController::Init passes to PaxProposer::Init.
FirstId(accepted) == accepted + 1

\* The process dies and starts again, with the number its acceptor has.
Restart(i, accepted) ==
  /\ FirstId(accepted) <= MaxNumber
  /\ instance' = i
  /\ myId' = FirstId(accepted)
  /\ status' = "None"
  /\ highest' = NoProposal /\ value' = NoValue
  /\ promises' = {} /\ rejections' = {}
  /\ proposeTimer' = NoTimer /\ valueTimer' = FALSE
  /\ passed' = 0 /\ sent' = NoPrepare
  /\ UNCHANGED options

-----------------------------------------------------------------------------
\* The constructors, and Init of a node whose acceptor has accepted nothing.
Init ==
  /\ options \in Options
  /\ instance = 0
  /\ status = "None"
  /\ myId = 1
  /\ highest = NoProposal
  /\ value = NoValue
  /\ promises = {} /\ rejections = {}
  /\ proposeTimer = NoTimer
  /\ valueTimer = FALSE
  /\ passed = 0
  /\ sent = NoPrepare

Next ==
  \/ \E v \in Value : NewValue(v)
  \/ ProposeTimeout
  \/ \E a \in Ack : HandleProposeAck(a)
  \/ \E a \in Ack : IgnoreAck(a)
  \/ ValueTimeout
  \/ InstanceDone
  \/ \E i \in Instance, n \in Number : Restart(i, n)

Spec == Init /\ [][Next]_vars

-----------------------------------------------------------------------------
(* Properties.                                                             *)

\* Every variable has its type; the number is never PROPOSAL_DUMMY, and the
\* accept phase is never entered.
TypeOK ==
  /\ options \in Options
  /\ instance \in Instance
  /\ status \in {"None", "Propose"}
  /\ myId \in Nat \ {0}
  /\ highest \in [id : Nat, node : Nat]
  /\ value \in LogValue
  /\ promises \subseteq {Self} /\ rejections \subseteq {Self}
  /\ proposeTimer \in Instance \cup {NoTimer}
  /\ valueTimer \in BOOLEAN
  /\ passed \in Nat
  /\ sent \in {NoPrepare} \cup
       [message : [instance : Instance, node : Nat, number : {0}], above : Nat]

\* A prepare is made with a my_proposal_id_ above every number of this
\* instance whose rejection was counted and above every promise such a
\* rejection reported, however retries, new values and given-up values mix
\* (Propose, SomeoneReject, NewProposalId, TryUpdateHighestProposalId).
\* GenerateMessage has put it where the node belongs.  A rejection that comes
\* when nothing is proposed any more is not counted: HandleProposeAck drops
\* it, and the next new value is prepared with the number it rejected.
NumbersPassCounted == sent = NoPrepare \/ sent.message.node > sent.above

\* No counted vote outlives its number or its instance: while there is one,
\* the last prepare is of the current instance and number (Propose,
\* NewInstance).  It need not be the one that was answered.  The number stays
\* when an instance ends and the instance of an acknowledgement is not
\* checked, so one that answers a prepare of the instance before, with the
\* same number, comes too late and is counted here.
VotesNeedPrepare ==
  promises \cup rejections # {} =>
    sent.message.instance = instance /\ sent.message.node = myId

\* When the proposer is not proposing no propose timeout is armed: giving a
\* value up, or deciding it, leaves no timeout behind that would take the
\* proposing up again by itself (NewValueTimeoutCallback, InstanceDone).  A
\* value that was given up stays in log_value_, though, and the next NewValue
\* proposes it in place of its own.
IdleHasNoTimer == status = "None" => proposeTimer = NoTimer
=============================================================================
