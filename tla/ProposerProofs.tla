--------------------------- MODULE ProposerProofs ---------------------------
(***************************************************************************)
(* Proofs of the safety properties of module Proposer, for every cluster   *)
(* size, majority, node and value, and for all bounds.                     *)
(***************************************************************************)
EXTENDS Proposer, TLAPS

USE NodeAssumption, ValueAssumption, OptionsAssumption, BoundAssumption

\* While it proposes, the last prepare is of this instance and this number.
ProposingIsSent ==
  status = "Propose" => sent.message.instance = instance /\ sent.message.node = myId

\* The number is above all counted rejections, or one is counted now and
\* NewProposalId will take it there.
NumberIsAhead ==
  \/ passed < myId
  \/ rejections # {} /\ (passed <= myId \/ passed <= highest.id)

IInv ==
  /\ TypeOK
  /\ NumbersPassCounted
  /\ VotesNeedPrepare
  /\ IdleHasNoTimer
  /\ ProposingIsSent
  /\ NumberIsAhead

-----------------------------------------------------------------------------
\* TryUpdateHighestProposalId returns a proposal no lower than either.
LEMMA TryUpdateHighestRises ==
  ASSUME NEW p \in [id : Nat, node : Nat], highest \in [id : Nat, node : Nat]
  PROVE  /\ TryUpdateHighest(p) \in [id : Nat, node : Nat]
         /\ TryUpdateHighest(p).id >= highest.id
         /\ TryUpdateHighest(p).id >= p.id
  BY DEF TryUpdateHighest

\* NewProposalId passes the own number and the highest one known.
LEMMA NewProposalIdPasses ==
  ASSUME NEW high \in [id : Nat, node : Nat], myId \in Nat \ {0}
  PROVE  /\ NewProposalId(high) \in Nat \ {0}
         /\ NewProposalId(high) > myId
         /\ NewProposalId(high) > high.id
  BY DEF NewProposalId

\* What an acknowledgement may carry.
LEMMA AckType ==
  ASSUME NEW a \in Ack
  PROVE  /\ a.rejected \in BOOLEAN /\ a.node \in Nat /\ a.number \in Nat
         /\ a.instance \in Instance
         /\ a.promised \in [id : Nat, node : Nat]
         /\ a.value \in LogValue
<1>1. Number \subseteq Nat /\ NoProposal \in [id : Nat, node : Nat]
  BY DEF Number, NoProposal
<1>2. NoValue \in LogValue  BY DEF LogValue
<1>3. CASE a \in [rejected : {FALSE}, node : Node, number : Number,
                 instance : Instance, promised : {NoProposal}, value : LogValue]
  BY <1>1, <1>3
<1>4. CASE a \in [rejected : {TRUE}, node : Node, number : Number,
                 instance : Instance, promised : [id : Number, node : Node],
                 value : {NoValue}]
  <2>1. a.promised.id \in Number /\ a.promised.node \in Node
        /\ a.promised = [id |-> a.promised.id, node |-> a.promised.node]
    BY <1>4
  <2>2. a.promised \in [id : Nat, node : Nat]  BY <1>1, <2>1
  <2> QED  BY <1>1, <1>2, <1>4, <2>2
<1> QED  BY <1>3, <1>4 DEF Ack

\* A call of Propose establishes what IInv says of number, votes and prepare,
\* when the rejections counted so far and the highest proposal cover "passed".
LEMMA ProposeEstablishes ==
  ASSUME TypeOK,
         NEW rej, NEW high \in [id : Nat, node : Nat],
         passed' \in Nat, instance' = instance,
         \/ passed' < myId
         \/ rej # {} /\ (passed' <= myId \/ passed' <= high.id),
         Propose(rej, high)
  PROVE  /\ status' = "Propose"
         /\ myId' \in Nat \ {0}
         /\ passed' < myId'
         /\ promises' = {} /\ rejections' = {}
         /\ proposeTimer' \in Instance
         /\ sent'.above = passed' /\ sent'.message.node = myId'
         /\ sent'.message.instance = instance'
         /\ sent' \in [message : [instance : Instance, node : Nat, number : {0}],
                      above : Nat]
<1>1. myId' \in Nat \ {0} /\ passed' < myId'
  <2>1. CASE rej # {}
    BY <2>1, NewProposalIdPasses DEF Propose, TypeOK
  <2>2. CASE rej = {}
    BY <2>2 DEF Propose, TypeOK
  <2> QED  BY <2>1, <2>2
<1>2. instance \in Instance  BY DEF TypeOK
<1>3. sent' = [message |-> [instance |-> instance, node |-> myId', number |-> 0],
               above |-> passed']
  BY DEF Propose, GenerateMessage
<1> QED  BY <1>1, <1>2, <1>3 DEF Propose

\* So it re-establishes all of IInv that does not concern the other variables.
LEMMA ProposeKeepsIInv ==
  ASSUME TypeOK,
         NEW rej, NEW high \in [id : Nat, node : Nat],
         passed' \in Nat, instance' = instance,
         \/ passed' < myId
         \/ rej # {} /\ (passed' <= myId \/ passed' <= high.id),
         Propose(rej, high),
         options' = options, highest' \in [id : Nat, node : Nat],
         value' \in LogValue, valueTimer' \in BOOLEAN
  PROVE  IInv'
<1>1. /\ status' = "Propose"
      /\ myId' \in Nat \ {0}
      /\ passed' < myId'
      /\ promises' = {} /\ rejections' = {}
      /\ proposeTimer' \in Instance
      /\ sent'.above = passed' /\ sent'.message.node = myId'
      /\ sent'.message.instance = instance'
      /\ sent' \in [message : [instance : Instance, node : Nat, number : {0}],
                   above : Nat]
  BY ProposeEstablishes
<1>2. instance' \in Instance  BY DEF TypeOK
<1>3. TypeOK'  BY <1>1, <1>2 DEF TypeOK
<1>4. NumbersPassCounted'  BY <1>1 DEF NumbersPassCounted
<1>5. VotesNeedPrepare' /\ IdleHasNoTimer' /\ ProposingIsSent' /\ NumberIsAhead'
  BY <1>1 DEF VotesNeedPrepare, IdleHasNoTimer, ProposingIsSent, NumberIsAhead
<1> QED  BY <1>3, <1>4, <1>5 DEF IInv

-----------------------------------------------------------------------------
LEMMA InitEstablishesIInv == Init => IInv
<1> SUFFICES ASSUME Init PROVE IInv  OBVIOUS
<1>1. TypeOK
  <2>1. 0 \in Instance /\ NoValue \in LogValue /\ NoProposal \in [id : Nat, node : Nat]
    BY DEF Instance, LogValue, NoProposal
  <2>2. promises \subseteq {Self} /\ rejections \subseteq {Self}  BY DEF Init
  <2>3. /\ options \in Options
        /\ proposeTimer \in Instance \cup {NoTimer}
        /\ valueTimer \in BOOLEAN
    BY DEF Init
  <2>4. /\ instance \in Instance /\ status \in {"None", "Propose"}
        /\ highest \in [id : Nat, node : Nat] /\ value \in LogValue
    BY <2>1 DEF Init
  <2>5. myId \in Nat \ {0} /\ passed \in Nat  BY DEF Init
  <2>6. sent \in {NoPrepare} \cup
          [message : [instance : Instance, node : Nat, number : {0}], above : Nat]
    BY DEF Init
  <2> QED  BY <2>2, <2>3, <2>4, <2>5, <2>6 DEF TypeOK
<1> QED
  BY <1>1 DEF Init, IInv, NumbersPassCounted, VotesNeedPrepare,
              IdleHasNoTimer, ProposingIsSent, NumberIsAhead

LEMMA NextKeepsIInv == IInv /\ [Next]_vars => IInv'
<1> SUFFICES ASSUME IInv, [Next]_vars PROVE IInv'  OBVIOUS
<1>0. TypeOK /\ NumberIsAhead /\ highest \in [id : Nat, node : Nat]
  BY DEF IInv, TypeOK
<1>1. ASSUME NEW v \in Value, NewValue(v) PROVE IInv'
  <2>1. /\ options' = options /\ instance' = instance /\ highest' = highest
        /\ passed' = passed /\ valueTimer' = TRUE /\ Propose(rejections, highest)
    BY <1>1 DEF NewValue
  <2>2. value' \in LogValue  BY <1>0, <1>1 DEF NewValue, TypeOK, LogValue
  <2>3. passed' \in Nat  BY <1>0, <2>1 DEF TypeOK
  <2> QED  BY <1>0, <2>1, <2>2, <2>3, ProposeKeepsIInv DEF NumberIsAhead
<1>2. CASE ProposeTimeout
  <2>1. CASE proposeTimer = instance
    <3>1. /\ options' = options /\ instance' = instance /\ highest' = highest
          /\ value' = value /\ passed' = passed /\ valueTimer' = valueTimer
          /\ Propose(rejections, highest)
      BY <1>2, <2>1 DEF ProposeTimeout
    <3>2. passed' \in Nat /\ value' \in LogValue /\ valueTimer' \in BOOLEAN
      BY <1>0, <3>1 DEF TypeOK
    <3> QED  BY <1>0, <3>1, <3>2, ProposeKeepsIInv DEF NumberIsAhead
  <2>2. CASE proposeTimer # instance
    BY <1>2, <2>2 DEF ProposeTimeout, IInv, TypeOK, NumbersPassCounted,
         VotesNeedPrepare, IdleHasNoTimer, ProposingIsSent, NumberIsAhead
  <2> QED  BY <2>1, <2>2
<1>3. ASSUME NEW a \in Ack, HandleProposeAck(a) PROVE IInv'
  <2> DEFINE pro == IF a.rejected THEN promises ELSE promises \cup {Self}
             rej == IF a.rejected THEN rejections \cup {Self} ELSE rejections
             p == IF a.rejected THEN a.promised ELSE [id |-> a.number, node |-> a.node]
             high == TryUpdateHighest(p)
             top == IF a.promised.id > a.number THEN a.promised.id ELSE a.number
  <2>1. /\ IsForMe(a) /\ highest' = high
        /\ value' = IF ~a.rejected /\ high # highest THEN a.value ELSE value
        /\ passed' = IF a.rejected /\ top > passed THEN top ELSE passed
        /\ options' = options /\ instance' = instance /\ valueTimer' = valueTimer
    BY <1>3 DEF HandleProposeAck
  <2>2. /\ a.rejected \in BOOLEAN /\ a.node \in Nat /\ a.number \in Nat
        /\ a.instance \in Instance
        /\ a.promised \in [id : Nat, node : Nat]
        /\ a.value \in LogValue
    BY AckType
  <2>3. p \in [id : Nat, node : Nat]  BY <2>2
  <2>4. /\ high \in [id : Nat, node : Nat]
        /\ high.id >= highest.id /\ high.id >= p.id
    BY <1>0, <2>3, TryUpdateHighestRises
  <2>5. a.number = myId /\ status = "Propose"  BY <2>1 DEF IsForMe
  <2>6. passed' \in Nat /\ value' \in LogValue /\ valueTimer' \in BOOLEAN
    BY <1>0, <2>1, <2>2 DEF TypeOK
  <2>7. \/ passed' < myId
        \/ rej # {} /\ (passed' <= myId \/ passed' <= high.id)
    <3> HIDE DEF high
    <3>1. CASE a.rejected
      <4>1. rej # {} /\ p = a.promised  BY <3>1
      <4>2. passed' = passed \/ passed' = a.promised.id \/ passed' = myId
        BY <2>1, <2>5, <3>1
      <4>3. passed <= myId \/ passed <= highest.id
        BY <1>0 DEF NumberIsAhead, TypeOK
      <4>4. passed \in Nat /\ myId \in Nat /\ highest.id \in Nat /\ high.id \in Nat
        BY <1>0, <2>4 DEF TypeOK
      <4> QED  BY <2>2, <2>4, <4>1, <4>2, <4>3, <4>4
    <3>2. CASE ~a.rejected
      <4>1. rej = rejections /\ passed' = passed  BY <2>1, <3>2
      <4>2. passed \in Nat /\ myId \in Nat /\ highest.id \in Nat /\ high.id \in Nat
        BY <1>0, <2>4 DEF TypeOK
      <4> QED  BY <1>0, <2>4, <4>1, <4>2 DEF NumberIsAhead
    <3> QED  BY <2>2, <3>1, <3>2
  <2>8. CASE IsMajority(pro)
    <3>1. Propose(rej, high)  BY <1>3, <2>8 DEF HandleProposeAck
    <3> HIDE DEF high, rej
    <3> QED
      BY <1>0, <2>1, <2>4, <2>6, <2>7, <3>1, ProposeKeepsIInv
  <2>9. CASE ~IsMajority(pro)
    <3>1. /\ promises' = pro /\ rejections' = rej
          /\ proposeTimer' \in {a.instance, proposeTimer}
          /\ status' = status /\ myId' = myId /\ sent' = sent
      BY <1>3, <2>9 DEF HandleProposeAck
    <3>2. TypeOK'
      <4> HIDE DEF high
      <4> QED  BY <1>0, <2>1, <2>2, <2>4, <2>6, <3>1 DEF TypeOK
    <3>3. NumberIsAhead'
      <4> HIDE DEF high, rej
      <4> QED  BY <2>1, <2>7, <3>1 DEF NumberIsAhead
    <3>4. NumbersPassCounted'
      BY <3>1 DEF IInv, NumbersPassCounted
    <3>5. VotesNeedPrepare' /\ ProposingIsSent' /\ IdleHasNoTimer'
      BY <2>1, <2>5, <3>1
      DEF IInv, VotesNeedPrepare, ProposingIsSent, IdleHasNoTimer
    <3> QED  BY <3>2, <3>3, <3>4, <3>5 DEF IInv
  <2> QED  BY <2>8, <2>9
<1>4. ASSUME NEW a \in Ack, IgnoreAck(a) PROVE IInv'
  BY <1>4 DEF IgnoreAck, vars, IInv, TypeOK, NumbersPassCounted,
       VotesNeedPrepare, IdleHasNoTimer, ProposingIsSent, NumberIsAhead
<1>5. CASE ValueTimeout
  BY <1>5 DEF ValueTimeout, IInv, TypeOK, NumbersPassCounted,
       VotesNeedPrepare, IdleHasNoTimer, ProposingIsSent, NumberIsAhead
<1>6. CASE InstanceDone
  <2>1. TypeOK'
    BY <1>0, <1>6 DEF InstanceDone, TypeOK, Instance, NoProposal, LogValue
  <2> QED
    BY <1>6, <2>1 DEF InstanceDone, IInv, TypeOK, NumbersPassCounted,
         VotesNeedPrepare, IdleHasNoTimer, ProposingIsSent, NumberIsAhead
<1>7. ASSUME NEW i \in Instance, NEW n \in Number, Restart(i, n) PROVE IInv'
  <2>1. TypeOK'
    <3>1. FirstId(n) \in Nat \ {0}  BY DEF FirstId, Number
    <3>2. NoValue \in LogValue /\ NoProposal \in [id : Nat, node : Nat]
      BY DEF LogValue, NoProposal
    <3>3. promises' \subseteq {Self} /\ rejections' \subseteq {Self}
      BY <1>7 DEF Restart
    <3> QED  BY <1>0, <1>7, <3>1, <3>2, <3>3 DEF Restart, TypeOK
  <2> QED
    BY <1>7, <2>1 DEF Restart, IInv, TypeOK, NumbersPassCounted,
         VotesNeedPrepare, IdleHasNoTimer, ProposingIsSent, NumberIsAhead
<1>8. CASE UNCHANGED vars
  BY <1>8 DEF vars, IInv, TypeOK, NumbersPassCounted,
       VotesNeedPrepare, IdleHasNoTimer, ProposingIsSent, NumberIsAhead
<1> QED
  BY <1>1, <1>2, <1>3, <1>4, <1>5, <1>6, <1>7, <1>8 DEF Next

LEMMA IInvHolds == Spec => []IInv
  BY InitEstablishesIInv, NextKeepsIInv, PTL DEF Spec

-----------------------------------------------------------------------------
\* The proposer is type correct, its number is never the dummy and it never
\* reaches the accept phase (all of PaxProposer).
THEOREM TypeCorrect == Spec => []TypeOK
<1>1. IInv => TypeOK  BY DEF IInv
<1> QED  BY <1>1, IInvHolds, PTL

\* Every prepare has a number above all numbers of its instance whose
\* rejection HandleProposeAck counted, and above what those rejections
\* reported (Propose, NewProposalId, TryUpdateHighestProposalId).
THEOREM NumbersAlwaysPassCounted == Spec => []NumbersPassCounted
<1>1. IInv => NumbersPassCounted  BY DEF IInv
<1> QED  BY <1>1, IInvHolds, PTL

\* There are votes in the counters only while the last prepare is of this
\* instance and number: none outlives either (Propose, HandleProposeAck,
\* NewInstance).
THEOREM VotesAlwaysNeedPrepare == Spec => []VotesNeedPrepare
<1>1. IInv => VotesNeedPrepare  BY DEF IInv
<1> QED  BY <1>1, IInvHolds, PTL

\* An idle proposer has no propose timeout armed (NewValueTimeoutCallback,
\* InstanceDone).
THEOREM IdleNeverArmed == Spec => []IdleHasNoTimer
<1>1. IInv => IdleHasNoTimer  BY DEF IInv
<1> QED  BY <1>1, IInvHolds, PTL
=============================================================================
