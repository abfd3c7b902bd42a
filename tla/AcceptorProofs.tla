--------------------------- MODULE AcceptorProofs ---------------------------
(***************************************************************************)
(* The acceptor's invariants for all sets of proposal numbers, nodes and   *)
(* values and any number of instances.                                     *)
(***************************************************************************)
EXTENDS Acceptor, TLAPS

\* A handler has granted its request and has not yet sent the reply.
Granting == ~Idle /\ ~reply.rejected

\* The promise is the highest grant; a grant under way is that promise.
PromiseIsHighest ==
  /\ \A i \in 1..Len(granted) : ~Higher(granted[i].ballot, promised)
  /\ Granting =>
       /\ promised = request.ballot
       /\ \A i \in 1..Len(granted) : Higher(request.ballot, granted[i].ballot)

\* The accepted value is the last one granted, but for an acceptance that is
\* under way, and a promise under way carries it.
ValueIsLast ==
  /\ accepted.id = 0 => acceptedValue = NoValue
  /\ ~(Granting /\ request.type = "ACCEPT")
       => LastAcceptedIs(Len(granted), acceptedValue)
  /\ Granting /\ request.type = "ACCEPT" => acceptedValue = request.value
  /\ Granting /\ request.type = "PROPOSE" => reply.acceptedValue = acceptedValue

\* The record is the state, unless nothing was granted or the write failed.
RecordIsState ==
  ~unsaved /\ (granted # <<>> \/ Granting) =>
    /\ stored[instance].promised = promised
    /\ stored[instance].value = acceptedValue

DownIsIdle == ~up => Idle /\ granted = <<>>

IInv ==
  /\ TypeOK
  /\ GrantsRise
  /\ PromiseIsHighest
  /\ PromiseReportsLastAccept
  /\ ValueIsLast
  /\ RecordIsState
  /\ DownIsIdle

-----------------------------------------------------------------------------
(* Higher is a strict total order on ballots.                              *)

\* The pairs an AcceptorState can hold: ballots and the dummy.
AnyBallot == [id : Nat, node : Nat]

\* The comparison of IsHigherThanPromised is transitive.
LEMMA HigherTransitive ==
  ASSUME NEW a \in AnyBallot, NEW b \in AnyBallot, NEW c \in AnyBallot,
         Higher(a, b), Higher(b, c)
  PROVE  Higher(a, c)
BY DEF AnyBallot, Higher

\* The comparison of IsHigherThanPromised is asymmetric.
LEMMA HigherAsymmetric ==
  ASSUME NEW a \in AnyBallot, NEW b \in AnyBallot, Higher(a, b)
  PROVE  ~Higher(b, a)
BY DEF AnyBallot, Higher

\* What exceeds an upper bound exceeds everything under the bound.
LEMMA HigherThanBound ==
  ASSUME NEW a \in AnyBallot, NEW b \in AnyBallot, NEW c \in AnyBallot,
         Higher(a, b), ~Higher(c, b)
  PROVE  Higher(a, c)
BY DEF AnyBallot, Higher

\* Requests carry pairs of numbers.
LEMMA BallotNumbers == Ballot \subseteq AnyBallot /\ NoBallot \in AnyBallot
<1>1. ASSUME NEW b \in Ballot PROVE b \in AnyBallot
  BY IdAssumption DEF Ballot, AnyBallot
<1>2. NoBallot \in AnyBallot
  BY DEF NoBallot, AnyBallot
<1> QED BY <1>1, <1>2

\* What the handlers put into a reply is a reply.
LEMMA ReplyType ==
  ASSUME NEW p \in AnyBallot, NEW n \in Nat, NEW v \in LogValue
  PROVE  \A r \in BOOLEAN :
           [rejected |-> r, promised |-> p, acceptedId |-> n, acceptedValue |-> v]
             \in Reply
BY Zenon DEF Reply, AnyBallot

\* An unset reply is a reply.
LEMMA NoReplyType == NoReply \in Reply
BY ReplyType, BallotNumbers DEF NoReply, LogValue

\* ReadState(-1) finds no record: instances stay below the largest
\* instance_id_t, so PaxAcceptor::Init always gets the default entry.
LEMMA ReadsDefault == ReadState((-1) % InstanceModulus) = DefaultEntry
<1>1. (-1) % InstanceModulus = InstanceModulus - 1
  BY InstanceAssumption
<1>2. InstanceModulus - 1 \notin Instance
  BY InstanceAssumption DEF Instance
<1> QED BY <1>1, <1>2 DEF ReadState

-----------------------------------------------------------------------------
(* Type correctness.                                                       *)

\* A record written by UpdatePromised is a PaxosLogEntry.
LEMMA UpdatePromisedType ==
  ASSUME TypeOK, NEW b \in Ballot, NEW acc \in AnyBallot, NEW val \in LogValue,
         UpdatePromised(b, acc, val)
  PROVE  promised' \in Ballot /\ stored' \in [Instance -> Entry] /\ unsaved' \in BOOLEAN
<1> DEFINE e == [instance |-> instance, promised |-> b,
                 accepted |-> IF acc.id # 0 THEN [id |-> acc.id, node |-> b.node]
                                            ELSE NoBallot,
                 value |-> IF acc.id # 0 THEN val ELSE NoValue]
<1>1. e \in Entry
  BY BallotNumbers DEF TypeOK, Entry, AnyBallot, NoBallot, LogValue
<1>2. PICK ok \in BOOLEAN :
        /\ stored' = IF ok THEN [stored EXCEPT ![instance] = e] ELSE stored
        /\ unsaved' = ~ok
  BY DEF UpdatePromised, WriteState
<1> HIDE DEF e
<1>3. stored' \in [Instance -> Entry]
  BY <1>1, <1>2 DEF TypeOK
<1> QED BY <1>2, <1>3 DEF UpdatePromised

\* TypeOK is inductive.
LEMMA TypeInductive == TypeOK /\ [Next]_vars => TypeOK'
<1> SUFFICES ASSUME TypeOK, [Next]_vars PROVE TypeOK'
  OBVIOUS
<1> USE DEF TypeOK
<1>1. ASSUME NEW b \in Ballot, HandlePropose(b) PROVE TypeOK'
  <2>1. request' \in Request
    BY <1>1 DEF HandlePropose, Request, LogValue
  <2>2. CASE IsHigherThanPromised(b)
    <3>1. UpdatePromised(b, accepted, acceptedValue)
      BY <1>1, <2>2 DEF HandlePropose
    <3>2. reply' \in Reply
      <4>1. /\ accepted.id \in Nat
            /\ (IF accepted.id # 0 THEN acceptedValue ELSE NoValue) \in LogValue
        BY DEF LogValue
      <4>2. [rejected |-> FALSE, promised |-> NoBallot, acceptedId |-> accepted.id,
             acceptedValue |-> IF accepted.id # 0 THEN acceptedValue ELSE NoValue]
              \in Reply
        BY <4>1, ReplyType, BallotNumbers, Zenon
      <4> QED BY <1>1, <2>2, <4>2 DEF HandlePropose
    <3> QED BY <1>1, <2>1, <3>1, <3>2, UpdatePromisedType DEF HandlePropose, AnyBallot
  <2>3. CASE ~IsHigherThanPromised(b)
    <3>1. reply' \in Reply
      <4>1. promised \in AnyBallot /\ NoValue \in LogValue
        BY BallotNumbers DEF LogValue
      <4>2. [rejected |-> TRUE, promised |-> promised,
             acceptedId |-> 0, acceptedValue |-> NoValue] \in Reply
        BY <4>1, ReplyType
      <4> QED BY <1>1, <2>3, <4>2 DEF HandlePropose
    <3> QED BY <1>1, <2>1, <2>3, <3>1 DEF HandlePropose
  <2> QED BY <2>2, <2>3
<1>2. ASSUME NEW b \in Ballot, NEW v \in Value, HandleAccept(b, v) PROVE TypeOK'
  <2>1. request' \in Request /\ v \in LogValue
    BY <1>2 DEF HandleAccept, Request, LogValue
  <2>2. AcceptedProposal(b) \in AnyBallot
    BY BallotNumbers DEF AcceptedProposal, AnyBallot, Ballot
  <2>3. CASE IsHigherThanPromised(b)
    <3>1. UpdatePromised(b, AcceptedProposal(b), v)
      BY <1>2, <2>3 DEF HandleAccept
    <3>2. reply' \in Reply
      BY <1>2, <2>3, NoReplyType DEF HandleAccept
    <3>3. accepted' \in AnyBallot /\ acceptedValue' \in LogValue
      BY <1>2, <2>1, <2>2, <2>3 DEF HandleAccept
    <3> QED BY <1>2, <2>1, <2>2, <3>1, <3>2, <3>3, UpdatePromisedType
            DEF HandleAccept, AnyBallot
  <2>4. CASE ~IsHigherThanPromised(b)
    <3>1. reply' \in Reply
      <4>1. [id |-> promised.id, node |-> 0] \in AnyBallot /\ NoValue \in LogValue
        BY BallotNumbers DEF LogValue, AnyBallot
      <4>2. [rejected |-> TRUE, promised |-> [id |-> promised.id, node |-> 0],
             acceptedId |-> 0, acceptedValue |-> NoValue] \in Reply
        BY <4>1, ReplyType
      <4> QED BY <1>2, <2>4, <4>2 DEF HandleAccept
    <3> QED BY <1>2, <2>1, <2>4, <3>1 DEF HandleAccept, state
  <2> QED BY <2>3, <2>4
<1>3. ASSUME ReplyProposer PROVE TypeOK'
  <2>1. request \in Request
    BY <1>3 DEF ReplyProposer, Idle, NoRequest
  <2> DEFINE g == [type |-> request.type, ballot |-> request.ballot,
                   value |-> IF request.type = "PROPOSE"
                             THEN reply.acceptedValue ELSE request.value]
  <2>2. g \in Grant
    BY <2>1 DEF Request, Reply, Grant, LogValue
  <2>3. granted' = IF reply.rejected THEN granted ELSE Append(granted, g)
    BY <1>3 DEF ReplyProposer
  <2> HIDE DEF g
  <2>4. granted' \in Seq(Grant)
    BY <2>2, <2>3
  <2> QED BY <1>3, <2>4, NoReplyType DEF ReplyProposer, state
<1>4. CASE NewInstance
  <2>1. ASSUME NEW acc \in Ballot \cup {NoBallot}, NEW v \in LogValue
        PROVE  [instance |-> instance, promised |-> NoBallot,
                accepted |-> acc, value |-> v] \in Entry
    <3>1. acc \in AnyBallot /\ NoBallot \in AnyBallot
      BY BallotNumbers DEF AnyBallot, NoBallot
    <3> QED BY <3>1 DEF Entry, AnyBallot
  <2>2. stored' \in [Instance -> Entry]
    BY <1>4, <2>1 DEF NewInstance, LearnNew
  <2> QED BY <1>4, <2>2, InstanceAssumption
          DEF NewInstance, Reset, Instance, NoBallot, LogValue
<1>5. CASE Crash
  <2>1. reply' \in Reply
    BY <1>5, NoReplyType DEF Crash
  <2>2. up' \in BOOLEAN /\ unsaved' \in BOOLEAN
    BY <1>5, Zenon DEF Crash
  <2>3. granted' \in Seq(Grant)
    BY <1>5 DEF Crash
  <2> QED BY <1>5, <2>1, <2>2, <2>3 DEF Crash, Reset, NoBallot, LogValue
<1>6. CASE Start
  <2>1. /\ promised' = NoBallot /\ acceptedValue' = NoValue
        /\ accepted' = AcceptedProposal(NoBallot)
        /\ instance' \in Instance
    BY <1>6, ReadsDefault DEF Start, DefaultEntry
  <2>2. accepted' \in [id : Nat, node : Nat]
    BY <2>1 DEF AcceptedProposal, NoBallot
  <2> QED BY <1>6, <2>1, <2>2 DEF Start, LogValue
<1>7. CASE UNCHANGED vars
  BY <1>7 DEF vars, state
<1> QED BY <1>1, <1>2, <1>3, <1>4, <1>5, <1>6, <1>7 DEF Next

\* Every initial state is well typed.
LEMMA TypeInit == Init => TypeOK
<1> SUFFICES ASSUME Init PROVE TypeOK
  OBVIOUS
<1>1. DefaultEntry \in Entry
  BY InstanceAssumption DEF DefaultEntry, Entry, Instance, NoBallot, LogValue
<1>2. stored \in [Instance -> Entry]
  BY <1>1 DEF Init
<1>3. reply \in Reply
  BY NoReplyType DEF Init
<1> QED BY <1>2, <1>3, InstanceAssumption
        DEF Init, TypeOK, Instance, NoBallot, LogValue

\* The acceptor's state is always well typed.
THEOREM TypeCorrect == Spec => []TypeOK
BY TypeInit, TypeInductive, PTL DEF Spec

-----------------------------------------------------------------------------
(* The inductive invariant.                                                *)

\* What UpdatePromised leaves behind when the write succeeds.
LEMMA UpdatePromisedRecord ==
  ASSUME TypeOK, NEW b, NEW acc, NEW val, UpdatePromised(b, acc, val), ~unsaved'
  PROVE  /\ stored'[instance].promised = b
         /\ stored'[instance].value = IF acc.id # 0 THEN val ELSE NoValue
<1> DEFINE e == [instance |-> instance, promised |-> b,
                 accepted |-> IF acc.id # 0 THEN [id |-> acc.id, node |-> b.node]
                                            ELSE NoBallot,
                 value |-> IF acc.id # 0 THEN val ELSE NoValue]
<1>1. PICK ok \in BOOLEAN :
        /\ stored' = IF ok THEN [stored EXCEPT ![instance] = e] ELSE stored
        /\ unsaved' = ~ok
  BY DEF UpdatePromised, WriteState
<1>2. ok
  BY <1>1
<1>3. e.promised = b /\ e.value = IF acc.id # 0 THEN val ELSE NoValue
  OBVIOUS
<1> HIDE DEF e
<1>4. stored'[instance] = e
  BY <1>1, <1>2 DEF TypeOK
<1> QED BY <1>3, <1>4

\* Granting a request keeps the promise above every earlier grant.
LEMMA GrantIsHighest ==
  ASSUME IInv, NEW b \in Ballot, IsHigherThanPromised(b)
  PROVE  \A i \in 1..Len(granted) :
           Higher(b, granted[i].ballot) /\ ~Higher(granted[i].ballot, b)
<1> SUFFICES ASSUME NEW i \in 1..Len(granted)
             PROVE  Higher(b, granted[i].ballot) /\ ~Higher(granted[i].ballot, b)
  OBVIOUS
<1>0. granted[i] \in Grant
  BY DEF IInv, TypeOK
<1>1. granted[i].ballot \in AnyBallot /\ promised \in AnyBallot /\ b \in AnyBallot
  BY <1>0, BallotNumbers DEF IInv, TypeOK, Grant
<1>2. Higher(b, promised) /\ ~Higher(granted[i].ballot, promised)
  BY DEF IInv, PromiseIsHighest, IsHigherThanPromised
<1>3. Higher(b, granted[i].ballot)
  BY <1>1, <1>2, HigherThanBound
<1> QED BY <1>1, <1>3, HigherAsymmetric

\* Steps that leave the history alone keep what is said of it alone.
LEMMA SameHistory ==
  ASSUME IInv, granted' = granted
  PROVE  GrantsRise' /\ PromiseReportsLastAccept'
BY DEF IInv, GrantsRise, PromiseReportsLastAccept, LastAcceptedIs

\* A new instance, a crash and a start begin with an empty history.
LEMMA EmptyHistory ==
  ASSUME TypeOK', granted' = <<>>, request'.type = "NONE",
         accepted' = NoBallot, acceptedValue' = NoValue
  PROVE  IInv'
<1>1. Len(granted') = 0 /\ ~Granting'
  BY DEF Granting, Idle
<1>2. LastAcceptedIs(Len(granted), acceptedValue)'
  BY <1>1 DEF LastAcceptedIs
<1>3. GrantsRise' /\ PromiseIsHighest' /\ PromiseReportsLastAccept'
  BY <1>1 DEF GrantsRise, PromiseIsHighest, PromiseReportsLastAccept
<1>4. ValueIsLast'
  BY <1>1, <1>2 DEF ValueIsLast
<1>5. RecordIsState' /\ DownIsIdle'
  BY <1>1 DEF RecordIsState, DownIsIdle, Idle
<1> QED BY <1>3, <1>4, <1>5 DEF IInv

\* HandlePropose preserves the invariant.
LEMMA HandleProposePreserves ==
  ASSUME IInv, TypeOK', NEW b \in Ballot, HandlePropose(b)
  PROVE  IInv'
<1>1. /\ granted' = granted /\ accepted' = accepted /\ acceptedValue' = acceptedValue
      /\ instance' = instance /\ up /\ up' /\ ~Granting
      /\ request'.type = "PROPOSE" /\ request'.ballot = b
  BY DEF HandlePropose, Granting, Idle
<1>2. LastAcceptedIs(Len(granted), acceptedValue)
  BY <1>1 DEF IInv, ValueIsLast
<1>3. LastAcceptedIs(Len(granted), acceptedValue)'
  BY <1>1, <1>2 DEF LastAcceptedIs
<1>4. DownIsIdle'
  BY <1>1 DEF DownIsIdle
<1>5. CASE IsHigherThanPromised(b)
  <2>1. /\ UpdatePromised(b, accepted, acceptedValue) /\ promised' = b
        /\ reply'.rejected = FALSE
        /\ reply'.acceptedValue = IF accepted.id # 0 THEN acceptedValue ELSE NoValue
    BY <1>5 DEF HandlePropose, UpdatePromised
  <2>2. PromiseIsHighest'
    BY <1>1, <1>5, <2>1, GrantIsHighest DEF PromiseIsHighest
  <2>3. accepted.id = 0 => acceptedValue = NoValue
    BY DEF IInv, ValueIsLast
  <2>4. ValueIsLast'
    BY <1>1, <1>3, <2>1, <2>3 DEF ValueIsLast
  <2>5. RecordIsState'
    BY <1>1, <2>1, <2>3, UpdatePromisedRecord DEF RecordIsState, IInv
  <2> QED BY <1>1, <1>4, <2>2, <2>4, <2>5, SameHistory DEF IInv
<1>6. CASE ~IsHigherThanPromised(b)
  <2>1. /\ ~Granting' /\ promised' = promised /\ stored' = stored
        /\ unsaved' = unsaved
    BY <1>6 DEF HandlePropose, Granting
  <2>2. PromiseIsHighest' /\ ValueIsLast' /\ RecordIsState'
    BY <1>1, <1>3, <2>1 DEF IInv, PromiseIsHighest, ValueIsLast, RecordIsState
  <2> QED BY <1>1, <1>4, <2>2, SameHistory DEF IInv
<1> QED BY <1>5, <1>6

\* HandleAccept preserves the invariant.
LEMMA HandleAcceptPreserves ==
  ASSUME IInv, TypeOK', NEW b \in Ballot, NEW v \in Value, HandleAccept(b, v)
  PROVE  IInv'
<1>1. /\ granted' = granted /\ instance' = instance /\ up /\ up' /\ ~Granting
      /\ request'.type = "ACCEPT" /\ request'.ballot = b /\ request'.value = v
  BY DEF HandleAccept, Granting, Idle
<1>2. DownIsIdle'
  BY <1>1 DEF DownIsIdle
<1>3. CASE IsHigherThanPromised(b)
  <2>1. /\ UpdatePromised(b, AcceptedProposal(b), v) /\ promised' = b
        /\ accepted' = AcceptedProposal(b) /\ acceptedValue' = v
        /\ reply'.rejected = FALSE
    BY <1>3 DEF HandleAccept, UpdatePromised, NoReply
  <2>2. PromiseIsHighest'
    BY <1>1, <1>3, <2>1, GrantIsHighest DEF PromiseIsHighest
  <2>3. AcceptedProposal(b).id # 0
    BY IdAssumption DEF AcceptedProposal, Ballot
  <2>4. ValueIsLast'
    BY <1>1, <2>1, <2>3 DEF ValueIsLast, Granting, Idle
  <2>5. RecordIsState'
    BY <1>1, <2>1, <2>3, UpdatePromisedRecord DEF RecordIsState, IInv
  <2> QED BY <1>1, <1>2, <2>2, <2>4, <2>5, SameHistory DEF IInv
<1>4. CASE ~IsHigherThanPromised(b)
  <2>1. /\ ~Granting' /\ promised' = promised /\ accepted' = accepted
        /\ acceptedValue' = acceptedValue /\ stored' = stored /\ unsaved' = unsaved
    BY <1>4 DEF HandleAccept, Granting, state
  <2>2. LastAcceptedIs(Len(granted), acceptedValue)'
    BY <1>1, <2>1 DEF IInv, ValueIsLast, LastAcceptedIs
  <2>3. PromiseIsHighest' /\ ValueIsLast' /\ RecordIsState'
    BY <1>1, <2>1, <2>2 DEF IInv, PromiseIsHighest, ValueIsLast, RecordIsState
  <2> QED BY <1>1, <1>2, <2>3, SameHistory DEF IInv
<1> QED BY <1>3, <1>4

\* ReplyProposer preserves the invariant.
LEMMA ReplyProposerPreserves ==
  ASSUME IInv, TypeOK', ReplyProposer
  PROVE  IInv'
<1>1. /\ promised' = promised /\ accepted' = accepted /\ up
      /\ acceptedValue' = acceptedValue /\ instance' = instance
      /\ stored' = stored /\ unsaved' = unsaved /\ up' = up
      /\ ~Idle /\ ~Granting'
  BY DEF ReplyProposer, state, Granting, Idle, NoRequest
<1>2. DownIsIdle'
  BY <1>1 DEF DownIsIdle
<1>3. CASE reply.rejected
  <2>1. granted' = granted /\ ~Granting
    BY <1>3 DEF ReplyProposer, Granting
  <2>2. LastAcceptedIs(Len(granted), acceptedValue)'
    BY <1>1, <2>1 DEF IInv, ValueIsLast, LastAcceptedIs
  <2>3. PromiseIsHighest' /\ ValueIsLast' /\ RecordIsState'
    BY <1>1, <2>1, <2>2 DEF IInv, PromiseIsHighest, ValueIsLast, RecordIsState
  <2> QED BY <1>2, <2>1, <2>3, SameHistory DEF IInv
<1>4. CASE ~reply.rejected
  <2>0. PICK n \in Nat : n = Len(granted)
    BY DEF IInv, TypeOK
  <2> DEFINE g == [type |-> request.type, ballot |-> request.ballot,
                   value |-> IF request.type = "PROPOSE"
                             THEN reply.acceptedValue ELSE request.value]
  <2>1. Granting /\ granted' = Append(granted, g)
    BY <1>1, <1>4 DEF Granting, ReplyProposer
  <2>2. /\ g.type = request.type /\ g.ballot = request.ballot
        /\ g.value = IF request.type = "PROPOSE"
                     THEN reply.acceptedValue ELSE request.value
    OBVIOUS
  <2>3. request.type \in {"PROPOSE", "ACCEPT"} /\ request.ballot \in AnyBallot
    BY <1>1, BallotNumbers DEF IInv, TypeOK, Request, Idle, NoRequest
  <2> HIDE DEF g
  <2>4. /\ Len(granted') = n + 1 /\ granted'[n + 1] = g
        /\ \A i \in 1..n : granted'[i] = granted[i]
    BY <2>0, <2>1 DEF IInv, TypeOK
  <2>5. g.value = acceptedValue
    BY <2>1, <2>2, <2>3 DEF IInv, ValueIsLast
  <2>6. /\ promised = g.ballot
        /\ \A i \in 1..n : Higher(g.ballot, granted[i].ballot)
    BY <2>0, <2>1, <2>2 DEF IInv, PromiseIsHighest
  <2>7. GrantsRise'
    <3>1. \A i \in 1..n : ~Higher(granted[i].ballot, g.ballot)
      BY <2>0, <2>6 DEF IInv, PromiseIsHighest
    <3> QED BY <2>0, <2>4, <2>6, <3>1 DEF IInv, GrantsRise
  <2>8. PromiseIsHighest'
    <3>1. ~Higher(g.ballot, g.ballot)
      BY <2>2, <2>3 DEF Higher, AnyBallot
    <3>2. \A i \in 1..n : ~Higher(granted[i].ballot, promised)
      BY <2>0 DEF IInv, PromiseIsHighest
    <3> QED BY <1>1, <2>4, <2>6, <3>1, <3>2 DEF PromiseIsHighest
  <2>9. PromiseReportsLastAccept'
    <3>1. ASSUME NEW i \in 1..n, granted[i].type = "PROPOSE"
          PROVE  LastAcceptedIs(i - 1, granted[i].value)'
      <4>1. LastAcceptedIs(i - 1, granted[i].value)
        BY <2>0, <3>1 DEF IInv, PromiseReportsLastAccept
      <4> QED BY <2>4, <4>1 DEF LastAcceptedIs
    <3>2. ASSUME g.type = "PROPOSE"
          PROVE  LastAcceptedIs(n, acceptedValue)'
      <4>1. LastAcceptedIs(n, acceptedValue)
        BY <2>0, <2>2, <3>2 DEF IInv, ValueIsLast
      <4> QED BY <1>1, <2>4, <4>1 DEF LastAcceptedIs
    <3>3. ASSUME NEW i \in 1..Len(granted'), granted'[i].type = "PROPOSE"
          PROVE  LastAcceptedIs(i - 1, granted[i].value)'
      <4>1. CASE i \in 1..n
        BY <2>4, <3>1, <3>3, <4>1
      <4>2. CASE i = n + 1
        <5>1. granted'[i].value = acceptedValue' /\ i - 1 = n /\ g.type = "PROPOSE"
          BY <1>1, <2>4, <2>5, <3>3, <4>2
        <5>2. LastAcceptedIs(n, acceptedValue)'
          BY <3>2, <5>1
        <5> QED BY <5>1, <5>2 DEF LastAcceptedIs
      <4> QED BY <2>4, <4>1, <4>2
    <3> QED BY <3>3 DEF PromiseReportsLastAccept
  <2>10. LastAcceptedIs(Len(granted), acceptedValue)'
    <3>1. CASE request.type = "PROPOSE"
      <4>1. LastAcceptedIs(n, acceptedValue)
        BY <2>0, <3>1 DEF IInv, ValueIsLast
      <4>2. g.type # "ACCEPT"
        BY <2>2, <3>1
      <4> QED BY <1>1, <2>4, <4>1, <4>2 DEF LastAcceptedIs
    <3>2. CASE request.type = "ACCEPT"
      BY <1>1, <2>2, <2>4, <2>5, <3>2 DEF LastAcceptedIs
    <3> QED BY <2>3, <3>1, <3>2
  <2>11. ValueIsLast'
    BY <1>1, <2>10 DEF IInv, ValueIsLast
  <2>12. RecordIsState'
    BY <1>1, <2>1 DEF IInv, RecordIsState
  <2> QED BY <1>2, <2>7, <2>8, <2>9, <2>11, <2>12 DEF IInv
<1> QED BY <1>3, <1>4

\* The invariant is inductive.
LEMMA Inductive == IInv /\ [Next]_vars => IInv'
<1> SUFFICES ASSUME IInv, [Next]_vars PROVE IInv'
  OBVIOUS
<1>0. TypeOK'
  BY TypeInductive DEF IInv
<1>1. ASSUME NEW b \in Ballot, HandlePropose(b) PROVE IInv'
  BY <1>0, <1>1, HandleProposePreserves
<1>2. ASSUME NEW b \in Ballot, NEW v \in Value, HandleAccept(b, v) PROVE IInv'
  BY <1>0, <1>2, HandleAcceptPreserves
<1>3. CASE ReplyProposer
  BY <1>0, <1>3, ReplyProposerPreserves
<1>4. CASE NewInstance
  <2>1. /\ granted' = <<>> /\ request'.type = "NONE"
        /\ accepted' = NoBallot /\ acceptedValue' = NoValue
    BY <1>4 DEF NewInstance, Reset, Idle
  <2> QED BY <1>0, <2>1, EmptyHistory
<1>5. CASE Crash
  <2>1. /\ granted' = <<>> /\ request'.type = "NONE"
        /\ accepted' = NoBallot /\ acceptedValue' = NoValue
    BY <1>5 DEF Crash, Reset, NoRequest
  <2> QED BY <1>0, <2>1, EmptyHistory
<1>6. CASE Start
  <2>1. /\ granted' = <<>> /\ request'.type = "NONE"
    BY <1>6 DEF Start, IInv, DownIsIdle, Idle
  <2>2. accepted' = AcceptedProposal(NoBallot) /\ acceptedValue' = NoValue
    BY <1>6, ReadsDefault DEF Start, DefaultEntry
  <2>3. AcceptedProposal(NoBallot) = NoBallot
    BY DEF AcceptedProposal, NoBallot
  <2> QED BY <1>0, <2>1, <2>2, <2>3, EmptyHistory
<1>7. CASE UNCHANGED vars
  BY <1>7 DEF vars, state, IInv, TypeOK, GrantsRise, PromiseIsHighest,
     PromiseReportsLastAccept, LastAcceptedIs, ValueIsLast, RecordIsState,
     DownIsIdle, Granting, Idle
<1> QED BY <1>1, <1>2, <1>3, <1>4, <1>5, <1>6, <1>7 DEF Next

\* The invariant holds initially.
LEMMA InitInvariant == Init => IInv
<1> SUFFICES ASSUME Init PROVE IInv
  OBVIOUS
<1>1. TypeOK
  BY TypeInit
<1>2. Len(granted) = 0 /\ ~Granting /\ granted = <<>> /\ Idle
      /\ acceptedValue = NoValue
  BY DEF Init, Granting, Idle, NoRequest
<1>3. LastAcceptedIs(Len(granted), acceptedValue)
  BY <1>2 DEF LastAcceptedIs
<1>4. GrantsRise /\ PromiseIsHighest /\ PromiseReportsLastAccept
  BY <1>2 DEF GrantsRise, PromiseIsHighest, PromiseReportsLastAccept
<1>5. ValueIsLast /\ RecordIsState /\ DownIsIdle
  BY <1>2, <1>3 DEF ValueIsLast, RecordIsState, DownIsIdle
<1> QED BY <1>1, <1>4, <1>5 DEF IInv

\* The invariant always holds.
LEMMA Invariance == Spec => []IInv
BY InitInvariant, Inductive, PTL DEF Spec

-----------------------------------------------------------------------------
(* The results.                                                            *)

\* HandlePropose and HandleAccept grant nothing below an earlier grant, and
\* nothing of one kind twice, whatever requests arrive and in whatever order.
THEOREM GrantsAlwaysRise == Spec => []GrantsRise
<1>1. IInv => GrantsRise
  BY DEF IInv
<1> QED BY <1>1, Invariance, PTL

\* A promise reports the last acceptance of its instance.
THEOREM PromisesReportLastAccept == Spec => []PromiseReportsLastAccept
<1>1. IInv => PromiseReportsLastAccept
  BY DEF IInv
<1> QED BY <1>1, Invariance, PTL

\* A grant that has been sent is on record.
THEOREM RecordAlwaysCoversGrants == Spec => []RecordCoversGrants
<1>1. IInv => RecordCoversGrants
  <2> SUFFICES ASSUME IInv, ~unsaved, granted # <<>> PROVE
        /\ \A i \in 1..Len(granted) :
             ~Higher(granted[i].ballot, stored[instance].promised)
        /\ Idle => LastAcceptedIs(Len(granted), stored[instance].value)
    BY DEF RecordCoversGrants
  <2>1. /\ stored[instance].promised = promised
        /\ stored[instance].value = acceptedValue
    BY DEF IInv, RecordIsState
  <2>2. \A i \in 1..Len(granted) : ~Higher(granted[i].ballot, promised)
    BY DEF IInv, PromiseIsHighest
  <2>3. Idle => LastAcceptedIs(Len(granted), acceptedValue)
    BY DEF IInv, ValueIsLast, Granting
  <2> QED BY <2>1, <2>2, <2>3
<1> QED BY <1>1, Invariance, PTL

=============================================================================
