-------------------------- MODULE SchedulerProofs ---------------------------
(***************************************************************************)
(* The scheduler's invariants for all delays and any lateness.             *)
(***************************************************************************)
EXTENDS Scheduler, TLAPS

\* The learner's event waits in the queue.
LearnerQueued(q) == \E e \in q : e.type = ShallLearn /\ e.live

\* How far the publishing of the learner's first event is, and that from then
\* on it is in the queue, or its callback is about to put it there again,
\* unless it was thrown away before it was live.
LearnerArmed ==
  /\ starting = "before" => queue = {} /\ ~lost
  /\ starting = "pushed" =>
       /\ \A e \in queue : e.type = ShallLearn /\ ~e.live
       /\ lost \/ queue # {}
  /\ starting = "done" =>
       lost \/ LearnerQueued(queue) \/ (pc = "callback" /\ running.type = ShallLearn)

\* While Dispatch pops, everything in the queue is due, not only the front.
AllDue == pc = "pop" => starting # "before" /\ \A e \in queue : e.left <= 0

\* NextEventTime empties the queue only when that first event was lost.
EmptiedIsLost == pc = "emptied" => lost /\ running \in Event

\* Events, messages and values are handled after PaxLearner::Init only.
HandledAfterInit == pc \in {"callback", "handler", "newvalue"} => starting = "done"

IInv ==
  /\ TypeOK
  /\ LearnerArmed
  /\ AllDue
  /\ EmptiedIsLost
  /\ HandledAfterInit
  /\ NeverEarly

-----------------------------------------------------------------------------
(* What AddEvent and Remove do to a queue.                                 *)

\* Remove yields events, and the learner's event stays live when it is not
\* among the types removed.
LEMMA RemoveFacts ==
  ASSUME NEW q \in SUBSET Event, NEW T
  PROVE  /\ Remove(q, T) \subseteq Event
         /\ ShallLearn \notin T /\ LearnerQueued(q) => LearnerQueued(Remove(q, T))
<1> DEFINE stale(e) == [e EXCEPT !.live = e.live /\ e.type \notin T]
<1>1. ASSUME NEW e \in q
      PROVE  /\ stale(e) \in Event
             /\ stale(e).type = e.type
             /\ e.live /\ e.type \notin T => stale(e).live
  <2>1. e \in [type : EventType, left : Int, live : BOOLEAN]
    BY DEF Event
  <2>2. (e.live /\ e.type \notin T) \in BOOLEAN
    OBVIOUS
  <2>3. stale(e) \in Event
    BY <2>1, <2>2, Zenon DEF Event
  <2>4. stale(e).type = e.type /\ stale(e).live = (e.live /\ e.type \notin T)
    BY <2>1
  <2> QED BY <2>3, <2>4
<1>2. Remove(q, T) = {stale(e) : e \in q}
  BY DEF Remove
<1> HIDE DEF stale
<1> QED BY <1>1, <1>2 DEF LearnerQueued

\* AddEvent yields events, keeps the learner's event and adds one when asked.
LEMMA AddEventFacts ==
  ASSUME NEW q \in SUBSET Event, NEW t \in EventType
  PROVE  /\ AddEvent(q, t) \subseteq Event
         /\ LearnerQueued(q) => LearnerQueued(AddEvent(q, t))
         /\ LearnerQueued(AddEvent(q, ShallLearn))
<1> DEFINE new(u) == [type |-> u, left |-> Delay(u), live |-> TRUE]
<1>1. \A u \in EventType : Delay(u) \in Int
  BY DelayAssumption DEF Delay
<1>2. \A u \in EventType : new(u) \in Event
  BY <1>1, Zenon DEF Event
<1>3. \A u : new(u).type = u /\ new(u).live
  OBVIOUS
<1>4. \A u : AddEvent(q, u) = Remove(q, {u}) \cup {new(u)}
  BY DEF AddEvent
<1>5. \A T : Remove(q, T) \subseteq Event
  BY RemoveFacts
<1> HIDE DEF new
<1>6. LearnerQueued(AddEvent(q, ShallLearn))
  BY <1>3, <1>4 DEF LearnerQueued
<1>7. LearnerQueued(q) => LearnerQueued(AddEvent(q, t))
  <2>1. CASE t = ShallLearn
    BY <1>6, <2>1
  <2>2. CASE t # ShallLearn
    <3>1. LearnerQueued(q) => LearnerQueued(Remove(q, {t}))
      BY <2>2, RemoveFacts
    <3> QED BY <1>4, <3>1 DEF LearnerQueued
  <2> QED BY <2>1, <2>2
<1> QED BY <1>2, <1>4, <1>5, <1>6, <1>7

\* The fields of an event.
LEMMA EventFields ==
  ASSUME NEW e \in Event
  PROVE  e.type \in EventType /\ e.left \in Int /\ e.live \in BOOLEAN
BY DEF Event

-----------------------------------------------------------------------------
(* The inductive invariant.                                                *)

\* The main loop starts with an empty queue.
LEMMA InitIInv == Init => IInv
<1> SUFFICES ASSUME Init PROVE IInv
  OBVIOUS
<1>1. TypeOK
  <2>1. lost \in BOOLEAN /\ ~lost
    BY Zenon DEF Init
  <2> QED BY <2>1 DEF Init, TypeOK
<1>2. LearnerArmed /\ AllDue /\ EmptiedIsLost /\ HandledAfterInit /\ NeverEarly
  BY DEF Init, LearnerArmed, AllDue, EmptiedIsLost, HandledAfterInit, NeverEarly
<1> QED BY <1>1, <1>2 DEF IInv

\* The clock preserves the types, the learner's event and what is due.
LEMMA TickStep ==
  ASSUME IInv, Tick
  PROVE  IInv'
<1> DEFINE later(e) == [e EXCEPT !.left = IF e.left > -MaxLate THEN e.left - 1 ELSE e.left]
<1>1. TypeOK /\ queue \subseteq Event
  BY DEF IInv, TypeOK
<1>2. queue' = {later(e) : e \in queue}
  BY DEF Tick
<1>3. pc' = pc /\ running' = running /\ starting' = starting /\ lost' = lost
  BY DEF Tick, startVars
<1>4. ASSUME NEW e \in queue
      PROVE  /\ later(e) \in Event /\ later(e).type = e.type /\ later(e).live = e.live
             /\ e.left <= 0 => later(e).left <= 0
  <2>1. e \in [type : EventType, left : Int, live : BOOLEAN]
    BY <1>1 DEF Event
  <2>2. PICK n \in Int : /\ n = IF e.left > -MaxLate THEN e.left - 1 ELSE e.left
                         /\ e.left <= 0 => n <= 0
    BY <2>1, DelayAssumption
  <2>3. later(e) = [e EXCEPT !.left = n]
    BY <2>2
  <2>4. later(e) \in Event
    BY <2>1, <2>3, Zenon DEF Event
  <2>5. later(e).type = e.type /\ later(e).live = e.live /\ later(e).left = n
    BY <2>1, <2>3
  <2> QED BY <2>2, <2>4, <2>5
<1> HIDE DEF later
<1>5. queue' \subseteq Event
  BY <1>2, <1>4
<1>6. wait' \in Int
  BY <1>1 DEF Tick, TypeOK
<1>7. TypeOK'
  BY <1>1, <1>3, <1>5, <1>6 DEF TypeOK
<1>8. LearnerQueued(queue) => LearnerQueued(queue')
  BY <1>2, <1>4 DEF LearnerQueued
<1>9. LearnerArmed'
  BY <1>2, <1>3, <1>4, <1>8 DEF IInv, LearnerArmed
<1>10. AllDue' /\ EmptiedIsLost' /\ HandledAfterInit' /\ NeverEarly'
  BY <1>2, <1>3, <1>4 DEF IInv, AllDue, EmptiedIsLost, HandledAfterInit, NeverEarly
<1> QED BY <1>7, <1>9, <1>10 DEF IInv

\* A step outside of Dispatch that leaves the queue as it is or, after
\* PaxLearner::Init, changes it by AddEvent or by Remove of the proposer's
\* timeouts, preserves the invariant.
LEMMA QueueStep ==
  ASSUME IInv, pc # "callback", starting' = starting, lost' = lost,
         running' \in Event \cup {NoEvent}, wait' \in Int, queue' \subseteq Event,
         LearnerQueued(queue) => LearnerQueued(queue'),
         queue' = queue \/ starting = "done",
         pc' \in {"dispatch", "next", "take", "handler", "trynew", "newvalue"},
         pc' \in {"handler", "newvalue"} => starting = "done"
  PROVE  IInv'
<1>1. TypeOK'
  BY DEF IInv, TypeOK
<1>2. LearnerArmed'
  BY DEF IInv, LearnerArmed
<1>3. AllDue' /\ EmptiedIsLost' /\ HandledAfterInit' /\ NeverEarly'
  BY DEF AllDue, EmptiedIsLost, HandledAfterInit, NeverEarly
<1> QED BY <1>1, <1>2, <1>3 DEF IInv

\* A stale event thrown away is either not the learner's, or lost.
LEMMA ThrowAwayStep ==
  ASSUME IInv, pc \in {"pop", "next"}, starting' = starting, ThrowAway,
         NEW e \in queue, ~e.live, queue' = queue \ {e}
  PROVE  /\ LearnerArmed' /\ lost' \in BOOLEAN
         /\ queue' = {} => lost'
         /\ starting # "before"
<1>1. starting \in {"pushed", "done"} /\ pc # "callback" /\ (lost => lost')
  BY Zenon DEF IInv, TypeOK, LearnerArmed, ThrowAway
<1>2. lost' \in BOOLEAN
  BY Zenon DEF ThrowAway
<1>3. CASE starting = "pushed"
  <2>1. lost'
    BY <1>3, Zenon DEF ThrowAway
  <2> QED BY <1>2, <1>3, <2>1 DEF IInv, LearnerArmed
<1>4. CASE starting = "done"
  <2>1. LearnerQueued(queue) => LearnerQueued(queue')
    BY DEF LearnerQueued
  <2>2. lost \/ LearnerQueued(queue)
    BY <1>1, <1>4 DEF IInv, LearnerArmed
  <2>3. lost' \/ LearnerQueued(queue')
    BY <1>1, <2>1, <2>2
  <2> QED BY <1>2, <1>4, <2>3 DEF LearnerArmed, LearnerQueued
<1> QED BY <1>1, <1>3, <1>4

\* Dispatch pops events that are all due; a live one is run.
LEMMA PopStep ==
  ASSUME IInv, PopOne
  PROVE  IInv'
<1>1. /\ TypeOK /\ queue \in SUBSET Event
      /\ pc = "pop" /\ starting # "before" /\ wait' = wait /\ starting' = starting
      /\ \A f \in queue : f.left <= 0
  BY DEF IInv, TypeOK, AllDue, PopOne
<1>2. ASSUME NEW e \in queue, queue' = queue \ {e}, ~e.live, ThrowAway,
             pc' = pc, running' = running
      PROVE  IInv'
  <2>1. LearnerArmed' /\ lost' \in BOOLEAN
    BY <1>1, <1>2, ThrowAwayStep
  <2>2. TypeOK'
    BY <1>1, <1>2, <2>1 DEF TypeOK
  <2>3. AllDue' /\ EmptiedIsLost' /\ HandledAfterInit' /\ NeverEarly'
    BY <1>1, <1>2 DEF AllDue, EmptiedIsLost, HandledAfterInit, NeverEarly
  <2> QED BY <2>1, <2>2, <2>3 DEF IInv
<1>3. ASSUME NEW e \in queue, queue' = queue \ {e}, e.live, lost' = lost,
             pc' = "callback", running' = e
      PROVE  IInv'
  <2>1. starting = "done"
    BY <1>1, <1>3 DEF IInv, TypeOK, LearnerArmed
  <2>2. lost \/ LearnerQueued(queue)
    BY <1>1, <2>1 DEF IInv, LearnerArmed
  <2>3. lost \/ LearnerQueued(queue') \/ e.type = ShallLearn
    BY <1>3, <2>2 DEF LearnerQueued
  <2>4. LearnerArmed'
    BY <1>1, <1>3, <2>1, <2>3 DEF LearnerArmed
  <2>5. TypeOK'
    BY <1>1, <1>3 DEF TypeOK
  <2>6. AllDue' /\ EmptiedIsLost' /\ HandledAfterInit' /\ NeverEarly'
    BY <1>1, <1>3, <2>1 DEF AllDue, EmptiedIsLost, HandledAfterInit, NeverEarly
  <2> QED BY <2>4, <2>5, <2>6 DEF IInv
<1>4. CASE queue = {} /\ pc' = "next" /\ UNCHANGED <<queue, running, lost>>
  <2>1. running' \in Event \cup {NoEvent} /\ wait' \in Int
    BY <1>1, <1>4 DEF TypeOK
  <2> QED BY <1>1, <1>4, <2>1, QueueStep
<1> QED BY <1>2, <1>3, <1>4 DEF PopOne

\* NextEventTime throws stale events away; it empties the queue only when the
\* learner's first event was among them.
LEMMA NextEventTimeStep ==
  ASSUME IInv, NextEventTime
  PROVE  IInv'
<1>1. /\ TypeOK /\ queue \in SUBSET Event /\ pc = "next" /\ starting' = starting
      /\ wait \in Int /\ running \in Event \cup {NoEvent}
  BY DEF IInv, TypeOK, NextEventTime
<1>2. CASE queue = {} /\ wait' = DefaultWait /\ pc' = "take" /\ UNCHANGED <<queue, running, lost>>
  <2>1. wait' \in Int
    BY <1>2, DelayAssumption
  <2> QED BY <1>1, <1>2, <2>1, QueueStep
<1>3. ASSUME NEW e \in queue, ~e.live, queue' = queue \ {e}, ThrowAway,
             \/ queue' # {} /\ UNCHANGED <<pc, running, wait>>
             \/ queue' = {} /\ pc' = "emptied" /\ running' = e /\ wait' = e.left
      PROVE  IInv'
  <2>1. LearnerArmed' /\ lost' \in BOOLEAN /\ (queue' = {} => lost') /\ starting # "before"
    BY <1>1, <1>3, ThrowAwayStep
  <2>2. wait' \in Int /\ running' \in Event \cup {NoEvent} /\ pc' \in {"next", "emptied"}
    BY <1>1, <1>3, EventFields
  <2>3. TypeOK'
    BY <1>1, <1>3, <2>1, <2>2 DEF TypeOK
  <2>4. AllDue' /\ EmptiedIsLost' /\ HandledAfterInit' /\ NeverEarly'
    BY <1>1, <1>3, <2>1 DEF AllDue, EmptiedIsLost, HandledAfterInit, NeverEarly
  <2> QED BY <2>1, <2>3, <2>4 DEF IInv
<1>4. ASSUME NEW e \in queue, wait' = e.left, pc' = "take", UNCHANGED <<queue, running, lost>>
      PROVE  IInv'
  <2>1. wait' \in Int
    BY <1>1, <1>4, EventFields
  <2> QED BY <1>1, <1>4, <2>1, QueueStep
<1> QED BY <1>2, <1>3, <1>4 DEF NextEventTime

\* The two steps in which PaxLearner::Init publishes its event.
LEMMA LearnerInitStep ==
  ASSUME IInv, LearnerPush \/ LearnerSetId
  PROVE  IInv'
<1>1. TypeOK /\ queue \in SUBSET Event
  BY DEF IInv, TypeOK
<1>2. CASE LearnerPush
  <2> DEFINE new == [type |-> ShallLearn, left |-> Delay(ShallLearn), live |-> FALSE]
  <2>1. new \in Event
    <3>1. Delay(ShallLearn) \in Int /\ ShallLearn \in EventType
      BY DelayAssumption DEF Delay, EventType
    <3> QED BY <3>1, Zenon DEF Event
  <2>2. new.type = ShallLearn /\ ~new.live
    OBVIOUS
  <2>3. queue' = queue \cup {new}
    BY <1>2 DEF LearnerPush
  <2> HIDE DEF new
  <2>4. /\ starting = "before" /\ starting' = "pushed" /\ queue' = {new}
        /\ pc' = pc /\ running' = running /\ wait' = wait /\ lost' = lost
        /\ pc \notin {"pop", "callback", "handler", "newvalue", "emptied"}
    BY <1>2, <2>3 DEF LearnerPush, IInv, LearnerArmed, AllDue, EmptiedIsLost, HandledAfterInit
  <2>5. TypeOK'
    BY <1>1, <2>1, <2>4 DEF TypeOK
  <2>6. LearnerArmed'
    BY <2>2, <2>4 DEF LearnerArmed
  <2>7. AllDue' /\ EmptiedIsLost' /\ HandledAfterInit' /\ NeverEarly'
    BY <2>4 DEF AllDue, EmptiedIsLost, HandledAfterInit, NeverEarly
  <2> QED BY <2>5, <2>6, <2>7 DEF IInv
<1>3. CASE LearnerSetId
  <2> DEFINE alive(e) == [e EXCEPT !.live = TRUE]
  <2>1. /\ starting = "pushed" /\ starting' = "done" /\ queue' = {alive(e) : e \in queue}
        /\ running' = IF pc = "emptied" THEN alive(running) ELSE running
        /\ pc' = pc /\ wait' = wait /\ lost' = lost
    BY <1>3 DEF LearnerSetId
  <2>2. ASSUME NEW e \in Event
        PROVE  alive(e) \in Event /\ alive(e).type = e.type /\ alive(e).left = e.left /\ alive(e).live
    <3>1. e \in [type : EventType, left : Int, live : BOOLEAN]
      BY DEF Event
    <3>2. alive(e) \in Event
      BY <3>1, Zenon DEF Event
    <3>3. alive(e).type = e.type /\ alive(e).left = e.left /\ alive(e).live
      BY <3>1
    <3> QED BY <3>2, <3>3
  <2> HIDE DEF alive
  <2>3. pc \notin {"callback", "handler", "newvalue"} /\ (pc = "emptied" => lost /\ running \in Event)
    BY <2>1 DEF IInv, HandledAfterInit, EmptiedIsLost
  <2>4. running' \in Event \cup {NoEvent} /\ (pc = "emptied" => running' \in Event)
    BY <1>1, <2>1, <2>2, <2>3 DEF TypeOK
  <2>5. queue' \subseteq Event
    BY <1>1, <2>1, <2>2
  <2>6. TypeOK'
    BY <1>1, <2>1, <2>4, <2>5 DEF TypeOK
  <2>7. lost \/ LearnerQueued(queue')
    BY <1>1, <2>1, <2>2 DEF IInv, LearnerArmed, LearnerQueued
  <2>8. LearnerArmed'
    BY <2>1, <2>7 DEF LearnerArmed
  <2>9. AllDue' /\ EmptiedIsLost' /\ HandledAfterInit' /\ NeverEarly'
    BY <1>1, <2>1, <2>2, <2>3, <2>4 DEF IInv, AllDue, EmptiedIsLost, HandledAfterInit, NeverEarly
  <2> QED BY <2>6, <2>8, <2>9 DEF IInv
<1> QED BY <1>2, <1>3

\* Every step preserves the invariant.
LEMMA NextIInv == IInv /\ [Next]_vars => IInv'
<1> SUFFICES ASSUME IInv, [Next]_vars PROVE IInv'
  OBVIOUS
<1>t. /\ TypeOK /\ queue \in SUBSET Event /\ wait \in Int
      /\ running \in Event \cup {NoEvent} /\ NoEvent \in Event \cup {NoEvent}
  BY DEF IInv, TypeOK
<1>1. CASE Dispatch
  <2>1. CASE HasTimeout
    <3>1. pc' = "pop" /\ UNCHANGED <<queue, running, wait, starting, lost>> /\ pc = "dispatch"
      BY <1>1, <2>1 DEF Dispatch, startVars
    <3>2. \A e \in queue : e.left <= 0
      BY <1>t, <2>1, EventFields DEF HasTimeout, Front
    <3>3. starting # "before"
      BY <1>t, <2>1 DEF HasTimeout, IInv, LearnerArmed
    <3>4. TypeOK'
      BY <1>t, <3>1 DEF TypeOK
    <3>5. LearnerArmed' /\ AllDue' /\ EmptiedIsLost' /\ HandledAfterInit' /\ NeverEarly'
      BY <3>1, <3>2, <3>3
         DEF IInv, LearnerArmed, AllDue, EmptiedIsLost, HandledAfterInit, NeverEarly
    <3> QED BY <3>4, <3>5 DEF IInv
  <2>2. CASE ~HasTimeout
    BY <1>t, <1>1, <2>2, QueueStep DEF Dispatch, startVars
  <2> QED BY <2>1, <2>2
<1>2. CASE PopOne
  BY <1>2, PopStep
<1>3. CASE RunCallback
  <2>1. /\ pc = "callback" /\ pc' = "dispatch" /\ running' = NoEvent
        /\ wait' = wait /\ starting' = starting /\ lost' = lost
    BY <1>3 DEF RunCallback, startVars
  <2>2. /\ queue' \subseteq Event
        /\ LearnerQueued(queue) => LearnerQueued(queue')
        /\ running.type = ShallLearn => LearnerQueued(queue')
    <3>1. ShallLearn \notin ProposerTimeout /\ NewValueTimeout # ShallLearn
      BY TypeAssumption
    <3>2. ProposeTimeout \in EventType /\ ShallLearn \in EventType
      BY DEF EventType, ProposerTimeout
    <3>3. CASE running.type \in ProposerTimeout /\ queue' \in {AddEvent(queue, ProposeTimeout), queue}
      BY <1>t, <3>1, <3>2, <3>3, AddEventFacts
    <3>4. CASE running.type = NewValueTimeout /\ queue' \in {Remove(queue, ProposerTimeout), queue}
      BY <1>t, <3>1, <3>4, RemoveFacts
    <3>5. CASE running.type = ShallLearn /\ queue' = AddEvent(queue, ShallLearn)
      BY <1>t, <3>2, <3>5, AddEventFacts
    <3> QED BY <1>3, <3>3, <3>4, <3>5 DEF RunCallback
  <2>3. starting = "done"
    BY <2>1 DEF IInv, HandledAfterInit
  <2>4. TypeOK'
    BY <1>t, <2>1, <2>2 DEF TypeOK
  <2>5. LearnerArmed' /\ AllDue' /\ EmptiedIsLost' /\ HandledAfterInit' /\ NeverEarly'
    BY <2>1, <2>2, <2>3
       DEF IInv, LearnerArmed, AllDue, EmptiedIsLost, HandledAfterInit, NeverEarly
  <2> QED BY <2>4, <2>5 DEF IInv
<1>4. CASE NextEventTime
  BY <1>4, NextEventTimeStep
<1>5. CASE ReadDestroyed
  BY <1>t, <1>5, QueueStep DEF ReadDestroyed, startVars
<1>6. CASE TakeTimeout
  BY <1>t, <1>6, QueueStep DEF TakeTimeout, startVars
<1>7. CASE HandlerReturn
  BY <1>t, <1>7, QueueStep DEF HandlerReturn, startVars
<1>8. CASE TryNewValue
  BY <1>t, <1>8, QueueStep DEF TryNewValue, startVars
<1>9. CASE NewValueReturn
  BY <1>t, <1>9, QueueStep DEF NewValueReturn, startVars
<1>10. CASE TakeMessage
  BY <1>t, <1>10, QueueStep DEF TakeMessage, startVars
<1>11. CASE HandlerCall
  <2>1. starting = "done"
    BY <1>11 DEF HandlerCall, IInv, HandledAfterInit
  <2>2. ShallLearn \notin ProposerTimeout /\ ProposerTimeout \cup {ShallLearn} \subseteq EventType
    BY TypeAssumption DEF EventType
  <2>3. queue' \subseteq Event /\ (LearnerQueued(queue) => LearnerQueued(queue'))
    <3>1. ASSUME NEW t \in ProposerTimeout \cup {ShallLearn}, queue' = AddEvent(queue, t)
          PROVE  queue' \subseteq Event /\ (LearnerQueued(queue) => LearnerQueued(queue'))
      BY <1>t, <2>2, <3>1, AddEventFacts
    <3>2. CASE queue' = Remove(queue, ProposerTimeout)
      BY <1>t, <2>2, <3>2, RemoveFacts
    <3> QED BY <1>11, <3>1, <3>2 DEF HandlerCall
  <2> QED BY <1>t, <1>11, <2>1, <2>3, QueueStep DEF HandlerCall, startVars
<1>12. CASE NewValue
  <2>1. NewValueTimeout \in EventType /\ ProposeTimeout \in EventType
    BY DEF EventType, ProposerTimeout
  <2>2. PICK q : q = AddEvent(queue, NewValueTimeout)
    OBVIOUS
  <2>3. q \subseteq Event /\ (LearnerQueued(queue) => LearnerQueued(q))
    BY <1>t, <2>1, <2>2, AddEventFacts
  <2>4. queue' = AddEvent(q, ProposeTimeout)
    BY <1>12, <2>2 DEF NewValue
  <2>5. queue' \subseteq Event /\ (LearnerQueued(queue) => LearnerQueued(queue'))
    BY <2>1, <2>3, <2>4, AddEventFacts
  <2> QED BY <1>t, <1>12, <2>5, QueueStep DEF NewValue, startVars
<1>13. CASE LearnerPush \/ LearnerSetId
  BY <1>13, LearnerInitStep
<1>14. CASE Tick
  BY <1>14, TickStep
<1>15. CASE UNCHANGED vars
  BY <1>15 DEF vars, IInv, TypeOK, LearnerArmed, AllDue, EmptiedIsLost, HandledAfterInit, NeverEarly
<1> QED BY <1>1, <1>2, <1>3, <1>4, <1>5, <1>6, <1>7, <1>8, <1>9, <1>10, <1>11, <1>12,
           <1>13, <1>14, <1>15 DEF Next, LoopStep

\* The invariant holds in every state.
LEMMA IInvAlways == Spec => []IInv
BY InitIInv, NextIInv, PTL DEF Spec

-----------------------------------------------------------------------------
(* The theorems.                                                           *)

\* Every variable has its type.
THEOREM TypeCorrect == Spec => []TypeOK
<1>1. IInv => TypeOK
  BY DEF IInv
<1> QED BY <1>1, IInvAlways, PTL

\* No callback runs before its time, for all delays (HasTimeout, Dispatch).
THEOREM EventsNeverEarly == Spec => []NeverEarly
<1>1. IInv => NeverEarly
  BY DEF IInv
<1> QED BY <1>1, IInvAlways, PTL

\* Unless the event of PaxLearner::Init is thrown away between its push and
\* its id, the queue never holds stale events only, so Dispatch finds an event
\* when the front is due and NextEventTime never reads an emptied queue.
THEOREM QueueAlwaysKeepsLive == Spec => []QueueKeepsLive
<1>1. IInv => QueueKeepsLive
  BY DEF IInv, TypeOK, LearnerArmed, LearnerQueued, EmptiedIsLost, QueueKeepsLive
<1> QED BY <1>1, IInvAlways, PTL

=============================================================================
