----------------------------- MODULE Scheduler ------------------------------
(***************************************************************************)
(* The Scheduler (src/util/schedule.cpp) with its EventQueue (event.cpp),  *)
(* as PaxController::MainLoop drives it: the timeouts the proposer         *)
(* publishes and withdraws, and the learner's event, which re-launches     *)
(* itself.                                                                 *)
(*                                                                         *)
(* Time is counted from now: an event's "left" is the time until it is     *)
(* due, negative when it is late, and every tick takes one from it.  An    *)
(* event is live when eventTypeIdMap_ holds its id; ids serve no other     *)
(* purpose and are left out.  Two stale events that agree in all else are  *)
(* one: stale events are only ever thrown away.                            *)
(*                                                                         *)
(* Two threads use the queue, without a lock: the main loop, and once, at  *)
(* start-up, the thread of PaxController::Init, whose AddEvent pushes the  *)
(* learner's first event in one step and makes it live in another.         *)
(***************************************************************************)
EXTENDS Integers

CONSTANTS
  ProposeTimeout,    \* kEVENT_PROPOSE_TIMEOUT
  AcceptTimeout,     \* kEVENT_ACCEPT_TIMEOUT
  NewValueTimeout,   \* kEVENT_NEWVALUE_TIMEOUT
  ShallLearn,        \* kEVENT_SHALL_I_LEARN
  ProposeDelay,      \* PROPOSE_TIMEOUT_CONST, ACCEPT_TIMEOUT_CONST
  NewValueDelay,     \* GetNewValueTimeout()
  LearnDelay,        \* SHALL_LEARN_TIMEOUT_CONST
  DefaultWait,       \* the 500 ms of MainLoop
  MaxLate            \* bound: an event this late does not get later

ProposerTimeout == {ProposeTimeout, AcceptTimeout}
EventType == ProposerTimeout \cup {NewValueTimeout, ShallLearn}

ASSUME TypeAssumption ==
  /\ ProposeTimeout # AcceptTimeout
  /\ NewValueTimeout \notin ProposerTimeout
  /\ ShallLearn \notin ProposerTimeout \cup {NewValueTimeout}

ASSUME DelayAssumption ==
  /\ ProposeDelay \in Nat \ {0}
  /\ NewValueDelay \in Nat \ {0}
  /\ LearnDelay \in Nat \ {0}
  /\ DefaultWait \in Nat \ {0}
  /\ MaxLate \in Nat

VARIABLES
  queue,     \* events_ of the EventQueue
  pc,        \* where MainLoop is
  running,   \* the event whose callback runs
  wait,      \* what is left of Take's waiting time, below 0 for a late event
  starting,  \* how far PaxLearner::Init is with publishing its event
  lost       \* history: that event was thrown away before it was live

vars == <<queue, pc, running, wait, starting, lost>>
startVars == <<starting, lost>>

Event == [type : EventType, left : Int, live : BOOLEAN]
NoEvent == [type |-> "kNULL", left |-> 0, live |-> FALSE]

-----------------------------------------------------------------------------
(* EventQueue and Scheduler.                                               *)

\* Mutant: the earliest event comes first.
EarliestFirst(e) == e \in queue /\ \A f \in queue : e.left <= f.left

\* The front of the heap.  Event's operator< compares "when", and push_heap
\* and pop_heap keep the greatest in front: the latest event.
Front(e) == e \in queue /\ \A f \in queue : f.left <= e.left

\* HasTimeout: the front is due.
HasTimeout == \E e \in queue : Front(e) /\ e.left <= 0

Delay(t) ==
  IF t = ShallLearn THEN LearnDelay
  ELSE IF t = NewValueTimeout THEN NewValueDelay ELSE ProposeDelay

\* Mutant: Remove forgets the learner's event too.
RemoveAll(q, T) == {[e EXCEPT !.live = FALSE] : e \in q}

\* Remove, for the types in T: their ids are erased from the map.
Remove(q, T) == {[e EXCEPT !.live = e.live /\ e.type \notin T] : e \in q}

\* Mutant: the new event keeps the type its constructor gives it.
AddEventUntyped(q, t) ==
  Remove(q, {t}) \cup {[type |-> "kNULL", left |-> Delay(t), live |-> TRUE]}

\* AddEvent, called by the main loop, where nothing comes between the push
\* and the new id: the event takes the place of the live one of its type.
AddEvent(q, t) ==
  Remove(q, {t}) \cup {[type |-> t, left |-> Delay(t), live |-> TRUE]}

-----------------------------------------------------------------------------
(* MainLoop.                                                               *)

\* Dispatch: nothing to do unless the front is due.
Dispatch ==
  /\ pc = "dispatch"
  /\ pc' = IF HasTimeout THEN "pop" ELSE "next"
  /\ UNCHANGED <<queue, running, wait, startVars>>

\* A stale event is thrown away: if the event PaxLearner::Init is just
\* publishing is the one, it is lost.
ThrowAway == lost' = (lost \/ starting = "pushed")

\* The loop of Dispatch: replaced and withdrawn events are thrown away.  When
\* none is left it returns false.
PopOne ==
  /\ pc = "pop"
  /\ \/ \E e \in queue :
          /\ Front(e)
          /\ queue' = queue \ {e}
          /\ \/ ~e.live /\ ThrowAway /\ UNCHANGED <<pc, running>>
             \/ e.live /\ pc' = "callback" /\ running' = e /\ UNCHANGED lost
     \/ queue = {} /\ pc' = "next" /\ UNCHANGED <<queue, running, lost>>
  /\ UNCHANGED <<wait, starting>>

\* Mutant: ShallLearn does not re-launch its event.
RunCallbackOnce ==
  /\ pc = "callback"
  /\ \/ queue' = queue
     \/ running.type \in ProposerTimeout /\ queue' = AddEvent(queue, ProposeTimeout)
  /\ pc' = "dispatch"
  /\ running' = NoEvent
  /\ UNCHANGED <<wait, startVars>>

\* The callbacks: ProposeTimeoutCallback proposes again unless the instance
\* has changed, NewValueTimeoutCallback withdraws the proposer's timeouts
\* unless it is not proposing, ShallLearn re-launches itself.
RunCallback ==
  /\ pc = "callback"
  /\ \/ /\ running.type \in ProposerTimeout
        /\ queue' \in {AddEvent(queue, ProposeTimeout), queue}
     \/ /\ running.type = NewValueTimeout
        /\ queue' \in {Remove(queue, ProposerTimeout), queue}
     \/ /\ running.type = ShallLearn
        /\ queue' = AddEvent(queue, ShallLearn)
  /\ pc' = "dispatch"
  /\ running' = NoEvent
  /\ UNCHANGED <<wait, startVars>>

\* NextEventTime: throws stale events away until the front is live, whose
\* time bounds the wait.  A queue that was empty to begin with is looked for,
\* one that this loop has emptied is not.
NextEventTime ==
  /\ pc = "next"
  /\ \/ /\ queue = {}
        /\ wait' = DefaultWait
        /\ pc' = "take"
        /\ UNCHANGED <<queue, running, lost>>
     \/ \E e \in queue :
          /\ Front(e) /\ ~e.live
          /\ queue' = queue \ {e}
          /\ ThrowAway
          /\ \/ queue' # {} /\ UNCHANGED <<pc, running, wait>>
             \/ queue' = {} /\ pc' = "emptied" /\ running' = e /\ wait' = e.left
     \/ \E e \in queue :
          /\ Front(e) /\ e.live
          /\ wait' = e.left
          /\ pc' = "take"
          /\ UNCHANGED <<queue, running, lost>>
  /\ UNCHANGED starting

\* NextEventTime reads front() of the vector it has emptied, which is
\* undefined: it finds the event it has just destroyed, again and again, and
\* goes on only if that becomes live after all.
ReadDestroyed ==
  /\ pc = "emptied" /\ running.live
  /\ pc' = "take"
  /\ running' = NoEvent
  /\ UNCHANGED <<queue, wait, startVars>>

\* Take gives up: wait_for returns at once when the duration is negative.
TakeTimeout ==
  /\ pc = "take" /\ wait <= 0
  /\ pc' = "trynew"
  /\ UNCHANGED <<queue, running, wait, startVars>>

\* Take returns a message.
TakeMessage ==
  /\ pc = "take" /\ starting = "done"
  /\ pc' = "handler"
  /\ wait' = 0
  /\ UNCHANGED <<queue, running, startVars>>

\* What HandleMessage does to the scheduler, one call at a time: the proposer
\* publishes a timeout, LearnFromOthers re-launches the learner's event, and
\* InstanceDone withdraws the proposer's timeouts.
HandlerCall ==
  /\ pc = "handler"
  /\ \/ \E t \in ProposerTimeout \cup {ShallLearn} : queue' = AddEvent(queue, t)
     \/ queue' = Remove(queue, ProposerTimeout)
  /\ UNCHANGED <<pc, running, wait, startVars>>

HandlerReturn ==
  /\ pc = "handler"
  /\ pc' = "trynew"
  /\ UNCHANGED <<queue, running, wait, startVars>>

\* TryNewValue finds nothing to propose, or is not allowed to.
TryNewValue ==
  /\ pc = "trynew"
  /\ pc' = "dispatch"
  /\ UNCHANGED <<queue, running, wait, startVars>>

\* TryNewValue flushes a value: NewValue publishes its timeout and proposes.
NewValue ==
  /\ pc = "trynew" /\ starting = "done"
  /\ pc' = "newvalue"
  /\ queue' = AddEvent(AddEvent(queue, NewValueTimeout), ProposeTimeout)
  /\ UNCHANGED <<running, wait, startVars>>

NewValueReturn ==
  /\ pc = "newvalue"
  /\ pc' = "dispatch"
  /\ UNCHANGED <<queue, running, wait, startVars>>

\* PaxLearner::Init, in the thread of PaxController::Init, which started the
\* main loop before.  AddEvent pushes the event first; for the main loop it is
\* stale as long as the map does not hold its id.  Messages and values come
\* after Init has returned.
LearnerPush ==
  /\ starting = "before"
  /\ starting' = "pushed"
  /\ queue' = queue \cup {[type |-> ShallLearn, left |-> Delay(ShallLearn), live |-> FALSE]}
  /\ UNCHANGED <<pc, running, wait, lost>>

\* Then its id is set, and it is live, wherever it is by now.
LearnerSetId ==
  /\ starting = "pushed"
  /\ starting' = "done"
  /\ queue' = {[e EXCEPT !.live = TRUE] : e \in queue}
  /\ running' = IF pc = "emptied" THEN [running EXCEPT !.live = TRUE] ELSE running
  /\ UNCHANGED <<pc, wait, lost>>

\* The steady clock goes on.
Tick ==
  /\ queue' = {[e EXCEPT !.left = IF e.left > -MaxLate THEN e.left - 1 ELSE e.left]
                 : e \in queue}
  /\ wait' = IF wait > 0 THEN wait - 1 ELSE wait
  /\ UNCHANGED <<pc, running, startVars>>

-----------------------------------------------------------------------------
Init ==
  /\ queue = {}
  /\ pc = "dispatch"
  /\ running = NoEvent
  /\ wait = 0
  /\ starting = "before"
  /\ lost = FALSE

\* What the main loop does by itself.
LoopStep ==
  \/ Dispatch \/ PopOne \/ RunCallback \/ NextEventTime \/ ReadDestroyed
  \/ TakeTimeout \/ HandlerReturn \/ TryNewValue \/ NewValueReturn

Next ==
  \/ LoopStep
  \/ TakeMessage
  \/ HandlerCall
  \/ NewValue
  \/ LearnerPush
  \/ LearnerSetId
  \/ Tick

Spec == Init /\ [][Next]_vars

\* The threads run and time passes; nothing says that messages arrive.
FairSpec ==
  /\ Spec
  /\ WF_vars(LoopStep) /\ WF_vars(LearnerPush \/ LearnerSetId) /\ WF_vars(Tick)

-----------------------------------------------------------------------------
(* Properties.                                                             *)

\* Every variable has its type.
TypeOK ==
  /\ queue \subseteq Event
  /\ pc \in {"dispatch", "pop", "callback", "next", "emptied", "take", "handler", "trynew", "newvalue"}
  /\ running \in Event \cup {NoEvent}
  /\ wait \in Int
  /\ starting \in {"before", "pushed", "done"}
  /\ lost \in BOOLEAN

\* No event runs before it is due, although Dispatch looks at the time of the
\* front only and may return an event from behind it (HasTimeout, Dispatch).
NeverEarly == pc = "callback" => running.left <= 0

\* Unless the learner's first event is thrown away at start-up: while events
\* are queued one of them is live, but for the moment in which AddEvent has
\* pushed that first one and not yet set its id.  So Dispatch, once the front
\* is due, returns an event ("this should not happen" is right there), and
\* NextEventTime never reads the front of a queue it has emptied, whatever is
\* replaced or withdrawn later (Dispatch, NextEventTime; ShallLearn).
QueueKeepsLive ==
  ~lost =>
    /\ pc # "emptied"
    /\ pc # "callback" /\ starting # "pushed" /\ queue # {} => \E e \in queue : e.live

\* Neither messages nor new values come in.
Quiet == pc \notin {"handler", "newvalue"}

\* Left alone, the main loop runs one event after another for ever: it does
\* not end up waiting with nothing armed (MainLoop, ShallLearn).  The unlocked
\* AddEvent at start-up is excepted: if the loop looks at the queue between
\* its push and its new id, the only event that re-launches itself is lost.
LoopKeepsRunning == []~lost /\ <>[]Quiet => []<>(pc = "callback")

-----------------------------------------------------------------------------
(* What comments of the code say of it and the code does not do.           *)

\* "no lock as event queue guarantees sequential": NextEventTime does not read
\* the front of an empty queue (EventQueue; AddEvent in PaxLearner::Init).
FrontIsThere == pc # "emptied"

Overdue(t) == \E e \in queue : e.type = t /\ e.live /\ e.left <= 0

\* "Callback if prepare not accepted before timout": once due, a timeout of
\* the proposer runs, unless it is replaced or withdrawn
\* (ProposeTimeoutCallback; EventQueue keeps the latest event in front).
ProposerTimeoutRuns ==
  <>[]Quiet => \A t \in ProposerTimeout : Overdue(t) ~> ~Overdue(t)
=============================================================================
