-------------------------------- MODULE Grpc --------------------------------
(***************************************************************************)
(* The gRPC build of the network: GrpcClient (network/grpc/client.cpp,     *)
(* client.hpp) and GrpcServer with its CallData objects (server.cpp,       *)
(* server.hpp, server_func_impl.cpp).                                      *)
(*                                                                         *)
(* A client thread makes one call at a time and waits for it on a          *)
(* completion queue of its own, without a deadline.  The server has one    *)
(* loop thread and one completion queue; the tags in it are pointers to    *)
(* CallData, each of which is created to wait for one request of one       *)
(* method, serves it and is freed when the reply is out.  Start and        *)
(* Shutdown are called from another thread.  A server is started once: its *)
(* service object can be registered only once.                             *)
(*                                                                         *)
(* Of gRPC itself only what the code relies on is modelled: a request is   *)
(* matched with a CallData that waits for its method, a reply or a broken  *)
(* connection ends a call, Server::Shutdown fails what waits and returns   *)
(* when the calls in progress have ended, and nothing may be put on a      *)
(* completion queue that has been shut down (the process aborts).          *)
(***************************************************************************)
EXTENDS Integers, Sequences, FiniteSets

CONSTANTS
  Client,      \* threads that call NetworkClient::Send
  SendType,    \* message types they send
  MaxCall      \* bound: calls in one behaviour

\* The service's methods.
Method ==
  {"Propose", "ProposeAck", "Accept", "AcceptAck", "NewValueChosen",
   "ShallILearn", "LearnerValueSync", "LearnerValueSend", "AckSyncValue",
   "TellInstanceId", "ConfirmLearn"}

\* The cases of GrpcClient::Send.  Any other type returns false at once.
RequestOf ==
  [PROPOSE_ACK |-> "ProposeAckRequest", ACCEPT_ACK |-> "AcceptAckRequest",
   LEARNER_VALUE_SYNC |-> "LearnerValueSyncRequest",
   LEARNER_VALUE_SEND |-> "LearnerValueSendRequest",
   SYNC_VALUE_ACK |-> "AckSyncValueRequest",
   TELL_INSTANCE_ID |-> "TellInstanceIdRequest",
   CONFIRM_LEARN |-> "ConfirmLearnRequest"]

\* The method each request type is prepared for.
PrepareRequest ==
  [ProposeRequest |-> "Propose", ProposeAckRequest |-> "ProposeAck",
   AcceptRequest |-> "Accept", AcceptAckRequest |-> "AcceptAck",
   NewValueChosenRequest |-> "NewValueChosen",
   ShallILearnRequest |-> "ShallILearn",
   LearnerValueSyncRequest |-> "LearnerValueSync",
   LearnerValueSendRequest |-> "LearnerValueSend",
   AckSyncValueRequest |-> "AckSyncValue",
   TellInstanceIdRequest |-> "TellInstanceId",
   ConfirmLearnRequest |-> "ConfirmLearn"]

\* The methods PrepareCallData creates a CallData for, in its order.  They
\* are also the ones with an InitRequestState.
Served == <<"Propose", "ProposeAck", "Accept", "AcceptAck", "NewValueChosen">>

Call == 1..MaxCall
CallData == 1..(Len(Served) + MaxCall)
NoCall == 0
NoMethod == "none"

ASSUME CallAssumption == MaxCall \in Nat
ASSUME SendTypeAssumption == SendType \subseteq DOMAIN RequestOf

VARIABLES
  call,        \* per client: the call its Send is in, or NoCall
  method,      \* per call: its method
  stage,       \* per call: none, flying, matched or answered
  outcome,     \* per call: pending, or what Send returned
  server,      \* off, up, closing (in Server::Shutdown) or closed
  loop,        \* off, prepare, handle, done or aborted
  queueOpen,   \* cq_ has not been shut down
  allocated,   \* number of CallData created so far
  status,      \* per CallData: status_
  waits,       \* per CallData: the method it was created for
  serves,      \* per CallData: the call it was matched with, or NoCall
  waiting,     \* CallData registered for a request
  finishing,   \* CallData whose reply is being written
  events,      \* what is in cq_: tag and ok
  freed,       \* CallData that were deleted
  dropped,     \* CallData no one points to any more
  handled      \* history: per call, how often msgCallback_ ran for it

grpcVars == <<call, method, stage, outcome, server, loop, queueOpen, allocated,
              status, waits, serves, waiting, finishing, events, freed,
              dropped, handled>>
clientVars == <<call, method, outcome>>
dataVars == <<allocated, status, waits>>

Event == [tag : CallData, ok : BOOLEAN]

-----------------------------------------------------------------------------
(* The client.                                                             *)

\* GrpcClient::Send and AsyncCall up to cq.Next: the call is started.
AsyncCall(c, t) ==
  /\ call[c] = NoCall
  /\ \E r \in Call :
       /\ stage[r] = "none" /\ (\A q \in Call : q < r => stage[q] # "none")
       /\ call' = [call EXCEPT ![c] = r]
       /\ method' = [method EXCEPT ![r] = PrepareRequest[RequestOf[t]]]
       /\ stage' = [stage EXCEPT ![r] = "flying"]
       /\ outcome' = [outcome EXCEPT ![r] = "pending"]
  /\ UNCHANGED <<server, loop, queueOpen, dataVars, serves, waiting, finishing,
                 events, freed, dropped, handled>>

Returns(c, result) ==
  /\ outcome' = [outcome EXCEPT ![call[c]] = result]
  /\ call' = [call EXCEPT ![c] = NoCall]
  /\ UNCHANGED <<method, stage, server, loop, queueOpen, dataVars, serves,
                 waiting, finishing, events, freed, dropped, handled>>

\* cq.Next gives the reply, status.ok() holds.
AnswerArrives(c) ==
  /\ call[c] # NoCall
  /\ stage[call[c]] = "answered"
  /\ Returns(c, "true")

\* The connection could not be made or was lost: status.ok() does not hold.
CallFails(c) ==
  /\ call[c] # NoCall
  /\ Returns(c, "false")

-----------------------------------------------------------------------------
(* The server.                                                             *)

Start ==
  /\ server = "off"
  /\ server' = "up"
  /\ loop' = "prepare"
  /\ queueOpen' = TRUE
  /\ UNCHANGED <<clientVars, stage, dataVars, serves, waiting, finishing,
                 events, freed, dropped, handled>>

\* The next CallData, for method m, which its constructor brings from DUMMY
\* to INITIALIZED with a call of RequestX.  On a queue that is shut down
\* that call aborts the process; on a server that is shutting down it fails
\* at once.
NewId == allocated + 1
Registered == IF server = "up" THEN {NewId} ELSE {}
Refused == IF server = "up" THEN {} ELSE {[tag |-> NewId, ok |-> FALSE]}
New(m) ==
  /\ allocated' = NewId
  /\ waits' = [waits EXCEPT ![NewId] = m]
  /\ waiting' = waiting \cup Registered

\* One step per CallDataManager::New, in the loop's thread.
PrepareCallData ==
  /\ loop = "prepare"
  /\ New(Served[NewId])
  /\ status' = [status EXCEPT ![NewId] = "INITIALIZED"]
  /\ events' = events \cup Refused
  /\ loop' = IF ~queueOpen THEN "aborted"
             ELSE IF NewId = Len(Served) THEN "handle" ELSE "prepare"
  /\ UNCHANGED <<clientVars, stage, server, queueOpen, serves, finishing,
                 freed, dropped, handled>>

\* gRPC: a request reaches a CallData that waits for its method.
RequestArrives(r, d) ==
  /\ server = "up"
  /\ stage[r] = "flying"
  /\ d \in waiting /\ waits[d] = method[r]
  /\ stage' = [stage EXCEPT ![r] = "matched"]
  /\ serves' = [serves EXCEPT ![d] = r]
  /\ waiting' = waiting \ {d}
  /\ events' = events \cup {[tag |-> d, ok |-> TRUE]}
  /\ UNCHANGED <<clientVars, server, loop, queueOpen, dataVars, finishing,
                 freed, dropped, handled>>

\* Mutant: the reply goes out and the callback does not run.
ReplyOnly(d) == UNCHANGED handled

\* HandleRequest: whatever the request type, the callback gets its bytes and
\* the reply is an acknowledgement.
HandleRequest(d) == handled' = [handled EXCEPT ![serves[d]] = @ + 1]

\* Mutant: no CallData takes the place of the one that is now busy.
ProcessStatusFuncAlone(e) ==
  /\ status' = [status EXCEPT ![e.tag] = "SERVED"]
  /\ HandleRequest(e.tag)
  /\ stage' = [stage EXCEPT ![serves[e.tag]] = "answered"]
  /\ finishing' = finishing \cup {e.tag}
  /\ events' = events \ {e}
  /\ UNCHANGED <<allocated, waits, waiting, loop, freed>>

\* Mutant: the CallData is deleted whether or not it has finished.
ProcessStatusFuncDeletes(e) ==
  /\ New(waits[e.tag])
  /\ status' = [status EXCEPT ![NewId] = "INITIALIZED", ![e.tag] = "SERVED"]
  /\ HandleRequest(e.tag)
  /\ stage' = [stage EXCEPT ![serves[e.tag]] = "answered"]
  /\ finishing' = finishing \cup {e.tag}
  /\ events' = (events \ {e}) \cup Refused
  /\ loop' = IF queueOpen THEN "handle" ELSE "aborted"
  /\ freed' = freed \cup {e.tag}

\* Another CallData takes this one's place before the callback runs; then
\* the reply is given to gRPC.
ProcessStatusFunc(e) ==
  /\ New(waits[e.tag])
  /\ status' = [status EXCEPT ![NewId] = "INITIALIZED", ![e.tag] = "SERVED"]
  /\ HandleRequest(e.tag)
  /\ stage' = [stage EXCEPT ![serves[e.tag]] = "answered"]
  /\ finishing' = finishing \cup {e.tag}
  /\ events' = (events \ {e}) \cup Refused
  /\ loop' = IF queueOpen THEN "handle" ELSE "aborted"
  /\ UNCHANGED freed

\* The unique_ptr in HandleRpcs is not released, so the CallData is deleted.
FinishStatusFunc(e) ==
  /\ status' = [status EXCEPT ![e.tag] = "FINISH"]
  /\ freed' = freed \cup {e.tag}
  /\ events' = events \ {e}
  /\ UNCHANGED <<allocated, waits, waiting, loop, handled, stage, finishing>>

Proceed(e) ==
  \/ status[e.tag] = "INITIALIZED" /\ ProcessStatusFunc(e)
  \/ status[e.tag] = "SERVED" /\ FinishStatusFunc(e)

\* One round of HandleRpcs.  A tag that comes with ok = false is ignored, and
\* with it the only pointer to its CallData.
HandleRpcs(e) ==
  /\ loop = "handle"
  /\ e \in events
  /\ \/ /\ e.ok
        /\ Proceed(e)
        /\ UNCHANGED dropped
     \/ /\ ~e.ok
        /\ events' = events \ {e}
        /\ dropped' = dropped \cup {e.tag}
        /\ UNCHANGED <<dataVars, waiting, loop, handled, stage, finishing, freed>>
  /\ UNCHANGED <<clientVars, server, queueOpen, serves>>

\* gRPC: the reply has been written, or could not be because the client is
\* gone.
FinishCompletes(d, ok) ==
  /\ d \in finishing
  /\ ok \/ outcome[serves[d]] = "false"
  /\ finishing' = finishing \ {d}
  /\ events' = events \cup {[tag |-> d, ok |-> ok]}
  /\ UNCHANGED <<clientVars, stage, server, loop, queueOpen, dataVars, serves,
                 waiting, freed, dropped, handled>>

\* GrpcServer::Shutdown, in two steps.  server_->Shutdown() begins: no more
\* requests, and what waits for one fails.
Shutdown ==
  /\ server = "up"
  /\ server' = "closing"
  /\ events' = events \cup {[tag |-> d, ok |-> FALSE] : d \in waiting}
  /\ waiting' = {}
  /\ UNCHANGED <<clientVars, stage, loop, queueOpen, dataVars, serves,
                 finishing, freed, dropped, handled>>

\* Calls that were matched and whose reply is not out.
InProgress ==
  {d \in CallData : serves[d] # NoCall /\ (status[d] = "INITIALIZED" \/ d \in finishing)}

\* Mutant: cq_->Shutdown() does not come after server_->Shutdown() returned.
ShutdownQueueAtOnce ==
  /\ server = "closing"
  /\ server' = "closed"
  /\ queueOpen' = FALSE
  /\ UNCHANGED <<clientVars, stage, loop, dataVars, serves, waiting, finishing,
                 events, freed, dropped, handled>>

\* Mutant: cq_ is not shut down.
ShutdownServerOnly ==
  /\ server = "closing"
  /\ InProgress = {}
  /\ server' = "closed"
  /\ UNCHANGED <<queueOpen, clientVars, stage, loop, dataVars, serves, waiting,
                 finishing, events, freed, dropped, handled>>

\* server_->Shutdown() returns, cq_->Shutdown() and is_running_ = false follow.
ShutdownQueue ==
  /\ server = "closing"
  /\ InProgress = {}
  /\ server' = "closed"
  /\ queueOpen' = FALSE
  /\ UNCHANGED <<clientVars, stage, loop, dataVars, serves, waiting, finishing,
                 events, freed, dropped, handled>>

\* cq_->Next returns false once the queue is shut down and empty.
LoopEnds ==
  /\ loop = "handle"
  /\ ~queueOpen /\ events = {} /\ finishing = {}
  /\ loop' = "done"
  /\ UNCHANGED <<clientVars, stage, server, queueOpen, dataVars, serves,
                 waiting, finishing, events, freed, dropped, handled>>

-----------------------------------------------------------------------------
GrpcInit ==
  /\ call = [c \in Client |-> NoCall]
  /\ method = [r \in Call |-> NoMethod]
  /\ stage = [r \in Call |-> "none"]
  /\ outcome = [r \in Call |-> "pending"]
  /\ server = "off" /\ loop = "off" /\ queueOpen = FALSE
  /\ allocated = 0
  /\ status = [d \in CallData |-> "DUMMY"]
  /\ waits = [d \in CallData |-> NoMethod]
  /\ serves = [d \in CallData |-> NoCall]
  /\ waiting = {} /\ finishing = {} /\ events = {}
  /\ freed = {} /\ dropped = {}
  /\ handled = [r \in Call |-> 0]

GrpcNext ==
  \/ \E c \in Client, t \in SendType : AsyncCall(c, t)
  \/ \E c \in Client : AnswerArrives(c) \/ CallFails(c)
  \/ PrepareCallData
  \/ \E r \in Call, d \in waiting : RequestArrives(r, d)
  \/ \E e \in events : HandleRpcs(e)
  \/ \E d \in finishing, ok \in BOOLEAN : FinishCompletes(d, ok)
  \/ Shutdown
  \/ ShutdownQueue
  \/ LoopEnds

\* Threads that can go on do, gRPC matches a request with a CallData that
\* waits for it, writes replies, and hands out what is in the completion
\* queue.  Nothing is assumed of the callers or of connections.
GrpcFairness ==
  /\ WF_grpcVars(PrepareCallData)
  /\ WF_grpcVars(ShutdownQueue)
  /\ WF_grpcVars(LoopEnds)
  /\ WF_grpcVars(\E c \in Client : AnswerArrives(c))
  /\ WF_grpcVars(\E r \in Call, d \in waiting : RequestArrives(r, d))
  /\ WF_grpcVars(\E e \in events : HandleRpcs(e))
  /\ WF_grpcVars(\E d \in finishing, ok \in BOOLEAN : FinishCompletes(d, ok))

-----------------------------------------------------------------------------
(* Properties.                                                             *)

GrpcTypeOK ==
  /\ call \in [Client -> Call \cup {NoCall}]
  /\ method \in [Call -> Method \cup {NoMethod}]
  /\ stage \in [Call -> {"none", "flying", "matched", "answered"}]
  /\ outcome \in [Call -> {"pending", "true", "false"}]
  /\ server \in {"off", "up", "closing", "closed"}
  /\ loop \in {"off", "prepare", "handle", "done", "aborted"}
  /\ queueOpen \in BOOLEAN
  /\ allocated \in 0..(Len(Served) + MaxCall)
  /\ status \in [CallData -> {"DUMMY", "INITIALIZED", "SERVED", "FINISH"}]
  /\ waits \in [CallData -> Method \cup {NoMethod}]
  /\ serves \in [CallData -> Call \cup {NoCall}]
  /\ waiting \subseteq CallData /\ finishing \subseteq CallData
  /\ events \subseteq Event
  /\ freed \subseteq CallData /\ dropped \subseteq CallData
  /\ handled \in [Call -> Nat]

\* When Send has returned true, the server's callback has run for that very
\* message, and it never runs twice for one message, however calls fail,
\* overlap and race with a shutdown (AsyncCall, ProcessStatusFunc).
AckedWasHandled ==
  \A r \in Call : /\ handled[r] <= 1
                  /\ outcome[r] = "true" => handled[r] = 1

\* While the server is up and its loop runs, every served method has exactly
\* one CallData that is waiting for a request or has just got one, so no
\* served request finds nobody listening and no CallData piles up
\* (ProcessStatusFunc, PrepareCallData).
OneListener ==
  server = "up" /\ loop = "handle" =>
    \A i \in DOMAIN Served :
      \E d \in CallData :
        \A x \in CallData :
          status[x] = "INITIALIZED" /\ waits[x] = Served[i] <=> x = d

\* Each CallData is held in exactly one place: registered for a request,
\* writing its reply, in the completion queue, or gone.  So no tag in the
\* queue points to a deleted CallData, none is delivered twice, and none is
\* forgotten, unless its client or the server went away (HandleRpcs,
\* CallDataManager::Procceed).
CallDataOwnedOnce ==
  LET Tags(ok) == {e.tag : e \in {x \in events : x.ok = ok}}
      place == <<waiting, finishing, Tags(TRUE), Tags(FALSE), freed, dropped>>
  IN /\ UNION {place[i] : i \in DOMAIN place} = 1..allocated
     /\ \A i, j \in DOMAIN place : i # j => place[i] \cap place[j] = {}
     /\ \A d \in dropped :
          \/ server # "up"
          \/ serves[d] # NoCall /\ outcome[serves[d]] = "false"

\* The loop puts something on the closed completion queue, which aborts the
\* process, only when Shutdown has overtaken PrepareCallData; never while
\* calls are served, whatever Shutdown races with (Start, Shutdown,
\* ProcessStatusFunc).
AbortOnlyAtStart == loop = "aborted" => allocated <= Len(Served)

\* A Send of a served method returns, or the server is not up.  (Of the
\* methods that nobody serves it does not: those calls wait until the
\* connection breaks.)
SendReturns ==
  \A c \in Client :
    call[c] # NoCall /\ (\E i \in DOMAIN Served : Served[i] = method[call[c]])
      ~> call[c] = NoCall \/ server # "up"

\* After Shutdown the loop comes to its end, so the destructor, which waits
\* for it, does too.
ServerStops == server = "closing" ~> loop \in {"done", "aborted"}
=============================================================================
