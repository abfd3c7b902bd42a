---------------------------- MODULE NetworkProofs ---------------------------
(***************************************************************************)
(* The safety of both network libraries, for any number of clients, calls, *)
(* Sends and duplicated datagrams.                                         *)
(***************************************************************************)
EXTENDS Network, FiniteSetTheorems, FunctionTheorems, TLAPS

-----------------------------------------------------------------------------
(* gRPC: the inductive invariant.                                          *)

\* The tag d is in the completion queue, with ok, or without.
Ok(d) == [tag |-> d, ok |-> TRUE] \in events
No(d) == [tag |-> d, ok |-> FALSE] \in events

\* A CallData is in one place, once it is created.
Placed ==
  \A d \in CallData :
    /\ d <= allocated <=>
         d \in waiting \/ d \in finishing \/ Ok(d) \/ No(d) \/ d \in freed \/ d \in dropped
    /\ d \in waiting => d \notin finishing /\ ~Ok(d) /\ ~No(d) /\ d \notin freed /\ d \notin dropped
    /\ d \in finishing => ~Ok(d) /\ ~No(d) /\ d \notin freed /\ d \notin dropped
    /\ Ok(d) => ~No(d) /\ d \notin freed /\ d \notin dropped
    /\ No(d) => d \notin freed /\ d \notin dropped
    /\ d \in freed => d \notin dropped

\* It can no longer be used: its server or its client is gone.
Lost(d) ==
  \/ status[d] = "INITIALIZED" /\ serves[d] = NoCall /\ server # "up"
  \/ status[d] = "SERVED" /\ serves[d] # NoCall /\ outcome[serves[d]] = "false"

\* The place tells the status.
States ==
  \A d \in CallData :
    /\ d > allocated => status[d] = "DUMMY" /\ serves[d] = NoCall
    /\ d \in waiting => status[d] = "INITIALIZED" /\ serves[d] = NoCall /\ server = "up"
    /\ d \in finishing => status[d] = "SERVED" /\ serves[d] # NoCall
    /\ Ok(d) => status[d] \in {"INITIALIZED", "SERVED"} /\ serves[d] # NoCall
    /\ No(d) => Lost(d)
    /\ d \in freed => status[d] = "FINISH" /\ serves[d] # NoCall
    /\ d \in dropped => Lost(d)

\* A call has one CallData from the time it is matched; the callback has run
\* for it when it is answered.
Matched ==
  /\ \A d, x \in CallData : serves[d] = serves[x] /\ serves[d] # NoCall => d = x
  /\ \A d \in CallData :
       serves[d] # NoCall =>
         stage[serves[d]] = IF status[d] = "INITIALIZED" THEN "matched" ELSE "answered"
  /\ \A r \in Call : handled[r] = IF stage[r] = "answered" THEN 1 ELSE 0
  /\ \A r \in Call : outcome[r] = "true" => stage[r] = "answered"

\* A client waits for a call of its own.
Calls ==
  /\ \A c \in Client : call[c] # NoCall => outcome[call[c]] = "pending" /\ stage[call[c]] # "none"
  /\ \A b, c \in Client : call[b] = call[c] /\ call[b] # NoCall => b = c

\* Start and Shutdown.
Phases ==
  /\ server = "off" <=> loop = "off"
  /\ queueOpen <=> server \in {"up", "closing"}
  /\ loop = "off" => allocated = 0
  /\ loop \in {"off", "prepare"} =>
       /\ allocated < Len(Served)
       /\ \A d \in CallData : d <= allocated => status[d] = "INITIALIZED" /\ waits[d] = Served[d]
  /\ server = "closed" => InProgress = {}

\* The method each CallData that is not busy waits for is its own.
Listeners ==
  loop = "handle" =>
    \A i \in DOMAIN Served :
      \E d \in CallData :
        \A x \in CallData :
          status[x] = "INITIALIZED" /\ waits[x] = Served[i] <=> x = d

\* A CallData is created for each served method and for each request served.
Answered == {r \in Call : stage[r] = "answered"}
Allocation == allocated <= Len(Served) + Cardinality(Answered)

GrpcInv ==
  /\ GrpcTypeOK
  /\ Placed /\ States /\ Matched /\ Calls /\ Phases /\ Listeners /\ Allocation
  /\ AbortOnlyAtStart

-----------------------------------------------------------------------------
(* UDP: the inductive invariant.                                           *)

Count(B, d) == IF BagIn(d, B) THEN B[d] ELSE 0

\* The message a client's nth Send has sent, if it is not empty.
Sent(s, n) == [sender |-> s, number |-> n, empty |-> FALSE]

\* Its copies that are on their way, or in the server's buffer.
Live(s, n) ==
  Count(requests, Sent(s, n)) + Count(echoes, Sent(s, n)) + (IF Sent(s, n) \in data THEN 1 ELSE 0)

\* How many datagrams must have been duplicated for this Send: those that
\* can still be taken for another's answer, and one if another's answer was
\* taken for its own.
Excess(s, n) ==
  IF n \in acked[s]
  THEN IF ran[Sent(s, n)] = 0 /\ Live(s, n) = 0 THEN 1 ELSE Live(s, n)
  ELSE IF Live(s, n) = 0 THEN 0 ELSE Live(s, n) - 1

Surplus == {x \in Sender \X (1..MaxSend) \X Nat : 1 <= x[3] /\ x[3] <= Excess(x[1], x[2])}

\* The server's buffer and its pending operation.
Buffer ==
  /\ serving \in {"off", "receive"} => data = {}
  /\ serving = "send" => data # {}
  /\ data = {} \/ \E d \in Datagram : data = {d}

\* What the server has echoed or is echoing it has handled.
Handled ==
  \A d \in Datagram :
    /\ d \in data \/ BagIn(d, echoes) => ~d.empty /\ ran[d] >= 1
    /\ Count(requests, d) + ran[d] <= 1 + copies
    /\ d.number > sends[d.sender] => ran[d] = 0 /\ ~BagIn(d, requests)

\* A client's Sends have returned true, but for the last.
Acked ==
  \A s \in Sender :
    /\ awaits[s] = "none" => acked[s] = 1..sends[s]
    /\ awaits[s] # "none" => sends[s] >= 1 /\ acked[s] = 1..(sends[s] - 1)

Balance == IsFiniteSet(Surplus) /\ Cardinality(Surplus) <= copies

UdpInv == UdpTypeOK /\ Buffer /\ Handled /\ Acked /\ Balance

-----------------------------------------------------------------------------
(* gRPC: every step keeps the invariant.                                   *)

\* The served methods are five different ones.
LEMMA ServedFacts ==
  /\ Len(Served) = 5 /\ DOMAIN Served = 1..5
  /\ \A i \in 1..5 : Served[i] \in Method
  /\ \A i, j \in 1..5 : Served[i] = Served[j] => i = j
  <1>1. Len(Served) = 5 /\ DOMAIN Served = 1..5
    BY DEF Served
  <1>2. /\ Served[1] = "Propose" /\ Served[2] = "ProposeAck" /\ Served[3] = "Accept"
        /\ Served[4] = "AcceptAck" /\ Served[5] = "NewValueChosen"
    BY DEF Served
  <1>3. \A i \in 1..5 : i = 1 \/ i = 2 \/ i = 3 \/ i = 4 \/ i = 5
    OBVIOUS
  <1>4. \A i \in 1..5 : Served[i] \in Method
    BY <1>2, <1>3 DEF Method
  <1>5. \A i, j \in 1..5 : Served[i] = Served[j] => i = j
    BY <1>2, <1>3
  <1> QED
    BY <1>1, <1>4, <1>5

\* Every type that is sent has a method.
LEMMA SentMethods == \A t \in SendType : PrepareRequest[RequestOf[t]] \in Method
  <1> SUFFICES ASSUME NEW t \in SendType PROVE PrepareRequest[RequestOf[t]] \in Method
    OBVIOUS
  <1>1. t \in {"PROPOSE_ACK", "ACCEPT_ACK", "LEARNER_VALUE_SYNC", "LEARNER_VALUE_SEND",
               "SYNC_VALUE_ACK", "TELL_INSTANCE_ID", "CONFIRM_LEARN"}
    BY SendTypeAssumption DEF RequestOf
  <1> QED
    BY <1>1 DEF RequestOf, PrepareRequest, Method

\* The sets of calls and of CallData are intervals.
LEMMA Ids ==
  /\ MaxCall \in Nat
  /\ \A r : r \in Call <=> r \in Nat /\ 1 <= r /\ r <= MaxCall
  /\ \A d : d \in CallData <=> d \in Nat /\ 1 <= d /\ d <= 5 + MaxCall
  /\ NoCall \notin Call
  BY CallAssumption, ServedFacts DEF Call, CallData, NoCall

\* What is put into the completion queue and taken out of it.
LEMMA EventTypes ==
  /\ \A d \in CallData : [tag |-> d, ok |-> TRUE] \in Event /\ [tag |-> d, ok |-> FALSE] \in Event
  /\ \A e \in Event : e.tag \in CallData /\ e = [tag |-> e.tag, ok |-> e.ok] /\ e.ok \in BOOLEAN
  BY DEF Event

\* A client makes a call.
LEMMA AsyncCallKeeps ==
  ASSUME GrpcInv, NEW c \in Client, NEW t \in SendType, AsyncCall(c, t)
  PROVE  GrpcInv'
  <1>0. /\ GrpcTypeOK /\ Placed /\ States /\ Matched /\ Calls /\ Phases
        /\ Listeners /\ Allocation /\ AbortOnlyAtStart
    BY DEF GrpcInv
  <1>1. PICK r \in Call :
          /\ stage[r] = "none" /\ call' = [call EXCEPT ![c] = r]
          /\ method' = [method EXCEPT ![r] = PrepareRequest[RequestOf[t]]]
          /\ stage' = [stage EXCEPT ![r] = "flying"]
          /\ outcome' = [outcome EXCEPT ![r] = "pending"]
    BY DEF AsyncCall
  <1>2. UNCHANGED <<server, loop, queueOpen, allocated, status, waits, serves, waiting,
                    finishing, events, freed, dropped, handled>>
    BY DEF AsyncCall, dataVars
  <1>3. GrpcTypeOK'
    BY <1>0, <1>1, <1>2, SentMethods DEF GrpcTypeOK
  <1>4. /\ \A q \in Call : stage'[q] = IF q = r THEN "flying" ELSE stage[q]
        /\ \A q \in Call : outcome'[q] = IF q = r THEN "pending" ELSE outcome[q]
        /\ \A b \in Client : call'[b] = IF b = c THEN r ELSE call[b]
    BY <1>0, <1>1 DEF GrpcTypeOK
  <1>5. Placed'
    BY <1>0, <1>2 DEF Placed, Ok, No
  <1>6. \A d \in CallData : serves[d] \in Call \cup {NoCall} /\ serves[d] # r
    BY <1>0, <1>1, Ids DEF GrpcTypeOK, Matched
  <1>7. \A d \in CallData : Lost(d) => Lost(d)'
    BY <1>2, <1>4, <1>6 DEF Lost
  <1>8. States'
    BY <1>0, <1>2, <1>7 DEF States, Ok, No
  <1>9. Matched'
    BY <1>0, <1>1, <1>2, <1>4, <1>6 DEF Matched, GrpcTypeOK
  <1>10. Calls'
    <2>1. \A b \in Client : call[b] \in Call \cup {NoCall} /\ call[b] # r
      BY <1>0, <1>1, Ids DEF GrpcTypeOK, Calls
    <2> QED
      BY <1>0, <1>4, <2>1 DEF Calls
  <1>11. Phases' /\ Listeners' /\ AbortOnlyAtStart'
    BY <1>0, <1>2 DEF Phases, Listeners, AbortOnlyAtStart, InProgress
  <1>12. Allocation'
    <2>1. Answered' = Answered
      BY <1>1, <1>4 DEF Answered
    <2> QED
      BY <1>0, <1>2, <2>1 DEF Allocation
  <1> QED
    BY <1>3, <1>5, <1>8, <1>9, <1>10, <1>11, <1>12 DEF GrpcInv

\* AnswerArrives and CallFails.
LEMMA ReturnsKeeps ==
  ASSUME GrpcInv, NEW c \in Client, call[c] # NoCall, NEW result \in {"true", "false"},
         result = "true" => stage[call[c]] = "answered", Returns(c, result)
  PROVE  GrpcInv'
  <1>0. /\ GrpcTypeOK /\ Placed /\ States /\ Matched /\ Calls /\ Phases
        /\ Listeners /\ Allocation /\ AbortOnlyAtStart
    BY DEF GrpcInv
  <1>1. PICK r \in Call : r = call[c]
    BY <1>0 DEF GrpcTypeOK
  <1>2. /\ outcome' = [outcome EXCEPT ![r] = result]
        /\ call' = [call EXCEPT ![c] = NoCall]
        /\ UNCHANGED <<method, stage, server, loop, queueOpen, allocated, status, waits, serves,
                       waiting, finishing, events, freed, dropped, handled>>
    BY <1>1 DEF Returns, dataVars
  <1>3. GrpcTypeOK'
    BY <1>0, <1>2 DEF GrpcTypeOK
  <1>4. /\ \A q \in Call : outcome'[q] = IF q = r THEN result ELSE outcome[q]
        /\ \A b \in Client : call'[b] = IF b = c THEN NoCall ELSE call[b]
    BY <1>0, <1>2 DEF GrpcTypeOK
  <1>5. Placed'
    BY <1>0, <1>2 DEF Placed, Ok, No
  <1>6. outcome[r] = "pending"
    BY <1>0, <1>1 DEF Calls
  <1>7. \A d \in CallData : Lost(d) => Lost(d)'
    <2>1. \A d \in CallData : serves[d] \in Call \cup {NoCall}
      BY <1>0 DEF GrpcTypeOK
    <2> QED
      BY <1>2, <1>4, <1>6, <2>1 DEF Lost
  <1>8. States'
    BY <1>0, <1>2, <1>7 DEF States, Ok, No
  <1>9. Matched'
    BY <1>0, <1>1, <1>2, <1>4 DEF Matched
  <1>10. Calls'
    BY <1>0, <1>1, <1>2, <1>4 DEF Calls, GrpcTypeOK
  <1>11. Phases' /\ Listeners' /\ AbortOnlyAtStart'
    BY <1>0, <1>2 DEF Phases, Listeners, AbortOnlyAtStart, InProgress
  <1>12. Allocation'
    BY <1>0, <1>2 DEF Allocation, Answered
  <1> QED
    BY <1>3, <1>5, <1>8, <1>9, <1>10, <1>11, <1>12 DEF GrpcInv

\* The server is started, once.
LEMMA StartKeeps ==
  ASSUME GrpcInv, Start
  PROVE  GrpcInv'
  <1>0. /\ GrpcTypeOK /\ Placed /\ States /\ Matched /\ Calls /\ Phases
        /\ Listeners /\ Allocation /\ AbortOnlyAtStart
    BY DEF GrpcInv
  <1>1. server = "off" /\ server' = "up" /\ loop' = "prepare" /\ queueOpen' = TRUE
    BY DEF Start
  <1>2. UNCHANGED <<call, method, stage, outcome, allocated, status, waits, serves, waiting,
                    finishing, events, freed, dropped, handled>>
    BY DEF Start, clientVars, dataVars
  <1>3. GrpcTypeOK'
    BY <1>0, <1>1, <1>2 DEF GrpcTypeOK
  <1>4. allocated = 0 /\ loop = "off"
    BY <1>0, <1>1 DEF Phases
  <1>5. \A d \in CallData : ~(d <= allocated)
    BY <1>4, Ids
  <1>6. Placed'
    BY <1>0, <1>2 DEF Placed, Ok, No
  <1>7. States'
    BY <1>0, <1>2, <1>5 DEF States, Placed, Ok, No
  <1>8. Matched' /\ Calls'
    BY <1>0, <1>2 DEF Matched, Calls
  <1>9. Phases'
    BY <1>0, <1>1, <1>2, <1>4, <1>5, ServedFacts DEF Phases
  <1>10. Listeners' /\ AbortOnlyAtStart' /\ Allocation'
    BY <1>0, <1>1, <1>2 DEF Listeners, AbortOnlyAtStart, Allocation, Answered
  <1> QED
    BY <1>3, <1>6, <1>7, <1>8, <1>9, <1>10 DEF GrpcInv

\* The loop creates the first CallData of a method.
LEMMA PrepareCallDataKeeps ==
  ASSUME GrpcInv, PrepareCallData
  PROVE  GrpcInv'
  <1>0. /\ GrpcTypeOK /\ Placed /\ States /\ Matched /\ Calls /\ Phases
        /\ Listeners /\ Allocation /\ AbortOnlyAtStart
    BY DEF GrpcInv
  <1>1. allocated \in Nat /\ allocated < 5 /\ allocated + 1 \in CallData /\ allocated + 1 \in 1..5
    BY <1>0, Ids, ServedFacts DEF GrpcTypeOK, Phases, PrepareCallData
  <1>2. PICK n \in CallData : n = allocated + 1
    BY <1>1
  <1>3. /\ loop = "prepare" /\ allocated' = n
        /\ waits' = [waits EXCEPT ![n] = Served[n]]
        /\ waiting' = waiting \cup (IF server = "up" THEN {n} ELSE {})
        /\ status' = [status EXCEPT ![n] = "INITIALIZED"]
        /\ events' = events \cup (IF server = "up" THEN {} ELSE {[tag |-> n, ok |-> FALSE]})
        /\ loop' = IF ~queueOpen THEN "aborted"
                   ELSE IF n = Len(Served) THEN "handle" ELSE "prepare"
        /\ UNCHANGED <<call, method, stage, outcome, server, queueOpen, serves, finishing,
                       freed, dropped, handled>>
    BY <1>2 DEF PrepareCallData, New, NewId, Registered, Refused, clientVars
  <1>4. /\ n \in Nat /\ n \in 1..5 /\ n <= 5 /\ Served[n] \in Method
        /\ \A d \in CallData : d <= n <=> d <= allocated \/ d = n
        /\ \A d \in CallData : d > n => d > allocated /\ d # n
        /\ ~(n <= allocated) /\ n > allocated
    <2>1. \A d \in CallData : d \in Nat
      BY Ids
    <2> QED
      BY <1>1, <1>2, <2>1, ServedFacts
  <1>5. GrpcTypeOK'
    <2>1. allocated' \in 0..(Len(Served) + MaxCall)
      BY <1>3, <1>4, Ids, ServedFacts
    <2>2. events' \subseteq Event
      BY <1>0, <1>3, EventTypes DEF GrpcTypeOK
    <2>3. loop' \in {"off", "prepare", "handle", "done", "aborted"}
      BY <1>3
    <2> QED
      BY <1>0, <1>3, <1>4, <2>1, <2>2, <2>3 DEF GrpcTypeOK
  <1>6. /\ \A d \in CallData : status'[d] = IF d = n THEN "INITIALIZED" ELSE status[d]
        /\ \A d \in CallData : waits'[d] = IF d = n THEN Served[n] ELSE waits[d]
    BY <1>0, <1>3 DEF GrpcTypeOK
  <1>7. /\ \A d \in CallData : Ok(d)' <=> Ok(d)
        /\ \A d \in CallData : No(d)' <=> No(d) \/ (d = n /\ server # "up")
        /\ \A d \in CallData : d \in waiting' <=> d \in waiting \/ (d = n /\ server = "up")
    BY <1>3 DEF Ok, No
  <1>8. /\ status[n] = "DUMMY" /\ serves[n] = NoCall
        /\ n \notin waiting /\ n \notin finishing /\ ~Ok(n) /\ ~No(n) /\ n \notin freed /\ n \notin dropped
    BY <1>0, <1>4 DEF States, Placed
  <1>9. Placed'
    BY <1>0, <1>3, <1>4, <1>7, <1>8 DEF Placed
  <1>10. \A d \in CallData : d # n /\ Lost(d) => Lost(d)'
    BY <1>3, <1>6 DEF Lost
  <1>11. server # "up" => \A d \in CallData : d = n => Lost(d)'
    BY <1>3, <1>6, <1>8 DEF Lost
  <1>12. States'
    BY <1>0, <1>3, <1>4, <1>6, <1>7, <1>8, <1>10, <1>11 DEF States
  <1>13. Matched' /\ Calls'
    BY <1>0, <1>3, <1>6, <1>8 DEF Matched, Calls
  <1>14. \A d \in CallData : d <= n => status'[d] = "INITIALIZED" /\ waits'[d] = Served[d]
    BY <1>0, <1>3, <1>4, <1>6 DEF Phases
  <1>15. Phases'
    <2>1. queueOpen' <=> server' \in {"up", "closing"}
      BY <1>0, <1>3 DEF Phases
    <2>2. loop' = "prepare" => n < Len(Served)
      BY <1>3, <1>4, ServedFacts
    <2>3. server' = "closed" => InProgress' = {}
      BY <1>0, <1>3, <1>6, <1>8 DEF Phases, InProgress
    <2>4. server' # "off" /\ loop' # "off"
      BY <1>0, <1>3 DEF Phases
    <2> QED
      BY <1>3, <1>14, <2>1, <2>2, <2>3, <2>4 DEF Phases
  <1>16. Listeners'
    <2> SUFFICES ASSUME loop' = "handle", NEW i \in DOMAIN Served
                 PROVE  \E d \in CallData : \A x \in CallData :
                          status'[x] = "INITIALIZED" /\ waits'[x] = Served[i] <=> x = d
      BY DEF Listeners
    <2>1. n = 5 /\ i \in 1..5
      BY <1>3, ServedFacts
    <2>2. i \in CallData /\ i <= n
      BY <2>1, Ids
    <2>3. \A x \in CallData : x > n => status'[x] = "DUMMY"
      BY <1>0, <1>4, <1>6 DEF States
    <2>4. \A x \in CallData : x > n \/ (x <= n /\ x \in 1..5)
      BY <2>1, Ids
    <2>5. \A x \in CallData : status'[x] = "INITIALIZED" /\ waits'[x] = Served[i] <=> x = i
      BY <1>14, <2>1, <2>2, <2>3, <2>4, ServedFacts
    <2> QED
      BY <2>2, <2>5
  <1>17. AbortOnlyAtStart' /\ Allocation'
    <2>1. IsFiniteSet(Answered) /\ Cardinality(Answered) \in Nat
      <3>1. IsFiniteSet(Call)
        BY Ids, FS_Interval DEF Call
      <3> QED
        BY <3>1, FS_Subset, FS_CardinalityType DEF Answered
    <2>2. Answered' = Answered
      BY <1>3 DEF Answered
    <2> QED
      BY <1>3, <1>4, <2>1, <2>2, ServedFacts DEF AbortOnlyAtStart, Allocation
  <1> QED
    BY <1>5, <1>9, <1>12, <1>13, <1>15, <1>16, <1>17 DEF GrpcInv

\* A request is matched with the CallData that listens for it.
LEMMA RequestArrivesKeeps ==
  ASSUME GrpcInv, NEW r \in Call, NEW d \in waiting, RequestArrives(r, d)
  PROVE  GrpcInv'
  <1>0. /\ GrpcTypeOK /\ Placed /\ States /\ Matched /\ Calls /\ Phases
        /\ Listeners /\ Allocation /\ AbortOnlyAtStart
    BY DEF GrpcInv
  <1>1. /\ server = "up" /\ stage[r] = "flying" /\ d \in waiting
        /\ stage' = [stage EXCEPT ![r] = "matched"]
        /\ serves' = [serves EXCEPT ![d] = r]
        /\ waiting' = waiting \ {d}
        /\ events' = events \cup {[tag |-> d, ok |-> TRUE]}
        /\ UNCHANGED <<call, method, outcome, server, loop, queueOpen, allocated, status, waits,
                       finishing, freed, dropped, handled>>
    BY DEF RequestArrives, clientVars, dataVars
  <1>2. d \in CallData
    BY <1>0 DEF GrpcTypeOK
  <1>3. GrpcTypeOK'
    <2>1. events' \subseteq Event
      BY <1>0, <1>1, <1>2, EventTypes DEF GrpcTypeOK
    <2> QED
      BY <1>0, <1>1, <1>2, <2>1 DEF GrpcTypeOK
  <1>4. /\ \A q \in Call : stage'[q] = IF q = r THEN "matched" ELSE stage[q]
        /\ \A x \in CallData : serves'[x] = IF x = d THEN r ELSE serves[x]
    BY <1>0, <1>1 DEF GrpcTypeOK
  <1>5. /\ \A x \in CallData : Ok(x)' <=> Ok(x) \/ x = d
        /\ \A x \in CallData : No(x)' <=> No(x)
        /\ \A x \in CallData : x \in waiting' <=> x \in waiting /\ x # d
    BY <1>1 DEF Ok, No
  <1>6. /\ status[d] = "INITIALIZED" /\ serves[d] = NoCall
        /\ d \notin finishing /\ ~Ok(d) /\ ~No(d) /\ d \notin freed /\ d \notin dropped
    BY <1>0, <1>1, <1>2 DEF States, Placed
  <1>7. Placed'
    BY <1>0, <1>1, <1>2, <1>5, <1>6 DEF Placed
  <1>8. \A x \in CallData : serves[x] \in Call \cup {NoCall} /\ serves[x] # r
    BY <1>0, <1>1, Ids DEF GrpcTypeOK, Matched
  <1>9. \A x \in CallData : x # d /\ Lost(x) => Lost(x)'
    BY <1>1, <1>4 DEF Lost
  <1>10. States'
    <2>1. r # NoCall
      BY Ids
    <2>2. ~(d > allocated)
      BY <1>0, <1>2, <1>6 DEF States
    <2> QED
      BY <1>0, <1>1, <1>4, <1>5, <1>6, <1>9, <2>1, <2>2 DEF States
  <1>11. Matched'
    <2>1. \A x, y \in CallData : serves'[x] = serves'[y] /\ serves'[x] # NoCall => x = y
      BY <1>0, <1>4, <1>8 DEF Matched
    <2>2. \A x \in CallData : serves'[x] # NoCall =>
            stage'[serves'[x]] = IF status'[x] = "INITIALIZED" THEN "matched" ELSE "answered"
      BY <1>0, <1>1, <1>4, <1>6, <1>8 DEF Matched
    <2>3. \A q \in Call : handled'[q] = IF stage'[q] = "answered" THEN 1 ELSE 0
      BY <1>0, <1>1, <1>4 DEF Matched
    <2>4. \A q \in Call : outcome'[q] = "true" => stage'[q] = "answered"
      BY <1>0, <1>1, <1>4 DEF Matched
    <2> QED
      BY <2>1, <2>2, <2>3, <2>4 DEF Matched
  <1>12. Calls'
    BY <1>0, <1>1, <1>4 DEF Calls, GrpcTypeOK
  <1>13. Phases'
    BY <1>0, <1>1 DEF Phases
  <1>14. Listeners' /\ AbortOnlyAtStart'
    BY <1>0, <1>1 DEF Listeners, AbortOnlyAtStart
  <1>15. Allocation'
    <2>1. Answered' = Answered
      BY <1>1, <1>4 DEF Answered
    <2> QED
      BY <1>0, <1>1, <2>1 DEF Allocation
  <1> QED
    BY <1>3, <1>7, <1>10, <1>11, <1>12, <1>13, <1>14, <1>15 DEF GrpcInv

\* There are finitely many calls, and an answer is one more.
LEMMA AnsweredFacts ==
  /\ IsFiniteSet(Answered) /\ Cardinality(Answered) \in Nat
  /\ \A r \in Call : r \notin Answered =>
       /\ Cardinality(Answered \cup {r}) = Cardinality(Answered) + 1
       /\ Cardinality(Answered) < MaxCall
  <1>1. IsFiniteSet(Call) /\ Cardinality(Call) = MaxCall
    BY Ids, FS_Interval DEF Call
  <1>2. IsFiniteSet(Answered) /\ Cardinality(Answered) \in Nat
    BY <1>1, FS_Subset, FS_CardinalityType DEF Answered
  <1>3. ASSUME NEW r \in Call, r \notin Answered
        PROVE  /\ Cardinality(Answered \cup {r}) = Cardinality(Answered) + 1
               /\ Cardinality(Answered) < MaxCall
    <2>1. Cardinality(Answered \cup {r}) = Cardinality(Answered) + 1
      BY <1>2, <1>3, FS_AddElement
    <2>2. Answered \cup {r} \subseteq Call
      BY DEF Answered
    <2>3. Cardinality(Answered \cup {r}) <= Cardinality(Call)
      BY <1>1, <2>2, FS_Subset
    <2> QED
      BY <1>1, <1>2, <2>1, <2>3, Ids
  <1> QED
    BY <1>2, <1>3

\* The request is handled, another CallData takes its place.
LEMMA ProcessKeeps ==
  ASSUME GrpcInv, NEW e \in events, loop = "handle", e.ok, status[e.tag] = "INITIALIZED",
         ProcessStatusFunc(e), UNCHANGED <<dropped, clientVars, server, queueOpen, serves>>
  PROVE  GrpcInv'
  <1>0. /\ GrpcTypeOK /\ Placed /\ States /\ Matched /\ Calls /\ Phases
        /\ Listeners /\ Allocation /\ AbortOnlyAtStart
    BY DEF GrpcInv
  <1>1. PICK d \in CallData : e = [tag |-> d, ok |-> TRUE] /\ e.tag = d
    <2>1. e \in Event
      BY <1>0 DEF GrpcTypeOK
    <2>2. e.ok = TRUE
      BY <2>1, EventTypes
    <2> QED
      BY <2>1, <2>2, EventTypes
  <1>2. Ok(d) /\ status[d] = "INITIALIZED"
    BY <1>1 DEF Ok
  <1>3. PICK r \in Call : r = serves[d]
    BY <1>0, <1>2 DEF States, GrpcTypeOK
  <1>4. stage[r] = "matched" /\ r # NoCall /\ r \notin Answered
    BY <1>0, <1>2, <1>3, Ids DEF Matched, Answered
  <1>5. allocated \in Nat /\ allocated + 1 \in CallData
    <2>1. allocated \in Nat /\ allocated <= 5 + Cardinality(Answered)
      BY <1>0, ServedFacts, Ids DEF GrpcTypeOK, Allocation
    <2>2. Cardinality(Answered) < MaxCall /\ Cardinality(Answered) \in Nat
      BY <1>4, AnsweredFacts
    <2> QED
      BY <2>1, <2>2, Ids
  <1>6. PICK n \in CallData : n = allocated + 1
    BY <1>5
  <1>7. queueOpen /\ server # "closed" /\ server # "off"
    <2>1. d \in InProgress
      BY <1>2, <1>3, <1>4 DEF InProgress
    <2>2. server # "closed" /\ server # "off"
      BY <1>0, <2>1 DEF Phases
    <2> QED
      BY <1>0, <2>2 DEF Phases, GrpcTypeOK
  <1>8. /\ allocated' = n
        /\ waits' = [waits EXCEPT ![n] = waits[d]]
        /\ waiting' = waiting \cup (IF server = "up" THEN {n} ELSE {})
        /\ status' = [status EXCEPT ![n] = "INITIALIZED", ![d] = "SERVED"]
        /\ handled' = [handled EXCEPT ![r] = @ + 1]
        /\ stage' = [stage EXCEPT ![r] = "answered"]
        /\ finishing' = finishing \cup {d}
        /\ events' = (events \ {e}) \cup (IF server = "up" THEN {} ELSE {[tag |-> n, ok |-> FALSE]})
        /\ loop' = "handle"
    BY <1>1, <1>3, <1>6, <1>7 DEF ProcessStatusFunc, HandleRequest, New, NewId, Registered, Refused
  <1>9. UNCHANGED <<call, method, outcome, server, queueOpen, serves, freed, dropped>>
    BY DEF ProcessStatusFunc, clientVars
  <1>10. /\ n \in Nat /\ n > allocated /\ ~(n <= allocated)
         /\ \A x \in CallData : x <= n <=> x <= allocated \/ x = n
         /\ \A x \in CallData : x > n => x > allocated /\ x # n
    <2>1. \A x \in CallData : x \in Nat
      BY Ids
    <2> QED
      BY <1>5, <1>6, <2>1
  <1>11. /\ status[n] = "DUMMY" /\ serves[n] = NoCall
         /\ n \notin waiting /\ n \notin finishing /\ ~Ok(n) /\ ~No(n) /\ n \notin freed /\ n \notin dropped
    BY <1>0, <1>10 DEF States, Placed
  <1>12. n # d
    BY <1>2, <1>11
  <1>13. GrpcTypeOK'
    <2>1. allocated' \in 0..(Len(Served) + MaxCall)
      BY <1>8, <1>10, Ids, ServedFacts
    <2>2. events' \subseteq Event
      <3>1. events \ {e} \subseteq Event /\ [tag |-> n, ok |-> FALSE] \in Event
        BY <1>0, EventTypes DEF GrpcTypeOK
      <3>2. CASE server = "up"
        BY <1>8, <3>1, <3>2
      <3>3. CASE server # "up"
        BY <1>8, <3>1, <3>3
      <3> QED
        BY <3>2, <3>3
    <2>3. waiting' \subseteq CallData /\ finishing' \subseteq CallData
      BY <1>0, <1>8 DEF GrpcTypeOK
    <2>4. handled' \in [Call -> Nat]
      BY <1>0, <1>8 DEF GrpcTypeOK
    <2> QED
      BY <1>0, <1>8, <1>9, <2>1, <2>2, <2>3, <2>4 DEF GrpcTypeOK
  <1>14. /\ \A x \in CallData : status'[x] = IF x = d THEN "SERVED"
                                             ELSE IF x = n THEN "INITIALIZED" ELSE status[x]
         /\ \A x \in CallData : waits'[x] = IF x = n THEN waits[d] ELSE waits[x]
         /\ \A q \in Call : stage'[q] = IF q = r THEN "answered" ELSE stage[q]
         /\ \A q \in Call : handled'[q] = IF q = r THEN handled[q] + 1 ELSE handled[q]
    BY <1>0, <1>8 DEF GrpcTypeOK
  <1>15. /\ \A x \in CallData : Ok(x)' <=> Ok(x) /\ x # d
         /\ \A x \in CallData : No(x)' <=> No(x) \/ (x = n /\ server # "up")
         /\ \A x \in CallData : x \in waiting' <=> x \in waiting \/ (x = n /\ server = "up")
         /\ \A x \in CallData : x \in finishing' <=> x \in finishing \/ x = d
    BY <1>1, <1>8 DEF Ok, No
  <1>16. Placed'
    BY <1>0, <1>2, <1>8, <1>9, <1>10, <1>11, <1>12, <1>15 DEF Placed
  <1>17. \A x \in CallData : x # d /\ x # n /\ Lost(x) => Lost(x)'
    BY <1>9, <1>14 DEF Lost
  <1>18. server # "up" => \A x \in CallData : x = n => Lost(x)'
    BY <1>9, <1>11, <1>12, <1>14 DEF Lost
  <1>19. /\ d \notin waiting /\ ~No(d) /\ d \notin freed /\ d \notin dropped /\ ~(d > n)
    <2>1. d <= allocated
      BY <1>0, <1>2 DEF Placed
    <2> QED
      BY <1>0, <1>2, <1>5, <1>6, <2>1, Ids DEF Placed
  <1>20. States'
    <2>1. \A x \in CallData : x > allocated' => status'[x] = "DUMMY" /\ serves'[x] = NoCall
      <3>1. \A x \in CallData : x > n => x # d /\ x # n /\ status[x] = "DUMMY" /\ serves[x] = NoCall
        BY <1>0, <1>10, <1>19 DEF States
      <3>2. \A x \in CallData : x > n => status'[x] = "DUMMY" /\ serves'[x] = NoCall
        BY <1>9, <1>14, <3>1
      <3> QED
        BY <1>8, <3>2
    <2>2. \A x \in CallData : x \in waiting' =>
            status'[x] = "INITIALIZED" /\ serves'[x] = NoCall /\ server' = "up"
      BY <1>0, <1>9, <1>11, <1>12, <1>14, <1>15, <1>19 DEF States
    <2>3. \A x \in CallData : x \in finishing' => status'[x] = "SERVED" /\ serves'[x] # NoCall
      BY <1>0, <1>3, <1>4, <1>9, <1>11, <1>14, <1>15 DEF States
    <2>4. \A x \in CallData : Ok(x)' => status'[x] \in {"INITIALIZED", "SERVED"} /\ serves'[x] # NoCall
      BY <1>0, <1>9, <1>11, <1>14, <1>15 DEF States
    <2>5. \A x \in CallData : No(x)' => Lost(x)'
      BY <1>0, <1>11, <1>15, <1>17, <1>18, <1>19 DEF States
    <2>6. \A x \in CallData : x \in freed' => status'[x] = "FINISH" /\ serves'[x] # NoCall
      BY <1>0, <1>9, <1>11, <1>14, <1>19 DEF States
    <2>7. \A x \in CallData : x \in dropped' => Lost(x)'
      BY <1>0, <1>9, <1>11, <1>17, <1>19 DEF States
    <2> QED
      BY <2>1, <2>2, <2>3, <2>4, <2>5, <2>6, <2>7 DEF States
  <1>21. Matched'
    <2>1. \A x \in CallData : serves[x] \in Call \cup {NoCall} /\ (serves[x] = r => x = d)
      BY <1>0, <1>3, <1>4 DEF GrpcTypeOK, Matched
    <2>2. \A x, y \in CallData : serves'[x] = serves'[y] /\ serves'[x] # NoCall => x = y
      BY <1>0, <1>9 DEF Matched
    <2>3. \A x \in CallData : serves'[x] # NoCall =>
            stage'[serves'[x]] = IF status'[x] = "INITIALIZED" THEN "matched" ELSE "answered"
      BY <1>0, <1>3, <1>9, <1>11, <1>12, <1>14, <2>1 DEF Matched
    <2>4. handled[r] = 0
      BY <1>0, <1>4 DEF Matched
    <2>5. \A q \in Call : handled'[q] = IF stage'[q] = "answered" THEN 1 ELSE 0
      BY <1>0, <1>14, <2>4 DEF Matched
    <2>6. \A q \in Call : outcome'[q] = "true" => stage'[q] = "answered"
      BY <1>0, <1>9, <1>14 DEF Matched
    <2> QED
      BY <2>2, <2>3, <2>5, <2>6 DEF Matched
  <1>22. Calls'
    BY <1>0, <1>9, <1>14 DEF Calls, GrpcTypeOK
  <1>23. Phases'
    BY <1>0, <1>7, <1>8, <1>9 DEF Phases
  <1>24. Listeners'
    <2> SUFFICES ASSUME NEW i \in DOMAIN Served
                 PROVE  \E y \in CallData : \A x \in CallData :
                          status'[x] = "INITIALIZED" /\ waits'[x] = Served[i] <=> x = y
      BY DEF Listeners
    <2>1. PICK y \in CallData : \A x \in CallData :
            status[x] = "INITIALIZED" /\ waits[x] = Served[i] <=> x = y
      BY <1>0 DEF Listeners
    <2>2. CASE y = d
      <3>1. waits[d] = Served[i]
        BY <2>1, <2>2
      <3>2. \A x \in CallData : status'[x] = "INITIALIZED" /\ waits'[x] = Served[i] <=> x = n
        BY <1>12, <1>14, <2>1, <2>2, <3>1
      <3> QED
        BY <3>2
    <2>3. CASE y # d
      <3>1. waits[d] # Served[i]
        BY <1>2, <2>1, <2>3
      <3>2. \A x \in CallData : status'[x] = "INITIALIZED" /\ waits'[x] = Served[i] <=> x = y
        BY <1>11, <1>12, <1>14, <2>1, <2>3, <3>1
      <3> QED
        BY <3>2
    <2> QED
      BY <2>2, <2>3
  <1>25. Allocation'
    <2>1. Answered' = Answered \cup {r}
      BY <1>14 DEF Answered
    <2>2. Cardinality(Answered') = Cardinality(Answered) + 1
      BY <1>4, <2>1, AnsweredFacts
    <2>3. allocated' = allocated + 1
      BY <1>6, <1>8
    <2>4. Cardinality(Answered) \in Nat
      BY AnsweredFacts
    <2> QED
      BY <1>0, <1>5, <2>2, <2>3, <2>4, ServedFacts DEF Allocation
  <1>26. AbortOnlyAtStart'
    BY <1>8 DEF AbortOnlyAtStart
  <1> QED
    BY <1>13, <1>16, <1>20, <1>21, <1>22, <1>23, <1>24, <1>25, <1>26 DEF GrpcInv

\* The reply is out: the CallData is deleted.
LEMMA FinishStatusKeeps ==
  ASSUME GrpcInv, NEW e \in events, loop = "handle", e.ok, status[e.tag] = "SERVED",
         FinishStatusFunc(e), UNCHANGED <<dropped, clientVars, server, queueOpen, serves>>
  PROVE  GrpcInv'
  <1>0. /\ GrpcTypeOK /\ Placed /\ States /\ Matched /\ Calls /\ Phases
        /\ Listeners /\ Allocation /\ AbortOnlyAtStart
    BY DEF GrpcInv
  <1>1. PICK d \in CallData : e = [tag |-> d, ok |-> TRUE] /\ e.tag = d
    <2>1. e \in Event
      BY <1>0 DEF GrpcTypeOK
    <2>2. e.ok = TRUE
      BY <2>1, EventTypes
    <2> QED
      BY <2>1, <2>2, EventTypes
  <1>2. Ok(d) /\ status[d] = "SERVED"
    BY <1>1 DEF Ok
  <1>3. /\ status' = [status EXCEPT ![d] = "FINISH"]
        /\ freed' = freed \cup {d}
        /\ events' = events \ {e}
        /\ UNCHANGED <<call, method, stage, outcome, server, loop, queueOpen, allocated, waits,
                       serves, waiting, finishing, dropped, handled>>
    BY <1>1 DEF FinishStatusFunc, clientVars
  <1>4. GrpcTypeOK'
    BY <1>0, <1>3 DEF GrpcTypeOK
  <1>5. \A x \in CallData : status'[x] = IF x = d THEN "FINISH" ELSE status[x]
    BY <1>0, <1>3 DEF GrpcTypeOK
  <1>6. /\ \A x \in CallData : Ok(x)' <=> Ok(x) /\ x # d
        /\ \A x \in CallData : No(x)' <=> No(x)
        /\ \A x \in CallData : x \in freed' <=> x \in freed \/ x = d
    BY <1>1, <1>3 DEF Ok, No
  <1>7. Placed'
    BY <1>0, <1>2, <1>3, <1>6 DEF Placed
  <1>8. \A x \in CallData : x # d /\ Lost(x) => Lost(x)'
    BY <1>3, <1>5 DEF Lost
  <1>9. d \notin waiting /\ d \notin finishing /\ ~No(d) /\ d \notin dropped /\ ~(d > allocated)
    BY <1>0, <1>2 DEF Placed, States
  <1>10. States'
    BY <1>0, <1>2, <1>3, <1>5, <1>6, <1>8, <1>9 DEF States
  <1>11. Matched'
    BY <1>0, <1>2, <1>3, <1>5 DEF Matched
  <1>12. Calls'
    BY <1>0, <1>3 DEF Calls
  <1>13. Phases'
    <2>1. server' = "closed" => InProgress' = {}
      BY <1>0, <1>2, <1>3, <1>5 DEF Phases, InProgress
    <2>2. /\ server' = "off" <=> loop' = "off"
          /\ queueOpen' <=> server' \in {"up", "closing"}
      BY <1>0, <1>3 DEF Phases
    <2>3. loop' = "handle"
      BY <1>3
    <2> QED
      BY <2>1, <2>2, <2>3 DEF Phases
  <1>14. Listeners'
    <2>1. \A x \in CallData : status'[x] = "INITIALIZED" <=> status[x] = "INITIALIZED"
      BY <1>2, <1>5
    <2> QED
      BY <1>0, <1>3, <2>1 DEF Listeners
  <1>15. Allocation' /\ AbortOnlyAtStart'
    BY <1>0, <1>3 DEF Allocation, Answered, AbortOnlyAtStart
  <1> QED
    BY <1>4, <1>7, <1>10, <1>11, <1>12, <1>13, <1>14, <1>15 DEF GrpcInv

\* A tag that comes without ok is forgotten.
LEMMA DropKeeps ==
  ASSUME GrpcInv, NEW e \in events, loop = "handle", ~e.ok,
         events' = events \ {e}, dropped' = dropped \cup {e.tag},
         UNCHANGED <<dataVars, waiting, loop, handled, stage, finishing, freed>>,
         UNCHANGED <<clientVars, server, queueOpen, serves>>
  PROVE  GrpcInv'
  <1>0. /\ GrpcTypeOK /\ Placed /\ States /\ Matched /\ Calls /\ Phases
        /\ Listeners /\ Allocation /\ AbortOnlyAtStart
    BY DEF GrpcInv
  <1>1. PICK d \in CallData : e = [tag |-> d, ok |-> FALSE] /\ e.tag = d
    <2>1. e \in Event
      BY <1>0 DEF GrpcTypeOK
    <2>2. e.ok = FALSE
      BY <2>1, EventTypes
    <2> QED
      BY <2>1, <2>2, EventTypes
  <1>2. No(d)
    BY <1>1 DEF No
  <1>3. /\ dropped' = dropped \cup {d}
        /\ UNCHANGED <<call, method, stage, outcome, server, loop, queueOpen, allocated, status,
                       waits, serves, waiting, finishing, freed, handled>>
    BY <1>1 DEF clientVars, dataVars
  <1>4. GrpcTypeOK'
    BY <1>0, <1>3 DEF GrpcTypeOK
  <1>5. /\ \A x \in CallData : Ok(x)' <=> Ok(x)
        /\ \A x \in CallData : No(x)' <=> No(x) /\ x # d
        /\ \A x \in CallData : x \in dropped' <=> x \in dropped \/ x = d
    BY <1>1, <1>3 DEF Ok, No
  <1>6. Placed'
    BY <1>0, <1>2, <1>3, <1>5 DEF Placed
  <1>7. \A x \in CallData : Lost(x) => Lost(x)'
    BY <1>3 DEF Lost
  <1>8. States'
    BY <1>0, <1>2, <1>3, <1>5, <1>7 DEF States
  <1>9. Matched' /\ Calls'
    BY <1>0, <1>3 DEF Matched, Calls
  <1>10. Phases'
    BY <1>0, <1>3 DEF Phases, InProgress
  <1>11. Listeners' /\ Allocation' /\ AbortOnlyAtStart'
    BY <1>0, <1>3 DEF Listeners, Allocation, Answered, AbortOnlyAtStart
  <1> QED
    BY <1>4, <1>6, <1>8, <1>9, <1>10, <1>11 DEF GrpcInv

\* One round of the loop.
LEMMA HandleRpcsKeeps ==
  ASSUME GrpcInv, NEW e \in events, HandleRpcs(e)
  PROVE  GrpcInv'
  <1>1. loop = "handle" /\ UNCHANGED <<clientVars, server, queueOpen, serves>>
    BY DEF HandleRpcs
  <1>2. CASE e.ok /\ status[e.tag] = "INITIALIZED" /\ ProcessStatusFunc(e) /\ UNCHANGED dropped
    BY <1>1, <1>2, ProcessKeeps
  <1>3. CASE e.ok /\ status[e.tag] = "SERVED" /\ FinishStatusFunc(e) /\ UNCHANGED dropped
    BY <1>1, <1>3, FinishStatusKeeps
  <1>4. CASE /\ ~e.ok /\ events' = events \ {e} /\ dropped' = dropped \cup {e.tag}
             /\ UNCHANGED <<dataVars, waiting, loop, handled, stage, finishing, freed>>
    BY <1>1, <1>4, DropKeeps
  <1> QED
    BY <1>2, <1>3, <1>4 DEF HandleRpcs, Proceed

\* A reply is out, or its client is gone.
LEMMA FinishCompletesKeeps ==
  ASSUME GrpcInv, NEW d \in finishing, NEW ok \in BOOLEAN, FinishCompletes(d, ok)
  PROVE  GrpcInv'
  <1>0. /\ GrpcTypeOK /\ Placed /\ States /\ Matched /\ Calls /\ Phases
        /\ Listeners /\ Allocation /\ AbortOnlyAtStart
    BY DEF GrpcInv
  <1>1. d \in CallData
    BY <1>0 DEF GrpcTypeOK
  <1>2. /\ finishing' = finishing \ {d}
        /\ UNCHANGED <<call, method, stage, outcome, server, loop, queueOpen, allocated, status,
                       waits, serves, waiting, freed, dropped, handled>>
    BY DEF FinishCompletes, clientVars, dataVars
  <1>3. \/ ok = TRUE /\ events' = events \cup {[tag |-> d, ok |-> TRUE]}
        \/ /\ ok = FALSE /\ events' = events \cup {[tag |-> d, ok |-> FALSE]}
           /\ outcome[serves[d]] = "false"
    BY DEF FinishCompletes
  <1>4. GrpcTypeOK'
    <2>1. events \subseteq Event /\ [tag |-> d, ok |-> TRUE] \in Event /\ [tag |-> d, ok |-> FALSE] \in Event
      BY <1>0, <1>1, EventTypes DEF GrpcTypeOK
    <2>2. events' \subseteq Event
      BY <1>3, <2>1
    <2> QED
      BY <1>0, <1>2, <2>2 DEF GrpcTypeOK
  <1>5. /\ \A x \in CallData : Ok(x)' <=> Ok(x) \/ (x = d /\ ok = TRUE)
        /\ \A x \in CallData : No(x)' <=> No(x) \/ (x = d /\ ok = FALSE)
        /\ \A x \in CallData : x \in finishing' <=> x \in finishing /\ x # d
    BY <1>2, <1>3 DEF Ok, No
  <1>6. /\ status[d] = "SERVED" /\ serves[d] # NoCall
        /\ d \notin waiting /\ ~Ok(d) /\ ~No(d) /\ d \notin freed /\ d \notin dropped
    BY <1>0, <1>1 DEF States, Placed
  <1>7. Placed'
    <2>1. CASE ok = TRUE
      BY <1>0, <1>1, <1>2, <1>5, <1>6, <2>1 DEF Placed
    <2>2. CASE ok = FALSE
      BY <1>0, <1>1, <1>2, <1>5, <1>6, <2>2 DEF Placed
    <2> QED
      BY <1>3, <2>1, <2>2
  <1>8. \A x \in CallData : Lost(x) => Lost(x)'
    BY <1>2 DEF Lost
  <1>9. ok = FALSE => \A x \in CallData : x = d => Lost(x)'
    BY <1>2, <1>3, <1>6 DEF Lost
  <1>10. States'
    BY <1>0, <1>2, <1>5, <1>6, <1>8, <1>9 DEF States
  <1>11. Matched' /\ Calls'
    BY <1>0, <1>2 DEF Matched, Calls
  <1>12. Phases'
    BY <1>0, <1>2 DEF Phases, InProgress
  <1>13. Listeners' /\ Allocation' /\ AbortOnlyAtStart'
    BY <1>0, <1>2 DEF Listeners, Allocation, Answered, AbortOnlyAtStart
  <1> QED
    BY <1>4, <1>7, <1>10, <1>11, <1>12, <1>13 DEF GrpcInv

\* What waits for a request fails.
LEMMA ShutdownKeeps ==
  ASSUME GrpcInv, Shutdown
  PROVE  GrpcInv'
  <1>0. /\ GrpcTypeOK /\ Placed /\ States /\ Matched /\ Calls /\ Phases
        /\ Listeners /\ Allocation /\ AbortOnlyAtStart
    BY DEF GrpcInv
  <1>1. /\ server = "up" /\ server' = "closing" /\ waiting' = {}
        /\ events' = events \cup {[tag |-> d, ok |-> FALSE] : d \in waiting}
        /\ UNCHANGED <<call, method, stage, outcome, loop, queueOpen, allocated, status, waits,
                       serves, finishing, freed, dropped, handled>>
    BY DEF Shutdown, clientVars, dataVars
  <1>2. GrpcTypeOK'
    <2>1. events' \subseteq Event
      BY <1>0, <1>1, EventTypes DEF GrpcTypeOK
    <2> QED
      BY <1>0, <1>1, <2>1 DEF GrpcTypeOK
  <1>3. /\ \A x \in CallData : Ok(x)' <=> Ok(x)
        /\ \A x \in CallData : No(x)' <=> No(x) \/ x \in waiting
    BY <1>1 DEF Ok, No
  <1>4. Placed'
    BY <1>0, <1>1, <1>3 DEF Placed
  <1>5. \A x \in CallData : Lost(x) => Lost(x)'
    BY <1>1 DEF Lost
  <1>6. \A x \in CallData : x \in waiting => Lost(x)'
    BY <1>0, <1>1 DEF Lost, States
  <1>7. States'
    BY <1>0, <1>1, <1>3, <1>5, <1>6 DEF States
  <1>8. Matched' /\ Calls'
    BY <1>0, <1>1 DEF Matched, Calls
  <1>9. Phases'
    BY <1>0, <1>1 DEF Phases
  <1>10. Listeners' /\ Allocation' /\ AbortOnlyAtStart'
    BY <1>0, <1>1 DEF Listeners, Allocation, Answered, AbortOnlyAtStart
  <1> QED
    BY <1>2, <1>4, <1>7, <1>8, <1>9, <1>10 DEF GrpcInv

\* Nothing is in progress when the queue is shut down.
LEMMA ShutdownQueueKeeps ==
  ASSUME GrpcInv, ShutdownQueue
  PROVE  GrpcInv'
  <1>0. /\ GrpcTypeOK /\ Placed /\ States /\ Matched /\ Calls /\ Phases
        /\ Listeners /\ Allocation /\ AbortOnlyAtStart
    BY DEF GrpcInv
  <1>1. /\ server = "closing" /\ InProgress = {} /\ server' = "closed" /\ queueOpen' = FALSE
        /\ UNCHANGED <<call, method, stage, outcome, loop, allocated, status, waits, serves,
                       waiting, finishing, events, freed, dropped, handled>>
    BY DEF ShutdownQueue, clientVars, dataVars
  <1>2. GrpcTypeOK'
    BY <1>0, <1>1 DEF GrpcTypeOK
  <1>3. Placed'
    BY <1>0, <1>1 DEF Placed, Ok, No
  <1>4. \A x \in CallData : Lost(x) => Lost(x)'
    BY <1>1 DEF Lost
  <1>5. States'
    BY <1>0, <1>1, <1>4 DEF States, Ok, No
  <1>6. Matched' /\ Calls'
    BY <1>0, <1>1 DEF Matched, Calls
  <1>7. Phases'
    <2>1. InProgress' = {}
      BY <1>1 DEF InProgress
    <2> QED
      BY <1>0, <1>1, <2>1 DEF Phases
  <1>8. Listeners' /\ Allocation' /\ AbortOnlyAtStart'
    BY <1>0, <1>1 DEF Listeners, Allocation, Answered, AbortOnlyAtStart
  <1> QED
    BY <1>2, <1>3, <1>5, <1>6, <1>7, <1>8 DEF GrpcInv

\* The loop's thread ends.
LEMMA LoopEndsKeeps ==
  ASSUME GrpcInv, LoopEnds
  PROVE  GrpcInv'
  <1>0. /\ GrpcTypeOK /\ Placed /\ States /\ Matched /\ Calls /\ Phases
        /\ Listeners /\ Allocation /\ AbortOnlyAtStart
    BY DEF GrpcInv
  <1>1. /\ loop = "handle" /\ loop' = "done"
        /\ UNCHANGED <<call, method, stage, outcome, server, queueOpen, allocated, status, waits,
                       serves, waiting, finishing, events, freed, dropped, handled>>
    BY DEF LoopEnds, clientVars, dataVars
  <1>2. GrpcTypeOK'
    BY <1>0, <1>1 DEF GrpcTypeOK
  <1>3. Placed' /\ States'
    BY <1>0, <1>1 DEF Placed, States, Ok, No, Lost
  <1>4. Matched' /\ Calls'
    BY <1>0, <1>1 DEF Matched, Calls
  <1>5. Phases'
    BY <1>0, <1>1 DEF Phases, InProgress
  <1>6. Listeners' /\ Allocation' /\ AbortOnlyAtStart'
    BY <1>0, <1>1 DEF Listeners, Allocation, Answered, AbortOnlyAtStart
  <1> QED
    BY <1>2, <1>3, <1>4, <1>5, <1>6 DEF GrpcInv

\* Nothing else of the program touches gRPC's state.
LEMMA GrpcStutters ==
  ASSUME GrpcInv, UNCHANGED grpcVars
  PROVE  GrpcInv'
  <1>0. /\ GrpcTypeOK /\ Placed /\ States /\ Matched /\ Calls /\ Phases
        /\ Listeners /\ Allocation /\ AbortOnlyAtStart
    BY DEF GrpcInv
  <1>1. UNCHANGED <<call, method, stage, outcome, server, loop, queueOpen, allocated, status,
                    waits, serves, waiting, finishing, events, freed, dropped, handled>>
    BY DEF grpcVars
  <1>2. GrpcTypeOK' /\ Placed' /\ States'
    BY <1>0, <1>1 DEF GrpcTypeOK, Placed, States, Ok, No, Lost
  <1>3. Matched' /\ Calls' /\ Phases'
    BY <1>0, <1>1 DEF Matched, Calls, Phases, InProgress
  <1>4. Listeners' /\ Allocation' /\ AbortOnlyAtStart'
    BY <1>0, <1>1 DEF Listeners, Allocation, Answered, AbortOnlyAtStart
  <1> QED
    BY <1>2, <1>3, <1>4 DEF GrpcInv

\* Every step of the gRPC build keeps the invariant.
LEMMA GrpcStepKeeps ==
  ASSUME GrpcInv, GrpcNext
  PROVE  GrpcInv'
  <1>1. CASE \E c \in Client, t \in SendType : AsyncCall(c, t)
    BY <1>1, AsyncCallKeeps
  <1>2. CASE \E c \in Client : AnswerArrives(c) \/ CallFails(c)
    <2>1. PICK c \in Client : AnswerArrives(c) \/ CallFails(c)
      BY <1>2
    <2>2. CASE AnswerArrives(c)
      <3>1. call[c] # NoCall /\ stage[call[c]] = "answered" /\ Returns(c, "true")
        BY <2>2 DEF AnswerArrives
      <3> QED
        BY <3>1, ReturnsKeeps
    <2>3. CASE CallFails(c)
      <3>1. call[c] # NoCall /\ Returns(c, "false") /\ "false" # "true"
        BY <2>3 DEF CallFails
      <3> QED
        BY <3>1, ReturnsKeeps
    <2> QED
      BY <2>1, <2>2, <2>3
  <1>3. CASE PrepareCallData
    BY <1>3, PrepareCallDataKeeps
  <1>4. CASE \E r \in Call, d \in waiting : RequestArrives(r, d)
    BY <1>4, RequestArrivesKeeps
  <1>5. CASE \E e \in events : HandleRpcs(e)
    BY <1>5, HandleRpcsKeeps
  <1>6. CASE \E d \in finishing, ok \in BOOLEAN : FinishCompletes(d, ok)
    BY <1>6, FinishCompletesKeeps
  <1>7. CASE Shutdown
    BY <1>7, ShutdownKeeps
  <1>8. CASE ShutdownQueue
    BY <1>8, ShutdownQueueKeeps
  <1>9. CASE LoopEnds
    BY <1>9, LoopEndsKeeps
  <1> QED
    BY <1>1, <1>2, <1>3, <1>4, <1>5, <1>6, <1>7, <1>8, <1>9 DEF GrpcNext

\* Before Start nothing is there.
LEMMA GrpcInitHolds == GrpcInit => GrpcInv
  <1> SUFFICES ASSUME GrpcInit PROVE GrpcInv
    OBVIOUS
  <1>1. GrpcTypeOK
    <2>1. allocated \in 0..(Len(Served) + MaxCall)
      BY Ids, ServedFacts DEF GrpcInit
    <2>2. /\ call \in [Client -> Call \cup {NoCall}] /\ method \in [Call -> Method \cup {NoMethod}]
          /\ stage \in [Call -> {"none", "flying", "matched", "answered"}]
          /\ outcome \in [Call -> {"pending", "true", "false"}] /\ handled \in [Call -> Nat]
      BY DEF GrpcInit
    <2>3. /\ status \in [CallData -> {"DUMMY", "INITIALIZED", "SERVED", "FINISH"}]
          /\ waits \in [CallData -> Method \cup {NoMethod}]
          /\ serves \in [CallData -> Call \cup {NoCall}]
      BY DEF GrpcInit
    <2> QED
      BY <2>1, <2>2, <2>3 DEF GrpcInit, GrpcTypeOK
  <1>2. /\ \A d \in CallData : d > allocated /\ ~(d <= allocated) /\ ~Ok(d) /\ ~No(d)
        /\ \A d \in CallData : status[d] = "DUMMY" /\ serves[d] = NoCall
    BY Ids DEF GrpcInit, Ok, No
  <1>3. Placed /\ States
    BY <1>2 DEF GrpcInit, Placed, States
  <1>4. Matched
    BY <1>2 DEF GrpcInit, Matched
  <1>5. Calls
    BY DEF GrpcInit, Calls
  <1>6. Phases
    BY <1>2, ServedFacts DEF GrpcInit, Phases
  <1>7. Listeners /\ AbortOnlyAtStart
    BY DEF GrpcInit, Listeners, AbortOnlyAtStart
  <1>8. Allocation
    BY AnsweredFacts, ServedFacts DEF GrpcInit, Allocation
  <1> QED
    BY <1>1, <1>3, <1>4, <1>5, <1>6, <1>7, <1>8 DEF GrpcInv

\* What the invariant says of Send's result, of the listeners and of the
\* CallData.
LEMMA GrpcInvImplies ==
  ASSUME GrpcInv
  PROVE  AckedWasHandled /\ OneListener /\ CallDataOwnedOnce /\ AbortOnlyAtStart
  <1>0. /\ GrpcTypeOK /\ Placed /\ States /\ Matched /\ Calls /\ Phases
        /\ Listeners /\ Allocation /\ AbortOnlyAtStart
    BY DEF GrpcInv
  <1>1. AckedWasHandled
    BY <1>0 DEF Matched, AckedWasHandled
  <1>2. OneListener
    BY <1>0 DEF Listeners, OneListener
  <1>3. CallDataOwnedOnce
    <2> DEFINE Tags(ok) == {e.tag : e \in {x \in events : x.ok = ok}}
               place == <<waiting, finishing, Tags(TRUE), Tags(FALSE), freed, dropped>>
    <2>1. Tags(TRUE) = {d \in CallData : Ok(d)} /\ Tags(FALSE) = {d \in CallData : No(d)}
      <3>1. \A e \in events : /\ e.tag \in CallData /\ e.ok \in BOOLEAN
                              /\ e = [tag |-> e.tag, ok |-> e.ok]
        BY <1>0, EventTypes DEF GrpcTypeOK
      <3>2. \A d : d \in Tags(TRUE) => d \in CallData /\ Ok(d)
        BY <3>1 DEF Ok
      <3>3. \A d : d \in Tags(FALSE) => d \in CallData /\ No(d)
        BY <3>1 DEF No
      <3>4. \A d \in CallData : Ok(d) => d \in Tags(TRUE)
        BY DEF Ok
      <3>5. \A d \in CallData : No(d) => d \in Tags(FALSE)
        BY DEF No
      <3> QED
        BY <3>2, <3>3, <3>4, <3>5
    <2> HIDE DEF Tags
    <2>2. /\ DOMAIN place = 1..6 /\ place[1] = waiting /\ place[2] = finishing
          /\ place[3] = Tags(TRUE) /\ place[4] = Tags(FALSE) /\ place[5] = freed
          /\ place[6] = dropped
      OBVIOUS
    <2> HIDE DEF place
    <2>3. \A i \in 1..6 : i = 1 \/ i = 2 \/ i = 3 \/ i = 4 \/ i = 5 \/ i = 6
      OBVIOUS
    <2>4. \A i \in 1..6 : place[i] \subseteq CallData
      <3>1. /\ waiting \subseteq CallData /\ finishing \subseteq CallData /\ freed \subseteq CallData
            /\ dropped \subseteq CallData
        BY <1>0 DEF GrpcTypeOK
      <3>2. Tags(TRUE) \subseteq CallData /\ Tags(FALSE) \subseteq CallData
        BY <2>1
      <3> QED
        BY <2>2, <2>3, <3>1, <3>2
    <2>5. \A d \in CallData :
            /\ d \in place[1] <=> d \in waiting
            /\ d \in place[2] <=> d \in finishing
            /\ d \in place[3] <=> Ok(d)
            /\ d \in place[4] <=> No(d)
            /\ d \in place[5] <=> d \in freed
            /\ d \in place[6] <=> d \in dropped
      BY <2>1, <2>2
    <2>6. \A d \in CallData : d <= allocated <=> \E i \in 1..6 : d \in place[i]
      <3>1. \A d \in CallData : (\E i \in 1..6 : d \in place[i]) <=>
              \/ d \in place[1] \/ d \in place[2] \/ d \in place[3]
              \/ d \in place[4] \/ d \in place[5] \/ d \in place[6]
        BY <2>3
      <3> QED
        BY <1>0, <2>5, <3>1 DEF Placed
    <2>7. UNION {place[i] : i \in DOMAIN place} = 1..allocated
      <3>1. \A d : d \in 1..allocated <=> d \in CallData /\ d <= allocated
        <4>1. allocated \in Nat /\ allocated <= 5 + MaxCall
          BY <1>0, Ids, ServedFacts DEF GrpcTypeOK
        <4> QED
          BY <4>1, Ids
      <3>2. \A d : d \in UNION {place[i] : i \in 1..6} <=> \E i \in 1..6 : d \in place[i]
        OBVIOUS
      <3>3. \A d : d \in UNION {place[i] : i \in 1..6} <=> d \in 1..allocated
        BY <2>4, <2>6, <3>1, <3>2
      <3> QED
        BY <2>2, <3>3
    <2>8. \A i, j \in DOMAIN place : i # j => place[i] \cap place[j] = {}
      <3>1. \A i, j \in 1..6 : \A d \in CallData : i < j => ~(d \in place[i] /\ d \in place[j])
        <4> SUFFICES ASSUME NEW i \in 1..6, NEW j \in 1..6, NEW d \in CallData, i < j,
                            d \in place[i], d \in place[j]
                     PROVE  FALSE
          OBVIOUS
        <4>1. CASE i = 1
          BY <1>0, <2>5, <2>3, <4>1 DEF Placed
        <4>2. CASE i = 2
          BY <1>0, <2>5, <2>3, <4>2 DEF Placed
        <4>3. CASE i = 3
          BY <1>0, <2>5, <2>3, <4>3 DEF Placed
        <4>4. CASE i = 4
          BY <1>0, <2>5, <2>3, <4>4 DEF Placed
        <4>5. CASE i = 5
          BY <1>0, <2>5, <2>3, <4>5 DEF Placed
        <4> QED
          BY <2>3, <4>1, <4>2, <4>3, <4>4, <4>5
      <3>2. \A i, j \in 1..6 : i # j => i < j \/ j < i
        OBVIOUS
      <3> QED
        BY <2>2, <2>4, <3>1, <3>2
    <2>9. \A d \in dropped : \/ server # "up"
                             \/ serves[d] # NoCall /\ outcome[serves[d]] = "false"
      BY <1>0 DEF States, Lost, GrpcTypeOK
    <2> QED
      BY <2>7, <2>8, <2>9 DEF CallDataOwnedOnce, place, Tags
  <1> QED
    BY <1>0, <1>1, <1>2, <1>3

-----------------------------------------------------------------------------
(* UDP: every step keeps the invariant.                                    *)

\* How often a datagram is in a bag.
LEMMA CountFacts ==
  ASSUME NEW B, IsABag(B)
  PROVE  /\ \A d : Count(B, d) \in Nat
         /\ \A d : BagIn(d, B) <=> Count(B, d) >= 1
  <1>1. \A d \in DOMAIN B : B[d] \in Nat /\ B[d] > 0
    BY DEF IsABag
  <1> QED
    BY <1>1 DEF Count, BagIn, BagToSet

\* A datagram is put into a bag.
LEMMA BagAdd ==
  ASSUME NEW B, IsABag(B), NEW d
  PROVE  /\ IsABag(B (+) One(d))
         /\ BagToSet(B (+) One(d)) = BagToSet(B) \cup {d}
         /\ \A e : Count(B (+) One(d), e) = Count(B, e) + (IF e = d THEN 1 ELSE 0)
  <1> DEFINE C == B (+) One(d)
  <1>1. \A e \in DOMAIN B : B[e] \in Nat /\ B[e] > 0
    BY DEF IsABag
  <1>2. One(d) = [e \in {d} |-> 1]
    BY DEF One, SetToBag
  <1>3. C = [e \in (DOMAIN B) \cup {d} |->
               (IF e \in DOMAIN B THEN B[e] ELSE 0) + (IF e \in {d} THEN One(d)[e] ELSE 0)]
    BY <1>2 DEF (+)
  <1>4. /\ DOMAIN C = (DOMAIN B) \cup {d}
        /\ \A e \in (DOMAIN B) \cup {d} :
             C[e] = (IF e \in DOMAIN B THEN B[e] ELSE 0) + (IF e = d THEN 1 ELSE 0)
    BY <1>2, <1>3
  <1>5. C = [e \in DOMAIN C |-> C[e]]
    BY <1>3
  <1> HIDE DEF C
  <1>6. \A e \in DOMAIN C : C[e] \in Nat /\ C[e] > 0
    BY <1>1, <1>4
  <1>7. IsABag(C) /\ BagToSet(C) = BagToSet(B) \cup {d}
    BY <1>4, <1>5, <1>6 DEF IsABag, BagToSet
  <1>8. \A e : Count(C, e) = Count(B, e) + (IF e = d THEN 1 ELSE 0)
    BY <1>1, <1>4 DEF Count, BagIn, BagToSet
  <1> QED
    BY <1>7, <1>8 DEF C

\* A datagram is taken out of a bag.
LEMMA BagRemove ==
  ASSUME NEW B, IsABag(B), NEW d, BagIn(d, B)
  PROVE  /\ IsABag(B (-) One(d))
         /\ BagToSet(B (-) One(d)) \subseteq BagToSet(B)
         /\ \A e : Count(B (-) One(d), e) = Count(B, e) - (IF e = d THEN 1 ELSE 0)
  <1> DEFINE C == B (-) One(d)
             D == [e \in DOMAIN B |-> IF e \in DOMAIN One(d) THEN B[e] - One(d)[e] ELSE B[e]]
  <1>1. \A e \in DOMAIN B : B[e] \in Nat /\ B[e] > 0
    BY DEF IsABag
  <1>2. DOMAIN One(d) = {d} /\ One(d)[d] = 1
    BY DEF One, SetToBag
  <1>3. C = [e \in {x \in DOMAIN D : D[x] > 0} |-> D[e]]
    BY DEF (-)
  <1>4. DOMAIN D = DOMAIN B /\ \A e \in DOMAIN B : D[e] = B[e] - (IF e = d THEN 1 ELSE 0)
    BY <1>1, <1>2
  <1>5. /\ DOMAIN C = {x \in DOMAIN D : D[x] > 0} /\ \A e \in DOMAIN C : C[e] = D[e]
        /\ C = [e \in DOMAIN C |-> C[e]]
    BY <1>3
  <1> HIDE DEF C, D
  <1>6. \A e \in DOMAIN C : C[e] \in Nat /\ C[e] > 0
    BY <1>1, <1>4, <1>5
  <1>7. IsABag(C) /\ BagToSet(C) \subseteq BagToSet(B)
    BY <1>4, <1>5, <1>6 DEF IsABag, BagToSet
  <1>8. \A e : Count(C, e) = Count(B, e) - (IF e = d THEN 1 ELSE 0)
    BY <1>1, <1>4, <1>5 DEF Count, BagIn, BagToSet
  <1> QED
    BY <1>7, <1>8 DEF C

\* The messages that are sent.
LEMMA SentFacts ==
  /\ MaxSend \in Nat /\ MaxCopy \in Nat
  /\ \A s \in Sender, n \in 1..MaxSend :
       Sent(s, n) \in Datagram /\ Sent(s, n).sender = s /\ Sent(s, n).number = n /\ ~Sent(s, n).empty
  /\ \A d \in Datagram : d.sender \in Sender /\ d.number \in 1..MaxSend /\ d.empty \in BOOLEAN
  /\ \A d \in Datagram : ~d.empty => d = Sent(d.sender, d.number)
  /\ \A s, n, t, m : Sent(s, n) = Sent(t, m) <=> s = t /\ n = m
  <1>1. MaxSend \in Nat /\ MaxCopy \in Nat
    BY UdpAssumption
  <1>2. \A s \in Sender, n \in 1..MaxSend :
          Sent(s, n) \in Datagram /\ Sent(s, n).sender = s /\ Sent(s, n).number = n /\ ~Sent(s, n).empty
    BY DEF Sent, Datagram
  <1>3. \A d \in Datagram : d.sender \in Sender /\ d.number \in 1..MaxSend /\ d.empty \in BOOLEAN
    BY DEF Datagram
  <1>4. ASSUME NEW d \in Datagram, ~d.empty PROVE d = Sent(d.sender, d.number)
    <2>1. d = [sender |-> d.sender, number |-> d.number, empty |-> d.empty]
      BY DEF Datagram
    <2>2. d.empty = FALSE
      BY <1>3, <1>4
    <2> QED
      BY <2>1, <2>2 DEF Sent
  <1>5. ASSUME NEW s, NEW n, NEW t, NEW m PROVE Sent(s, n) = Sent(t, m) <=> s = t /\ n = m
    <2>1. Sent(s, n).sender = s /\ Sent(s, n).number = n /\ Sent(t, m).sender = t /\ Sent(t, m).number = m
      BY DEF Sent
    <2>2. ASSUME Sent(s, n) = Sent(t, m) PROVE s = t /\ n = m
      BY <2>1, <2>2
    <2>3. ASSUME s = t /\ n = m PROVE Sent(s, n) = Sent(t, m)
      BY <2>3
    <2> QED
      BY <2>2, <2>3
  <1> QED
    BY <1>1, <1>2, <1>3, <1>4, <1>5

\* The types of what the balance is made of.
ExcessTyped ==
  \A s \in Sender, n \in 1..MaxSend : Live(s, n) \in Nat /\ Excess(s, n) \in Nat

\* They follow from those of the state.
LEMMA ExcessTypes == UdpTypeOK => ExcessTyped
  <1> SUFFICES ASSUME UdpTypeOK, NEW s \in Sender, NEW n \in 1..MaxSend
               PROVE  Live(s, n) \in Nat /\ Excess(s, n) \in Nat
    BY DEF ExcessTyped
  <1>1. Count(requests, Sent(s, n)) \in Nat /\ Count(echoes, Sent(s, n)) \in Nat
    BY CountFacts DEF UdpTypeOK
  <1>2. Live(s, n) \in Nat
    BY <1>1 DEF Live
  <1> QED
    BY <1>2 DEF Excess

\* A step after which no Send needs more duplicated datagrams than before.
LEMMA SurplusShrinks ==
  ASSUME UdpTypeOK, UdpTypeOK', Balance, copies' = copies \/ copies' = copies + 1,
         \A s \in Sender, n \in 1..MaxSend : Excess(s, n)' <= Excess(s, n)
  PROVE  Balance'
  <1>1. \A s \in Sender, n \in 1..MaxSend : Excess(s, n) \in Nat /\ Excess(s, n)' \in Nat
    <2>1. ExcessTyped /\ ExcessTyped'
      BY ExcessTypes, PTL
    <2> QED
      BY <2>1 DEF ExcessTyped
  <1>2. Surplus' \subseteq Surplus
    <2> SUFFICES ASSUME NEW s \in Sender, NEW n \in 1..MaxSend, NEW k \in Nat,
                        1 <= k, k <= Excess(s, n)'
                 PROVE  <<s, n, k>> \in Surplus
      BY DEF Surplus
    <2>1. k <= Excess(s, n)
      BY <1>1
    <2> QED
      BY <2>1 DEF Surplus
  <1>3. IsFiniteSet(Surplus') /\ Cardinality(Surplus') <= Cardinality(Surplus)
    BY <1>2, FS_Subset DEF Balance
  <1>4. /\ Cardinality(Surplus) \in Nat /\ Cardinality(Surplus') \in Nat /\ copies \in Nat
        /\ copies' \in Nat
    BY <1>3, FS_CardinalityType DEF Balance, UdpTypeOK
  <1> QED
    BY <1>3, <1>4 DEF Balance

\* A set with one element more has at most one element more.
LEMMA OneMore ==
  ASSUME NEW S, NEW T, NEW z, IsFiniteSet(S), T \subseteq S \cup {z}
  PROVE  /\ IsFiniteSet(T) /\ Cardinality(T) \in Nat /\ Cardinality(S) \in Nat
         /\ Cardinality(T) <= Cardinality(S) + 1
  <1>1. IsFiniteSet(S \cup {z}) /\ Cardinality(S) \in Nat
    BY FS_AddElement, FS_CardinalityType
  <1>2. Cardinality(S \cup {z}) = Cardinality(S) \/ Cardinality(S \cup {z}) = Cardinality(S) + 1
    BY FS_AddElement
  <1>3. IsFiniteSet(T) /\ Cardinality(T) <= Cardinality(S \cup {z})
    BY <1>1, FS_Subset
  <1>4. Cardinality(T) \in Nat
    BY <1>3, FS_CardinalityType
  <1> QED
    BY <1>1, <1>2, <1>3, <1>4

\* A step that duplicates a datagram of one Send.
LEMMA SurplusGrows ==
  ASSUME UdpTypeOK, UdpTypeOK', Balance, copies' = copies + 1,
         NEW t \in Sender, NEW m \in 1..MaxSend, Excess(t, m)' <= Excess(t, m) + 1,
         \A s \in Sender, n \in 1..MaxSend : (s = t /\ n = m) \/ Excess(s, n)' <= Excess(s, n)
  PROVE  Balance'
  <1>1. \A s \in Sender, n \in 1..MaxSend : Excess(s, n) \in Nat /\ Excess(s, n)' \in Nat
    <2>1. ExcessTyped /\ ExcessTyped'
      BY ExcessTypes, PTL
    <2> QED
      BY <2>1 DEF ExcessTyped
  <1>2. PICK j \in Nat : j = Excess(t, m) + 1
    BY <1>1
  <1>3. Surplus' \subseteq Surplus \cup {<<t, m, j>>}
    <2> SUFFICES ASSUME NEW s \in Sender, NEW n \in 1..MaxSend, NEW k \in Nat,
                        1 <= k, k <= Excess(s, n)'
                 PROVE  <<s, n, k>> \in Surplus \cup {<<t, m, j>>}
      BY DEF Surplus
    <2>1. k <= Excess(s, n) \/ (s = t /\ n = m /\ k = j)
      BY <1>1, <1>2
    <2>2. CASE k <= Excess(s, n)
      BY <2>2 DEF Surplus
    <2>3. CASE s = t /\ n = m /\ k = j
      BY <2>3
    <2> QED
      BY <2>1, <2>2, <2>3
  <1>4. IsFiniteSet(Surplus) /\ Cardinality(Surplus) <= copies /\ copies \in Nat
    BY DEF Balance, UdpTypeOK
  <1>5. /\ IsFiniteSet(Surplus') /\ Cardinality(Surplus') \in Nat /\ Cardinality(Surplus) \in Nat
        /\ Cardinality(Surplus') <= Cardinality(Surplus) + 1
    BY <1>3, <1>4, OneMore
  <1> QED
    BY <1>4, <1>5 DEF Balance

\* A step that takes a duplicated datagram of one Send for another's answer.
LEMMA SurplusMoves ==
  ASSUME UdpTypeOK, UdpTypeOK', Balance, copies' = copies,
         NEW t \in Sender, NEW m \in 1..MaxSend, NEW q \in 1..MaxSend, m # q,
         Excess(t, m) >= 1, Excess(t, m)' <= Excess(t, m) - 1, Excess(t, q)' <= Excess(t, q) + 1,
         \A s \in Sender, n \in 1..MaxSend : (s = t /\ n = q) \/ Excess(s, n)' <= Excess(s, n)
  PROVE  Balance'
  <1>1. \A s \in Sender, n \in 1..MaxSend : Excess(s, n) \in Nat /\ Excess(s, n)' \in Nat
    <2>1. ExcessTyped /\ ExcessTyped'
      BY ExcessTypes, PTL
    <2> QED
      BY <2>1 DEF ExcessTyped
  <1>2. PICK i \in Nat : i = Excess(t, m)
    BY <1>1
  <1>3. PICK j \in Nat : j = Excess(t, q) + 1
    BY <1>1
  <1>4. <<t, m, i>> \in Surplus
    BY <1>2 DEF Surplus
  <1>5. Surplus' \subseteq (Surplus \ {<<t, m, i>>}) \cup {<<t, q, j>>}
    <2> SUFFICES ASSUME NEW s \in Sender, NEW n \in 1..MaxSend, NEW k \in Nat,
                        1 <= k, k <= Excess(s, n)'
                 PROVE  <<s, n, k>> \in (Surplus \ {<<t, m, i>>}) \cup {<<t, q, j>>}
      BY DEF Surplus
    <2>1. (k <= Excess(s, n) /\ ~(s = t /\ n = m /\ k = i)) \/ (s = t /\ n = q /\ k = j)
      BY <1>1, <1>2, <1>3
    <2>2. CASE k <= Excess(s, n) /\ ~(s = t /\ n = m /\ k = i)
      <3>1. <<s, n, k>> \in Surplus
        BY <2>2 DEF Surplus
      <3>2. <<s, n, k>> # <<t, m, i>>
        BY <2>2
      <3> QED
        BY <3>1, <3>2
    <2>3. CASE s = t /\ n = q /\ k = j
      BY <2>3
    <2> QED
      BY <2>1, <2>2, <2>3
  <1>6. IsFiniteSet(Surplus) /\ Cardinality(Surplus) <= copies /\ copies \in Nat
    BY DEF Balance, UdpTypeOK
  <1>7. /\ IsFiniteSet(Surplus \ {<<t, m, i>>})
        /\ Cardinality(Surplus \ {<<t, m, i>>}) = Cardinality(Surplus) - 1
    BY <1>4, <1>6, FS_RemoveElement
  <1>8. /\ IsFiniteSet(Surplus') /\ Cardinality(Surplus') \in Nat
        /\ Cardinality(Surplus') <= Cardinality(Surplus \ {<<t, m, i>>}) + 1
    BY <1>5, <1>7, OneMore
  <1>9. Cardinality(Surplus) \in Nat
    BY <1>6, FS_CardinalityType
  <1> QED
    BY <1>6, <1>7, <1>8, <1>9 DEF Balance

\* The buffer holds at most one datagram.
LEMMA BufferHoldsOne == Buffer => Cardinality(data) <= 1
  <1>1. Cardinality({}) = 0
    BY FS_EmptySet
  <1>2. ASSUME NEW d \in Datagram PROVE Cardinality({d}) = 1
    BY FS_Singleton
  <1> QED
    BY <1>1, <1>2 DEF Buffer

\* A Send begins: its datagram is the first of its number.
LEMMA UdpSendKeeps ==
  ASSUME UdpInv, NEW s \in Sender, NEW empty \in BOOLEAN, UdpSend(s, empty)
  PROVE  UdpInv'
  <1>0. UdpTypeOK /\ Buffer /\ Handled /\ Acked /\ Balance
    BY DEF UdpInv
  <1>1. sends[s] \in Nat /\ sends[s] < MaxSend /\ sends[s] + 1 \in 1..MaxSend
    BY <1>0, SentFacts DEF UdpTypeOK, UdpSend
  <1>2. PICK n \in 1..MaxSend : n = sends[s] + 1
    BY <1>1
  <1>3. PICK d \in Datagram : d = [sender |-> s, number |-> n, empty |-> empty]
    BY DEF Datagram
  <1>4. d.sender = s /\ d.number = n /\ d.empty = empty
    BY <1>3
  <1>5. /\ awaits[s] = "none" /\ sends' = [sends EXCEPT ![s] = n]
        /\ awaits' = [awaits EXCEPT ![s] = IF empty THEN "empty" ELSE "data"]
        /\ requests' = requests (+) One(d)
        /\ UNCHANGED <<echoes, serving, data, copies, lost, ran, acked>>
    BY <1>2, <1>3 DEF UdpSend
  <1>6. /\ IsABag(requests') /\ BagToSet(requests') = BagToSet(requests) \cup {d}
        /\ \A e : Count(requests', e) = Count(requests, e) + (IF e = d THEN 1 ELSE 0)
    BY <1>0, <1>5, BagAdd DEF UdpTypeOK
  <1>7. \A e : Count(requests, e) \in Nat /\ Count(echoes, e) \in Nat
    BY <1>0, CountFacts DEF UdpTypeOK
  <1>8. \A t \in Sender : sends'[t] = IF t = s THEN n ELSE sends[t]
    BY <1>0, <1>5 DEF UdpTypeOK
  <1>9. /\ awaits'[s] \in {"data", "empty"}
        /\ \A t \in Sender : t # s => awaits'[t] = awaits[t]
        /\ awaits' \in [Sender -> {"none", "data", "empty"}]
    BY <1>0, <1>5 DEF UdpTypeOK
  <1>10. UdpTypeOK'
    <2>1. BagToSet(requests') \subseteq Datagram
      BY <1>0, <1>6 DEF UdpTypeOK
    <2>2. sends' \in [Sender -> 0..MaxSend]
      <3>1. n \in 0..MaxSend
        BY <1>1, <1>2
      <3> QED
        BY <1>0, <1>5, <3>1 DEF UdpTypeOK
    <2> QED
      BY <1>0, <1>5, <1>6, <1>9, <2>1, <2>2 DEF UdpTypeOK
  <1>11. Buffer'
    BY <1>0, <1>5 DEF Buffer
  <1>12. ran[d] = 0 /\ ~BagIn(d, requests) /\ Count(requests, d) = 0 /\ d \notin data /\ ~BagIn(d, echoes)
    <2>1. d.number > sends[d.sender]
      BY <1>1, <1>2, <1>4
    <2>2. ran[d] = 0 /\ ~BagIn(d, requests)
      BY <1>0, <2>1 DEF Handled
    <2> QED
      BY <1>0, <2>2 DEF Handled, Count
  <1>13. Handled'
    <2> SUFFICES ASSUME NEW x \in Datagram
                 PROVE  /\ x \in data' \/ BagIn(x, echoes') => ~x.empty /\ ran'[x] >= 1
                        /\ Count(requests', x) + ran'[x] <= 1 + copies'
                        /\ x.number > sends'[x.sender] => ran'[x] = 0 /\ ~BagIn(x, requests')
      BY DEF Handled
    <2>1. x \in data' \/ BagIn(x, echoes') => ~x.empty /\ ran'[x] >= 1
      BY <1>0, <1>5 DEF Handled
    <2>2. Count(requests', x) + ran'[x] <= 1 + copies'
      <3>1. Count(requests, x) + ran[x] <= 1 + copies /\ copies \in Nat
        BY <1>0 DEF Handled, UdpTypeOK
      <3>2. CASE x = d
        <4>1. Count(requests', x) = 1 /\ ran'[x] = 0 /\ copies' = copies
          BY <1>5, <1>6, <1>12, <3>2
        <4> QED
          BY <3>1, <4>1
      <3>3. CASE x # d
        <4>1. Count(requests', x) = Count(requests, x)
          BY <1>6, <1>7, <3>3
        <4> QED
          BY <1>5, <3>1, <4>1
      <3> QED
        BY <3>2, <3>3
    <2>3. ASSUME x.number > sends'[x.sender] PROVE ran'[x] = 0 /\ ~BagIn(x, requests')
      <3>1. x.sender \in Sender /\ x.number \in Nat /\ sends[x.sender] \in Nat
        BY <1>0, SentFacts DEF UdpTypeOK
      <3>2. x.number > sends[x.sender] /\ x # d
        BY <1>2, <1>4, <1>8, <2>3, <3>1
      <3>3. ran[x] = 0 /\ ~BagIn(x, requests)
        BY <1>0, <3>2 DEF Handled
      <3> QED
        BY <1>5, <1>6, <3>2, <3>3 DEF BagIn
    <2> QED
      BY <2>1, <2>2, <2>3
  <1>14. Acked'
    <2>1. acked'[s] = 1..(n - 1) /\ n >= 1
      <3>1. acked[s] = 1..sends[s]
        BY <1>0, <1>5 DEF Acked
      <3>2. sends[s] = n - 1
        BY <1>1, <1>2
      <3> QED
        BY <1>5, <3>1, <3>2
    <2>2. \A t \in Sender : t # s => acked'[t] = acked[t] /\ sends'[t] = sends[t] /\ awaits'[t] = awaits[t]
      BY <1>5, <1>8, <1>9
    <2>3. sends'[s] = n /\ awaits'[s] # "none"
      BY <1>8, <1>9
    <2> QED
      BY <1>0, <2>1, <2>2, <2>3 DEF Acked
  <1>15. Balance'
    <2>1. ASSUME NEW t \in Sender, NEW k \in 1..MaxSend PROVE Excess(t, k)' <= Excess(t, k)
      <3>1. Live(t, k) \in Nat /\ Excess(t, k) \in Nat
        BY <1>0, ExcessTypes DEF ExcessTyped
      <3>2. CASE Sent(t, k) = d
        <4>1. t = s /\ k = n
          BY <1>4, <3>2, SentFacts
        <4>2. k \notin acked[t]
          <5>1. acked[s] = 1..sends[s]
            BY <1>0, <1>5 DEF Acked
          <5> QED
            BY <1>1, <1>2, <4>1, <5>1
        <4>3. Live(t, k)' = 1
          BY <1>5, <1>6, <1>12, <3>2 DEF Live, Count
        <4> QED
          BY <1>5, <3>1, <4>2, <4>3 DEF Excess
      <3>3. CASE Sent(t, k) # d
        <4>1. Live(t, k)' = Live(t, k)
          BY <1>5, <1>6, <1>7, <3>3 DEF Live
        <4>2. Excess(t, k)' = Excess(t, k)
          BY <1>5, <4>1 DEF Excess
        <4> QED
          BY <3>1, <4>2
      <3> QED
        BY <3>2, <3>3
    <2> QED
      BY <1>0, <1>5, <1>10, <2>1, SurplusShrinks
  <1> QED
    BY <1>10, <1>11, <1>13, <1>14, <1>15 DEF UdpInv

\* Any datagram ends the wait: one that answers an earlier Send is a copy,
\* and moves its surplus to the Send it ends.
LEMMA EchoArrivesKeeps ==
  ASSUME UdpInv, NEW e \in BagToSet(echoes), EchoArrives(e)
  PROVE  UdpInv'
  <1>0. UdpTypeOK /\ Buffer /\ Handled /\ Acked /\ Balance
    BY DEF UdpInv
  <1>1. e \in Datagram /\ BagIn(e, echoes)
    BY <1>0 DEF UdpTypeOK, BagIn
  <1>2. PICK s \in Sender : s = e.sender
    BY <1>1, SentFacts
  <1>3. PICK m \in 1..MaxSend : m = e.number
    BY <1>1, SentFacts
  <1>4. ~e.empty /\ ran[e] >= 1 /\ ran[e] \in Nat /\ ran[e] # 0
    <2>1. ~e.empty /\ ran[e] >= 1
      BY <1>0, <1>1 DEF Handled
    <2>2. ran[e] \in Nat
      BY <1>0, <1>1 DEF UdpTypeOK
    <2> QED
      BY <2>1, <2>2
  <1>5. e = Sent(s, m)
    BY <1>1, <1>2, <1>3, <1>4, SentFacts
  <1>6. awaits[s] # "none" /\ sends[s] \in 0..MaxSend /\ sends[s] >= 1 /\ acked[s] = 1..(sends[s] - 1)
    BY <1>0, <1>2 DEF EchoArrives, Acked, UdpTypeOK
  <1>7. PICK n \in 1..MaxSend : n = sends[s]
    BY <1>6, SentFacts
  <1>8. /\ echoes' = echoes (-) One(e)
        /\ awaits' = [awaits EXCEPT ![s] = "none"]
        /\ acked' = [acked EXCEPT ![s] = @ \cup {n}]
        /\ UNCHANGED <<sends, requests, serving, data, copies, lost, ran>>
    BY <1>2, <1>7 DEF EchoArrives
  <1>9. /\ IsABag(echoes') /\ BagToSet(echoes') \subseteq BagToSet(echoes)
        /\ \A x : Count(echoes', x) = Count(echoes, x) - (IF x = e THEN 1 ELSE 0)
    BY <1>0, <1>1, <1>8, BagRemove DEF UdpTypeOK
  <1>10. /\ \A x : Count(requests, x) \in Nat /\ Count(echoes, x) \in Nat
         /\ Count(echoes, e) >= 1
    BY <1>0, <1>1, CountFacts DEF UdpTypeOK
  <1>11. /\ \A t \in Sender : acked'[t] = IF t = s THEN acked[t] \cup {n} ELSE acked[t]
         /\ \A t \in Sender : awaits'[t] = IF t = s THEN "none" ELSE awaits[t]
    BY <1>0, <1>8 DEF UdpTypeOK
  <1>12. m <= n
    <2>1. ~(m > n)
      BY <1>0, <1>1, <1>2, <1>3, <1>4, <1>7 DEF Handled
    <2> QED
      BY <2>1
  <1>13. UdpTypeOK'
    <2>1. BagToSet(echoes') \subseteq Datagram
      BY <1>0, <1>9 DEF UdpTypeOK
    <2>2. acked' \in [Sender -> SUBSET (1..MaxSend)]
      BY <1>0, <1>8 DEF UdpTypeOK
    <2>3. awaits' \in [Sender -> {"none", "data", "empty"}]
      BY <1>0, <1>8 DEF UdpTypeOK
    <2> QED
      BY <1>0, <1>8, <1>9, <2>1, <2>2, <2>3 DEF UdpTypeOK
  <1>14. Buffer'
    BY <1>0, <1>8 DEF Buffer
  <1>15. Handled'
    <2>1. \A x : BagIn(x, echoes') => BagIn(x, echoes)
      BY <1>9 DEF BagIn
    <2> QED
      BY <1>0, <1>8, <2>1 DEF Handled
  <1>16. Acked'
    <2>1. acked'[s] = 1..sends[s]
      <3>1. acked'[s] = (1..(sends[s] - 1)) \cup {sends[s]}
        BY <1>6, <1>7, <1>11
      <3> QED
        BY <1>6, <3>1
    <2> QED
      BY <1>0, <1>8, <1>11, <2>1 DEF Acked
  <1>17. n \notin acked[s] /\ n \in acked'[s] /\ (m < n => m \in acked[s])
    <2>1. acked[s] = 1..(n - 1)
      BY <1>6, <1>7
    <2>2. m \in Nat /\ n \in Nat /\ 1 <= m
      BY SentFacts
    <2>3. n \notin acked[s] /\ (m < n => m \in acked[s])
      BY <2>1, <2>2
    <2> QED
      BY <1>11, <2>3
  <1>18. \A t \in Sender, k \in 1..MaxSend : Live(t, k) \in Nat /\ Excess(t, k) \in Nat
    BY <1>0, ExcessTypes DEF ExcessTyped
  <1>19. Live(s, m)' = Live(s, m) - 1 /\ Live(s, m) >= 1
    BY <1>5, <1>8, <1>9, <1>10 DEF Live
  <1>20. \A t \in Sender, k \in 1..MaxSend : ~(t = s /\ k = m) => Live(t, k)' = Live(t, k)
    <2> SUFFICES ASSUME NEW t \in Sender, NEW k \in 1..MaxSend, ~(t = s /\ k = m)
                 PROVE  Live(t, k)' = Live(t, k)
      OBVIOUS
    <2>1. Sent(t, k) # e
      BY <1>5, SentFacts
    <2>2. Count(echoes', Sent(t, k)) = Count(echoes, Sent(t, k))
      BY <1>9, <1>10, <2>1
    <2> QED
      BY <1>8, <2>2 DEF Live
  <1>21. \A t \in Sender, k \in 1..MaxSend : ~(t = s /\ k = m) /\ ~(t = s /\ k = n) =>
           Excess(t, k)' <= Excess(t, k)
    <2> SUFFICES ASSUME NEW t \in Sender, NEW k \in 1..MaxSend, ~(t = s /\ k = m), ~(t = s /\ k = n)
                 PROVE  Excess(t, k)' <= Excess(t, k)
      OBVIOUS
    <2>1. Live(t, k)' = Live(t, k)
      BY <1>20
    <2>2. k \in acked'[t] <=> k \in acked[t]
      BY <1>11
    <2>3. Excess(t, k)' = Excess(t, k)
      BY <1>8, <2>1, <2>2 DEF Excess
    <2> QED
      BY <1>18, <2>3
  <1>22. Balance'
    <2>1. CASE m = n
      <3>1. Excess(s, m)' <= Excess(s, m)
        BY <1>4, <1>5, <1>8, <1>17, <1>18, <1>19, <2>1 DEF Excess
      <3>2. \A t \in Sender, k \in 1..MaxSend : Excess(t, k)' <= Excess(t, k)
        BY <1>21, <2>1, <3>1
      <3> QED
        BY <1>0, <1>8, <1>13, <3>2, SurplusShrinks
    <2>2. CASE m # n
      <3>1. m \in acked[s] /\ m \in acked'[s]
        <4>1. m < n
          BY <1>12, <2>2, SentFacts
        <4> QED
          BY <1>11, <1>17, <4>1
      <3>2. Excess(s, m) = Live(s, m) /\ Excess(s, m)' = Live(s, m) - 1
        BY <1>4, <1>5, <1>8, <1>18, <1>19, <3>1 DEF Excess
      <3>3. Live(s, n)' = Live(s, n)
        BY <1>20, <2>2
      <3>4. Excess(s, n)' <= Excess(s, n) + 1
        BY <1>8, <1>17, <1>18, <3>3 DEF Excess
      <3>5. \A t \in Sender, k \in 1..MaxSend : (t = s /\ k = n) \/ Excess(t, k)' <= Excess(t, k)
        BY <1>18, <1>19, <1>21, <3>2
      <3>6. Excess(s, m) >= 1 /\ Excess(s, m)' <= Excess(s, m) - 1
        BY <1>18, <1>19, <3>2
      <3> QED
        BY <1>0, <1>8, <1>13, <2>2, <3>4, <3>5, <3>6, SurplusMoves
    <2> QED
      BY <2>1, <2>2
  <1> QED
    BY <1>13, <1>14, <1>15, <1>16, <1>22 DEF UdpInv

\* The server is started and stopped.
LEMMA UdpServerKeeps ==
  ASSUME UdpInv, UdpStart \/ UdpShutdown
  PROVE  UdpInv'
  <1>0. UdpTypeOK /\ Buffer /\ Handled /\ Acked /\ Balance
    BY DEF UdpInv
  <1>1. UNCHANGED <<sends, awaits, requests, echoes, data, copies, lost, ran, acked>>
    BY DEF UdpStart, UdpShutdown
  <1>2. \/ serving = "off" /\ serving' = "receive"
        \/ serving \in {"receive", "send"} /\ serving' = "stopped"
    BY DEF UdpStart, UdpShutdown
  <1>3. UdpTypeOK'
    BY <1>0, <1>1, <1>2 DEF UdpTypeOK
  <1>4. Buffer'
    BY <1>0, <1>1, <1>2 DEF Buffer
  <1>5. Handled' /\ Acked'
    BY <1>0, <1>1 DEF Handled, Acked
  <1>6. Balance'
    BY <1>0, <1>1 DEF Balance, Surplus, Excess, Live
  <1> QED
    BY <1>3, <1>4, <1>5, <1>6 DEF UdpInv

\* Nothing else of the program touches the state of UDP.
LEMMA UdpStutters ==
  ASSUME UdpInv, UNCHANGED udpVars
  PROVE  UdpInv'
  <1>0. UdpTypeOK /\ Buffer /\ Handled /\ Acked /\ Balance
    BY DEF UdpInv
  <1>1. UNCHANGED <<sends, awaits, requests, echoes, serving, data, copies, lost, ran, acked>>
    BY DEF udpVars
  <1>2. UdpTypeOK' /\ Buffer' /\ Handled' /\ Acked'
    BY <1>0, <1>1 DEF UdpTypeOK, Buffer, Handled, Acked
  <1>3. Balance'
    BY <1>0, <1>1 DEF Balance, Surplus, Excess, Live
  <1> QED
    BY <1>2, <1>3 DEF UdpInv

\* The server takes a datagram and runs the callback for it.
LEMMA DoReceiveKeeps ==
  ASSUME UdpInv, NEW d \in BagToSet(requests), DoReceive(d)
  PROVE  UdpInv'
  <1>0. UdpTypeOK /\ Buffer /\ Handled /\ Acked /\ Balance
    BY DEF UdpInv
  <1>1. d \in Datagram /\ BagIn(d, requests)
    BY <1>0 DEF UdpTypeOK, BagIn
  <1>2. /\ serving = "receive" /\ data = {} /\ requests' = requests (-) One(d)
        /\ UNCHANGED <<sends, awaits, echoes, copies, lost, acked>>
    BY <1>0 DEF DoReceive, Buffer
  <1>3. \/ ~d.empty /\ ran' = [ran EXCEPT ![d] = @ + 1] /\ data' = {d} /\ serving' = "send"
        \/ d.empty /\ UNCHANGED <<ran, data, serving>>
    BY DEF DoReceive
  <1>4. /\ IsABag(requests') /\ BagToSet(requests') \subseteq BagToSet(requests)
        /\ \A x : Count(requests', x) = Count(requests, x) - (IF x = d THEN 1 ELSE 0)
    BY <1>0, <1>1, <1>2, BagRemove DEF UdpTypeOK
  <1>5. /\ \A x : Count(requests, x) \in Nat /\ Count(echoes, x) \in Nat
        /\ Count(requests, d) >= 1
    BY <1>0, <1>1, CountFacts DEF UdpTypeOK
  <1>6. /\ \A x \in Datagram : ran[x] \in Nat
        /\ \A x \in Datagram : ran'[x] = ran[x] + (IF x = d /\ ~d.empty THEN 1 ELSE 0)
    <2>1. \A x \in Datagram : ran[x] \in Nat
      BY <1>0 DEF UdpTypeOK
    <2>2. CASE ~d.empty
      BY <1>0, <1>3, <2>1, <2>2 DEF UdpTypeOK
    <2>3. CASE d.empty
      BY <1>3, <2>1, <2>3
    <2> QED
      BY <2>1, <2>2, <2>3
  <1>7. Buffer'
    BY <1>0, <1>1, <1>2, <1>3 DEF Buffer
  <1>8. UdpTypeOK'
    <2>1. BagToSet(requests') \subseteq Datagram
      BY <1>0, <1>4 DEF UdpTypeOK
    <2>2. data' \subseteq Datagram /\ serving' \in {"off", "receive", "send", "stopped"}
      BY <1>0, <1>1, <1>3 DEF UdpTypeOK
    <2>3. ran' \in [Datagram -> Nat]
      BY <1>0, <1>3 DEF UdpTypeOK
    <2>4. (Cardinality(data) <= 1)'
      BY <1>7, BufferHoldsOne, PTL
    <2> QED
      BY <1>0, <1>2, <1>4, <2>1, <2>2, <2>3, <2>4 DEF UdpTypeOK
  <1>9. Handled'
    <2> SUFFICES ASSUME NEW x \in Datagram
                 PROVE  /\ x \in data' \/ BagIn(x, echoes') => ~x.empty /\ ran'[x] >= 1
                        /\ Count(requests', x) + ran'[x] <= 1 + copies'
                        /\ x.number > sends'[x.sender] => ran'[x] = 0 /\ ~BagIn(x, requests')
      BY DEF Handled
    <2>1. x \in data' \/ BagIn(x, echoes') => ~x.empty /\ ran'[x] >= 1
      <3>1. ran'[x] >= ran[x] /\ ran'[x] \in Nat /\ ran[x] \in Nat
        BY <1>6
      <3>2. BagIn(x, echoes') => ~x.empty /\ ran[x] >= 1
        BY <1>0, <1>2 DEF Handled
      <3>3. x \in data' => x = d /\ ~d.empty
        BY <1>2, <1>3
      <3> QED
        BY <1>6, <3>1, <3>2, <3>3
    <2>2. Count(requests', x) + ran'[x] <= 1 + copies'
      <3>1. Count(requests, x) + ran[x] <= 1 + copies /\ copies \in Nat
        BY <1>0 DEF Handled, UdpTypeOK
      <3> QED
        BY <1>2, <1>4, <1>5, <1>6, <3>1
    <2>3. x.number > sends'[x.sender] => ran'[x] = 0 /\ ~BagIn(x, requests')
      <3>1. x.number > sends[x.sender] => ran[x] = 0 /\ ~BagIn(x, requests)
        BY <1>0 DEF Handled
      <3> QED
        BY <1>1, <1>2, <1>4, <1>6, <3>1 DEF BagIn
    <2> QED
      BY <2>1, <2>2, <2>3
  <1>10. Acked'
    BY <1>0, <1>2 DEF Acked
  <1>11. Balance'
    <2>1. ASSUME NEW t \in Sender, NEW k \in 1..MaxSend PROVE Excess(t, k)' <= Excess(t, k)
      <3>1. Live(t, k) \in Nat /\ Excess(t, k) \in Nat
        BY <1>0, ExcessTypes DEF ExcessTyped
      <3>2. Sent(t, k) \in Datagram /\ ~Sent(t, k).empty
        BY SentFacts
      <3>3. CASE Sent(t, k) = d
        <4>1. data' = {d} /\ data = {} /\ UNCHANGED echoes
          BY <1>2, <1>3, <3>2, <3>3
        <4>2. Live(t, k)' = Live(t, k)
          BY <1>4, <1>5, <3>3, <4>1 DEF Live
        <4>3. Live(t, k) >= 1
          BY <1>5, <3>3, <4>1 DEF Live
        <4>4. Excess(t, k)' = Excess(t, k)
          BY <1>2, <3>1, <4>2, <4>3 DEF Excess
        <4> QED
          BY <3>1, <4>4
      <3>4. CASE Sent(t, k) # d
        <4>1. Sent(t, k) \notin data' /\ Sent(t, k) \notin data /\ ran'[Sent(t, k)] = ran[Sent(t, k)]
          BY <1>2, <1>3, <1>6, <3>2, <3>4
        <4>2. Live(t, k)' = Live(t, k)
          BY <1>2, <1>4, <1>5, <3>4, <4>1 DEF Live
        <4>3. Excess(t, k)' = Excess(t, k)
          BY <1>2, <4>1, <4>2 DEF Excess
        <4> QED
          BY <3>1, <4>3
      <3> QED
        BY <3>3, <3>4
    <2> QED
      BY <1>0, <1>2, <1>8, <2>1, SurplusShrinks
  <1> QED
    BY <1>7, <1>8, <1>9, <1>10, <1>11 DEF UdpInv

\* The echo goes out of the buffer.
LEMMA DoSendKeeps ==
  ASSUME UdpInv, DoSend
  PROVE  UdpInv'
  <1>0. UdpTypeOK /\ Buffer /\ Handled /\ Acked /\ Balance
    BY DEF UdpInv
  <1>1. PICK d \in Datagram : data = {d}
    BY <1>0 DEF DoSend, Buffer
  <1>2. /\ serving = "send" /\ echoes' = echoes (+) One(d) /\ data' = {} /\ serving' = "receive"
        /\ UNCHANGED <<sends, awaits, requests, copies, lost, ran, acked>>
    BY <1>1 DEF DoSend, One
  <1>3. /\ IsABag(echoes') /\ BagToSet(echoes') = BagToSet(echoes) \cup {d}
        /\ \A x : Count(echoes', x) = Count(echoes, x) + (IF x = d THEN 1 ELSE 0)
    BY <1>0, <1>2, BagAdd DEF UdpTypeOK
  <1>4. \A x : Count(requests, x) \in Nat /\ Count(echoes, x) \in Nat
    BY <1>0, CountFacts DEF UdpTypeOK
  <1>5. Buffer'
    BY <1>2 DEF Buffer
  <1>6. UdpTypeOK'
    <2>1. BagToSet(echoes') \subseteq Datagram
      BY <1>0, <1>3 DEF UdpTypeOK
    <2>2. (Cardinality(data) <= 1)'
      BY <1>5, BufferHoldsOne, PTL
    <2> QED
      BY <1>0, <1>2, <1>3, <2>1, <2>2 DEF UdpTypeOK
  <1>7. Handled'
    <2>1. \A x \in Datagram : BagIn(x, echoes') => BagIn(x, echoes) \/ x \in data
      BY <1>1, <1>3 DEF BagIn
    <2> QED
      BY <1>0, <1>2, <2>1 DEF Handled
  <1>8. Acked'
    BY <1>0, <1>2 DEF Acked
  <1>9. Balance'
    <2>1. ASSUME NEW t \in Sender, NEW k \in 1..MaxSend PROVE Excess(t, k)' <= Excess(t, k)
      <3>1. Excess(t, k) \in Nat
        BY <1>0, ExcessTypes DEF ExcessTyped
      <3>2. Live(t, k)' = Live(t, k)
        BY <1>1, <1>2, <1>3, <1>4 DEF Live
      <3>3. Excess(t, k)' = Excess(t, k)
        BY <1>2, <3>2 DEF Excess
      <3> QED
        BY <3>1, <3>3
    <2> QED
      BY <1>0, <1>2, <1>6, <2>1, SurplusShrinks
  <1> QED
    BY <1>5, <1>6, <1>7, <1>8, <1>9 DEF UdpInv

\* A datagram is lost.
LEMMA LoseKeeps ==
  ASSUME UdpInv, Lose
  PROVE  UdpInv'
  <1>0. UdpTypeOK /\ Buffer /\ Handled /\ Acked /\ Balance
    BY DEF UdpInv
  <1>1. lost' = TRUE /\ UNCHANGED <<sends, awaits, serving, data, copies, ran, acked>>
    BY DEF Lose
  <1>2. PICK d \in Datagram :
          \/ BagIn(d, requests) /\ requests' = requests (-) One(d) /\ UNCHANGED echoes
          \/ BagIn(d, echoes) /\ echoes' = echoes (-) One(d) /\ UNCHANGED requests
    BY <1>0 DEF Lose, BagIn, UdpTypeOK
  <1>3. \A x : /\ Count(requests, x) \in Nat /\ Count(echoes, x) \in Nat
               /\ BagIn(x, requests) <=> Count(requests, x) >= 1
               /\ BagIn(x, echoes) <=> Count(echoes, x) >= 1
    BY <1>0, CountFacts DEF UdpTypeOK
  <1>4. /\ IsABag(requests') /\ BagToSet(requests') \subseteq BagToSet(requests)
        /\ IsABag(echoes') /\ BagToSet(echoes') \subseteq BagToSet(echoes)
        /\ \A x : Count(requests', x) <= Count(requests, x)
    <2>1. CASE BagIn(d, requests) /\ requests' = requests (-) One(d) /\ UNCHANGED echoes
      <3>1. /\ IsABag(requests') /\ BagToSet(requests') \subseteq BagToSet(requests)
            /\ \A x : Count(requests', x) = Count(requests, x) - (IF x = d THEN 1 ELSE 0)
        BY <1>0, <2>1, BagRemove DEF UdpTypeOK
      <3> QED
        BY <1>0, <1>3, <2>1, <3>1 DEF UdpTypeOK
    <2>2. CASE BagIn(d, echoes) /\ echoes' = echoes (-) One(d) /\ UNCHANGED requests
      <3>1. IsABag(echoes') /\ BagToSet(echoes') \subseteq BagToSet(echoes)
        BY <1>0, <2>2, BagRemove DEF UdpTypeOK
      <3> QED
        BY <1>0, <1>3, <2>2, <3>1 DEF UdpTypeOK
    <2> QED
      BY <1>2, <2>1, <2>2
  <1>5. \A x : Count(requests', x) \in Nat
    BY <1>4, CountFacts
  <1>6. UdpTypeOK'
    <2>1. BagToSet(requests') \subseteq Datagram /\ BagToSet(echoes') \subseteq Datagram
      BY <1>0, <1>4 DEF UdpTypeOK
    <2> QED
      BY <1>0, <1>1, <1>4, <2>1 DEF UdpTypeOK
  <1>7. Buffer' /\ Acked'
    BY <1>0, <1>1 DEF Buffer, Acked
  <1>8. Handled'
    <2>1. \A x : (BagIn(x, requests') => BagIn(x, requests)) /\ (BagIn(x, echoes') => BagIn(x, echoes))
      BY <1>4 DEF BagIn
    <2>2. ASSUME NEW x \in Datagram PROVE Count(requests', x) + ran'[x] <= 1 + copies'
      <3>1. Count(requests, x) + ran[x] <= 1 + copies /\ ran[x] \in Nat /\ copies \in Nat
        BY <1>0 DEF Handled, UdpTypeOK
      <3>2. /\ Count(requests', x) <= Count(requests, x) /\ Count(requests', x) \in Nat
            /\ Count(requests, x) \in Nat
        BY <1>3, <1>4, <1>5
      <3> QED
        BY <1>1, <3>1, <3>2
    <2> QED
      BY <1>0, <1>1, <2>1, <2>2 DEF Handled
  <1>9. Balance'
    <2>1. ASSUME NEW t \in Sender, NEW k \in 1..MaxSend PROVE Excess(t, k)' <= Excess(t, k)
      <3>1. Live(t, k) \in Nat /\ Excess(t, k) \in Nat
        BY <1>0, ExcessTypes DEF ExcessTyped
      <3>2. Live(t, k)' = Live(t, k) \/ (Live(t, k) >= 1 /\ Live(t, k)' = Live(t, k) - 1)
        <4>1. CASE BagIn(d, requests) /\ requests' = requests (-) One(d) /\ UNCHANGED echoes
          <5>1. \A x : Count(requests', x) = Count(requests, x) - (IF x = d THEN 1 ELSE 0)
            BY <1>0, <4>1, BagRemove DEF UdpTypeOK
          <5> QED
            BY <1>1, <1>3, <4>1, <5>1 DEF Live
        <4>2. CASE BagIn(d, echoes) /\ echoes' = echoes (-) One(d) /\ UNCHANGED requests
          <5>1. \A x : Count(echoes', x) = Count(echoes, x) - (IF x = d THEN 1 ELSE 0)
            BY <1>0, <4>2, BagRemove DEF UdpTypeOK
          <5> QED
            BY <1>1, <1>3, <4>2, <5>1 DEF Live
        <4> QED
          BY <1>2, <4>1, <4>2
      <3> QED
        BY <1>1, <3>1, <3>2 DEF Excess
    <2> QED
      BY <1>0, <1>1, <1>6, <2>1, SurplusShrinks
  <1> QED
    BY <1>6, <1>7, <1>8, <1>9 DEF UdpInv

\* A datagram is duplicated.
LEMMA DuplicateKeeps ==
  ASSUME UdpInv, Duplicate
  PROVE  UdpInv'
  <1>0. UdpTypeOK /\ Buffer /\ Handled /\ Acked /\ Balance
    BY DEF UdpInv
  <1>1. /\ copies \in Nat /\ copies < MaxCopy /\ copies' = copies + 1
        /\ UNCHANGED <<sends, awaits, serving, data, lost, ran, acked>>
    BY <1>0 DEF Duplicate, UdpTypeOK
  <1>2. PICK d \in Datagram :
          \/ BagIn(d, requests) /\ requests' = requests (+) One(d) /\ UNCHANGED echoes
          \/ BagIn(d, echoes) /\ echoes' = echoes (+) One(d) /\ UNCHANGED requests
    BY <1>0 DEF Duplicate, BagIn, UdpTypeOK
  <1>3. \A x : /\ Count(requests, x) \in Nat /\ Count(echoes, x) \in Nat
               /\ BagIn(x, requests) <=> Count(requests, x) >= 1
               /\ BagIn(x, echoes) <=> Count(echoes, x) >= 1
    BY <1>0, CountFacts DEF UdpTypeOK
  <1>4. /\ IsABag(requests') /\ BagToSet(requests') = BagToSet(requests)
        /\ IsABag(echoes') /\ BagToSet(echoes') = BagToSet(echoes)
        /\ \A x : /\ Count(requests', x) <= Count(requests, x) + 1
                  /\ x # d => Count(requests', x) = Count(requests, x) /\ Count(echoes', x) = Count(echoes, x)
        /\ Count(requests, d) + Count(echoes, d) >= 1
        /\ Count(requests', d) + Count(echoes', d) = Count(requests, d) + Count(echoes, d) + 1
    <2>1. CASE BagIn(d, requests) /\ requests' = requests (+) One(d) /\ UNCHANGED echoes
      <3>1. /\ IsABag(requests') /\ BagToSet(requests') = BagToSet(requests) \cup {d}
            /\ \A x : Count(requests', x) = Count(requests, x) + (IF x = d THEN 1 ELSE 0)
        BY <1>0, <2>1, BagAdd DEF UdpTypeOK
      <3>2. BagToSet(requests') = BagToSet(requests)
        BY <2>1, <3>1 DEF BagIn
      <3>3. \A x : /\ Count(requests', x) <= Count(requests, x) + 1
                   /\ x # d => Count(requests', x) = Count(requests, x) /\ Count(echoes', x) = Count(echoes, x)
        BY <1>3, <2>1, <3>1
      <3>4. /\ Count(requests, d) + Count(echoes, d) >= 1
            /\ Count(requests', d) + Count(echoes', d) = Count(requests, d) + Count(echoes, d) + 1
        BY <1>3, <2>1, <3>1
      <3> QED
        BY <1>0, <2>1, <3>1, <3>2, <3>3, <3>4 DEF UdpTypeOK
    <2>2. CASE BagIn(d, echoes) /\ echoes' = echoes (+) One(d) /\ UNCHANGED requests
      <3>1. /\ IsABag(echoes') /\ BagToSet(echoes') = BagToSet(echoes) \cup {d}
            /\ \A x : Count(echoes', x) = Count(echoes, x) + (IF x = d THEN 1 ELSE 0)
        BY <1>0, <2>2, BagAdd DEF UdpTypeOK
      <3>2. BagToSet(echoes') = BagToSet(echoes)
        BY <2>2, <3>1 DEF BagIn
      <3>3. \A x : /\ Count(requests', x) <= Count(requests, x) + 1
                   /\ x # d => Count(requests', x) = Count(requests, x) /\ Count(echoes', x) = Count(echoes, x)
        BY <1>3, <2>2, <3>1
      <3>4. /\ Count(requests, d) + Count(echoes, d) >= 1
            /\ Count(requests', d) + Count(echoes', d) = Count(requests, d) + Count(echoes, d) + 1
        BY <1>3, <2>2, <3>1
      <3> QED
        BY <1>0, <2>2, <3>1, <3>2, <3>3, <3>4 DEF UdpTypeOK
    <2> QED
      BY <1>2, <2>1, <2>2
  <1>5. \A x : Count(requests', x) \in Nat /\ Count(echoes', x) \in Nat
    BY <1>4, CountFacts
  <1>6. UdpTypeOK'
    <2>1. BagToSet(requests') \subseteq Datagram /\ BagToSet(echoes') \subseteq Datagram
      BY <1>0, <1>4 DEF UdpTypeOK
    <2>2. copies' \in 0..MaxCopy
      BY <1>1, SentFacts
    <2> QED
      BY <1>0, <1>1, <1>4, <2>1, <2>2 DEF UdpTypeOK
  <1>7. Buffer' /\ Acked'
    BY <1>0, <1>1 DEF Buffer, Acked
  <1>8. Handled'
    <2>1. \A x : (BagIn(x, requests') <=> BagIn(x, requests)) /\ (BagIn(x, echoes') <=> BagIn(x, echoes))
      BY <1>4 DEF BagIn
    <2>2. ASSUME NEW x \in Datagram PROVE Count(requests', x) + ran'[x] <= 1 + copies'
      <3>1. Count(requests, x) + ran[x] <= 1 + copies /\ ran[x] \in Nat
        BY <1>0 DEF Handled, UdpTypeOK
      <3>2. /\ Count(requests', x) <= Count(requests, x) + 1 /\ Count(requests', x) \in Nat
            /\ Count(requests, x) \in Nat
        BY <1>3, <1>4, <1>5
      <3> QED
        BY <1>1, <3>1, <3>2
    <2> QED
      BY <1>0, <1>1, <2>1, <2>2 DEF Handled
  <1>9. \A t \in Sender, k \in 1..MaxSend : Live(t, k) \in Nat /\ Excess(t, k) \in Nat
    BY <1>0, ExcessTypes DEF ExcessTyped
  <1>10. ASSUME NEW t \in Sender, NEW k \in 1..MaxSend, Sent(t, k) # d
         PROVE  Excess(t, k)' <= Excess(t, k)
    <2>1. Live(t, k)' = Live(t, k)
      BY <1>1, <1>4, <1>10 DEF Live
    <2>2. Excess(t, k)' = Excess(t, k)
      BY <1>1, <2>1 DEF Excess
    <2> QED
      BY <1>9, <2>2
  <1>11. Balance'
    <2>1. CASE d.empty
      <3>1. \A t \in Sender, k \in 1..MaxSend : Sent(t, k) # d
        BY <2>1, SentFacts
      <3>2. \A t \in Sender, k \in 1..MaxSend : Excess(t, k)' <= Excess(t, k)
        BY <1>10, <3>1
      <3> QED
        BY <1>0, <1>1, <1>6, <3>2, SurplusShrinks
    <2>2. CASE ~d.empty
      <3>1. PICK t \in Sender, m \in 1..MaxSend : d = Sent(t, m)
        BY <2>2, SentFacts
      <3>2. Live(t, m)' = Live(t, m) + 1 /\ Live(t, m) >= 1
        BY <1>1, <1>3, <1>4, <1>5, <3>1 DEF Live
      <3>3. Excess(t, m)' <= Excess(t, m) + 1
        BY <1>1, <1>9, <3>2 DEF Excess
      <3>4. \A s \in Sender, n \in 1..MaxSend : (s = t /\ n = m) \/ Excess(s, n)' <= Excess(s, n)
        BY <1>10, <3>1, SentFacts
      <3> QED
        BY <1>0, <1>1, <1>6, <3>3, <3>4, SurplusGrows
    <2> QED
      BY <2>1, <2>2
  <1> QED
    BY <1>6, <1>7, <1>8, <1>11 DEF UdpInv

\* Every step of the UDP build keeps the invariant.
LEMMA UdpStepKeeps ==
  ASSUME UdpInv, UdpNext
  PROVE  UdpInv'
  <1>1. CASE \E s \in Sender : UdpSend(s, FALSE)
    BY <1>1, UdpSendKeeps
  <1>2. CASE \E e \in BagToSet(echoes) : EchoArrives(e)
    BY <1>2, EchoArrivesKeeps
  <1>3. CASE \E d \in BagToSet(requests) : DoReceive(d)
    BY <1>3, DoReceiveKeeps
  <1>4. CASE DoSend
    BY <1>4, DoSendKeeps
  <1>5. CASE UdpShutdown
    BY <1>5, UdpServerKeeps
  <1>6. CASE Lose
    BY <1>6, LoseKeeps
  <1>7. CASE Duplicate
    BY <1>7, DuplicateKeeps
  <1> QED
    BY <1>1, <1>2, <1>3, <1>4, <1>5, <1>6, <1>7 DEF UdpNext

\* At first nothing is on its way and nothing is owed.
LEMMA UdpInitHolds == UdpInit => UdpInv
  <1> SUFFICES ASSUME UdpInit PROVE UdpInv
    OBVIOUS
  <1>1. /\ IsABag(requests) /\ BagToSet(requests) = {} /\ IsABag(echoes) /\ BagToSet(echoes) = {}
        /\ \A d : ~BagIn(d, requests) /\ ~BagIn(d, echoes)
        /\ \A d : Count(requests, d) = 0 /\ Count(echoes, d) = 0
    <2>1. IsABag(EmptyBag) /\ DOMAIN EmptyBag = {}
      BY DEF EmptyBag, SetToBag, IsABag
    <2> QED
      BY <2>1 DEF UdpInit, BagToSet, BagIn, Count
  <1>2. Buffer
    BY DEF UdpInit, Buffer
  <1>3. UdpTypeOK
    <2>1. Cardinality(data) <= 1
      BY <1>2, BufferHoldsOne
    <2>2. /\ sends \in [Sender -> 0..MaxSend] /\ awaits \in [Sender -> {"none", "data", "empty"}]
          /\ ran \in [Datagram -> Nat] /\ acked \in [Sender -> SUBSET (1..MaxSend)]
          /\ copies \in 0..MaxCopy
      BY SentFacts DEF UdpInit
    <2> QED
      BY <1>1, <2>1, <2>2 DEF UdpInit, UdpTypeOK
  <1>4. Handled
    <2> SUFFICES ASSUME NEW d \in Datagram
                 PROVE  /\ ~(d \in data \/ BagIn(d, echoes))
                        /\ Count(requests, d) + ran[d] <= 1 + copies
                        /\ ran[d] = 0 /\ ~BagIn(d, requests)
      BY DEF Handled
    <2>1. ran[d] = 0 /\ Count(requests, d) = 0 /\ copies = 0 /\ data = {}
      BY <1>1 DEF UdpInit
    <2> QED
      BY <1>1, <2>1
  <1>5. Acked
    BY DEF UdpInit, Acked
  <1>6. Balance
    <2>1. \A s \in Sender, n \in 1..MaxSend : Excess(s, n) = 0
      BY <1>1 DEF UdpInit, Excess, Live
    <2>2. Surplus = {}
      BY <2>1 DEF Surplus
    <2>3. IsFiniteSet({}) /\ Cardinality({}) = 0
      BY FS_EmptySet
    <2> QED
      BY <2>2, <2>3 DEF UdpInit, Balance
  <1> QED
    BY <1>2, <1>3, <1>4, <1>5, <1>6 DEF UdpInv

\* A Send that was falsely answered takes a part of the surplus of its own.
LEMMA UdpInvImplies ==
  ASSUME UdpInv
  PROVE  FalseAcksNeedCopies
  <1>0. UdpTypeOK /\ Buffer /\ Handled /\ Acked /\ Balance
    BY DEF UdpInv
  <1> DEFINE Ran(s, n) == ran[[sender |-> s, number |-> n, empty |-> FALSE]]
             False == {x \in Sender \X (1..MaxSend) : x[2] \in acked[x[1]] /\ Ran(x[1], x[2]) = 0}
             f == [x \in False |-> <<x[1], x[2], 1>>]
  <1>1. \A s \in Sender, n \in 1..MaxSend : Ran(s, n) = ran[Sent(s, n)] /\ Ran(s, n) \in Nat
    BY <1>0, SentFacts DEF UdpTypeOK, Sent
  <1>2. \A x \in False : /\ x \in Sender \X (1..MaxSend) /\ x = <<x[1], x[2]>>
                         /\ x[1] \in Sender /\ x[2] \in 1..MaxSend
                         /\ x[2] \in acked[x[1]] /\ Ran(x[1], x[2]) = 0
    OBVIOUS
  <1> HIDE DEF Ran, False
  <1>3. \A x \in False : <<x[1], x[2], 1>> \in Surplus
    <2> SUFFICES ASSUME NEW x \in False PROVE <<x[1], x[2], 1>> \in Surplus
      OBVIOUS
    <2>1. PICK s \in Sender, n \in 1..MaxSend : x[1] = s /\ x[2] = n
      BY <1>2
    <2>2. n \in acked[s] /\ ran[Sent(s, n)] = 0
      BY <1>1, <1>2, <2>1
    <2>3. Live(s, n) \in Nat
      BY <1>0, ExcessTypes DEF ExcessTyped
    <2>4. Excess(s, n) >= 1
      BY <2>2, <2>3 DEF Excess
    <2>5. <<s, n, 1>> \in Surplus
      BY <2>4 DEF Surplus
    <2> QED
      BY <2>1, <2>5
  <1>4. f \in [False -> Surplus]
    BY <1>3
  <1>5. \A x, y \in False : f[x] = f[y] => x = y
    <2> SUFFICES ASSUME NEW x \in False, NEW y \in False, f[x] = f[y] PROVE x = y
      OBVIOUS
    <2>1. <<x[1], x[2], 1>> = <<y[1], y[2], 1>>
      OBVIOUS
    <2>2. x[1] = y[1] /\ x[2] = y[2]
      BY <2>1
    <2> QED
      BY <1>2, <2>2
  <1> HIDE DEF f
  <1>6. f \in Injection(False, Surplus)
    BY <1>4, <1>5, Fun_IsInj
  <1>7. IsFiniteSet(Surplus) /\ Cardinality(Surplus) <= copies /\ copies \in Nat
    BY <1>0 DEF Balance, UdpTypeOK
  <1>8. IsFiniteSet(False) /\ Cardinality(False) <= Cardinality(Surplus)
    BY <1>6, <1>7, FS_Injection
  <1>9. Cardinality(False) \in Nat /\ Cardinality(Surplus) \in Nat
    BY <1>7, <1>8, FS_CardinalityType
  <1>10. Cardinality(False) <= copies
    BY <1>7, <1>8, <1>9
  <1>11. ASSUME NEW s \in Sender, NEW n \in 1..MaxSend PROVE Ran(s, n) <= 1 + copies
    <2>1. Sent(s, n) \in Datagram /\ Count(requests, Sent(s, n)) \in Nat
      BY <1>0, SentFacts, CountFacts DEF UdpTypeOK
    <2>2. Count(requests, Sent(s, n)) + ran[Sent(s, n)] <= 1 + copies
      BY <1>0, <2>1 DEF Handled
    <2> QED
      BY <1>1, <1>7, <2>1, <2>2
  <1> QED
    BY <1>10, <1>11 DEF FalseAcksNeedCopies, Ran, False

-----------------------------------------------------------------------------
(* The network over the library it was built with.                         *)

IInv ==
  /\ lib \in {"grpc", "udp"} /\ clients \subseteq Client
  /\ GrpcInv /\ UdpInv
  /\ lib = "grpc" => UdpInit
  /\ lib = "udp" => GrpcInit

\* Nothing runs and nothing is sent at first.
LEMMA InitHolds == Init => IInv
  BY GrpcInitHolds, UdpInitHolds DEF Init, IInv

\* A step is one of the library that was linked.
LEMMA LibraryStep ==
  ASSUME Next
  PROVE  /\ UNCHANGED lib /\ (clients \subseteq Client => clients' \subseteq Client)
         /\ \/ /\ lib = "grpc" /\ UNCHANGED udpVars
               /\ Start \/ GrpcNext \/ UNCHANGED grpcVars
            \/ /\ lib = "udp" /\ UNCHANGED grpcVars
               /\ UdpStart \/ UdpNext \/ (\E s \in Sender : UdpSend(s, TRUE))
  <1>1. CASE \E n \in Client : NetworkStart(n)
    BY <1>1 DEF NetworkStart
  <1>2. CASE \E n \in Client : NetworkSend(n)
    BY <1>2, SameNodes DEF NetworkSend, SendPodMessage
  <1>3. CASE \E n \in Client : Broadcast(n)
    BY <1>3, SameNodes DEF Broadcast, SendPodMessage
  <1>4. CASE lib = "grpc" /\ GrpcNext /\ UNCHANGED <<udpVars, lib, clients>>
    BY <1>4
  <1>5. CASE lib = "udp" /\ UdpNext /\ UNCHANGED <<grpcVars, lib, clients>>
    BY <1>5
  <1> QED
    BY <1>1, <1>2, <1>3, <1>4, <1>5 DEF Next

\* Before a library runs its state is that of Init.
LEMMA IdleStays ==
  /\ GrpcInit /\ UNCHANGED grpcVars => GrpcInit'
  /\ UdpInit /\ UNCHANGED udpVars => UdpInit'
  BY DEF GrpcInit, grpcVars, UdpInit, udpVars

\* Every step keeps the invariant.
LEMMA StepKeeps == IInv /\ [Next]_vars => IInv'
  <1> SUFFICES ASSUME IInv, [Next]_vars PROVE IInv'
    OBVIOUS
  <1>0. /\ lib \in {"grpc", "udp"} /\ clients \subseteq Client /\ GrpcInv /\ UdpInv
        /\ lib = "grpc" => UdpInit
        /\ lib = "udp" => GrpcInit
    BY DEF IInv
  <1>1. CASE Next
    <2>1. UNCHANGED lib /\ clients' \subseteq Client
      BY <1>0, <1>1, LibraryStep
    <2>2. CASE /\ lib = "grpc" /\ UNCHANGED udpVars
               /\ Start \/ GrpcNext \/ UNCHANGED grpcVars
      <3>1. GrpcInv'
        BY <1>0, <2>2, StartKeeps, GrpcStepKeeps, GrpcStutters
      <3>2. UdpInv' /\ UdpInit'
        BY <1>0, <2>2, UdpStutters, IdleStays
      <3> QED
        BY <1>0, <2>1, <2>2, <3>1, <3>2 DEF IInv
    <2>3. CASE /\ lib = "udp" /\ UNCHANGED grpcVars
               /\ UdpStart \/ UdpNext \/ (\E s \in Sender : UdpSend(s, TRUE))
      <3>1. UdpInv'
        BY <1>0, <2>3, UdpServerKeeps, UdpStepKeeps, UdpSendKeeps
      <3>2. GrpcInv' /\ GrpcInit'
        BY <1>0, <2>3, GrpcStutters, IdleStays
      <3> QED
        BY <1>0, <2>1, <2>3, <3>1, <3>2 DEF IInv
    <2> QED
      BY <1>1, <2>2, <2>3, LibraryStep
  <1>2. CASE UNCHANGED vars
    <2>1. UNCHANGED <<lib, clients>> /\ UNCHANGED grpcVars /\ UNCHANGED udpVars
      BY <1>2 DEF vars
    <2>2. GrpcInv' /\ UdpInv'
      BY <1>0, <2>1, GrpcStutters, UdpStutters
    <2>3. (GrpcInit => GrpcInit') /\ (UdpInit => UdpInit')
      BY <2>1, IdleStays
    <2> QED
      BY <1>0, <2>1, <2>2, <2>3 DEF IInv
  <1> QED
    BY <1>1, <1>2

\* The invariant of both libraries is one of the network.
THEOREM AlwaysIInv == Spec => []IInv
  BY InitHolds, StepKeeps, PTL DEF Spec

\* The state has its types, a library that was not linked none at all, and
\* the UDP server works on one datagram at a time.
THEOREM TypeCorrect == Spec => []TypeOK
  <1>1. IInv => TypeOK
    BY DEF IInv, GrpcInv, UdpInv, TypeOK
  <1> QED
    BY <1>1, AlwaysIInv, PTL

\* A gRPC Send that returned true was handled, once (GrpcClient::AsyncCall,
\* CallData::ProcessStatusFunc): the callback has run for a call when, and
\* only when, it is answered, and one CallData serves it.
THEOREM AckedAlwaysHandled == Spec => []AckedWasHandled
  <1>1. IInv => AckedWasHandled
    BY GrpcInvImplies DEF IInv
  <1> QED
    BY <1>1, AlwaysIInv, PTL

\* While the server is up and its loop runs, each served method has one
\* CallData to listen for it (PrepareCallData, ProcessStatusFunc).
THEOREM AlwaysOneListener == Spec => []OneListener
  <1>1. IInv => OneListener
    BY GrpcInvImplies DEF IInv
  <1> QED
    BY <1>1, AlwaysIInv, PTL

\* A CallData is in one place, and lost only with its server or its client
\* (HandleRpcs, CallDataManager::Procceed): none is used after it is
\* deleted, and none twice.
THEOREM CallDataAlwaysOwnedOnce == Spec => []CallDataOwnedOnce
  <1>1. IInv => CallDataOwnedOnce
    BY GrpcInvImplies DEF IInv
  <1> QED
    BY <1>1, AlwaysIInv, PTL

\* Shutdown aborts the process only when it overtakes PrepareCallData
\* (GrpcServer::Shutdown): cq_ is closed when no call is in progress.
THEOREM AbortsOnlyAtStart == Spec => []AbortOnlyAtStart
  <1>1. IInv => AbortOnlyAtStart
    BY GrpcInvImplies DEF IInv
  <1> QED
    BY <1>1, AlwaysIInv, PTL

\* There are at most as many UDP Sends that returned true for a message the
\* server has not handled as datagrams the network has duplicated
\* (UdpClient::Send): without duplication there is none.
THEOREM FalseAcksAlwaysNeedCopies == Spec => []FalseAcksNeedCopies
  <1>1. IInv => FalseAcksNeedCopies
    BY UdpInvImplies DEF IInv
  <1> QED
    BY <1>1, AlwaysIInv, PTL

=============================================================================
