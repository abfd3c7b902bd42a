-------------------------------- MODULE Udp ---------------------------------
(***************************************************************************)
(* The UDP build of the network: UdpServer and UdpClient                   *)
(* (network/asio/udp_server.cpp, udp_client.cpp).                          *)
(*                                                                         *)
(* The server handles one datagram at a time and echoes it to its sender;  *)
(* a client sends one datagram and waits, without a timeout, for any       *)
(* datagram to come back.  Datagrams are lost, duplicated and reordered.   *)
(* Neither side numbers them: the number of a datagram is there to tell    *)
(* them apart and no step looks at it.                                     *)
(***************************************************************************)
EXTENDS Integers, FiniteSets, Bags

CONSTANTS
  Sender,       \* UdpClients, each used by one thread
  MaxSend,      \* bound: Sends per client
  MaxCopy       \* bound: duplicated datagrams in one behaviour

ASSUME UdpAssumption == MaxSend \in Nat /\ MaxCopy \in Nat

VARIABLES
  sends,        \* per client: Sends begun so far
  awaits,       \* per client: what its Send, now in recv_length.get(), has
                \* sent (data or empty), or none
  requests,     \* bag of datagrams on their way to the server
  echoes,       \* bag of datagrams on their way back
  serving,      \* off, receive, send, stopped: the server's pending operation
  data,         \* data_ and sender_endpoint_ while a reply is being sent
  copies,       \* number of datagrams that were duplicated
  lost,         \* a datagram has been lost
  \* History, kept for the properties only:
  ran,          \* per datagram: how often msgCallback_ ran for it
  acked         \* per client: Sends that returned true

udpVars == <<sends, awaits, requests, echoes, serving, data, copies, lost, ran, acked>>

Datagram == [sender : Sender, number : 1..MaxSend, empty : BOOLEAN]
One(d) == SetToBag({d})

-----------------------------------------------------------------------------
(* UdpClient::Send.                                                        *)

\* Up to the receive.  The datagram is proposedLogValue, which may be empty.
\* An error of the resolver or of the send ends Send before that, with
\* nothing on its way.
UdpSend(s, empty) ==
  /\ awaits[s] = "none"
  /\ sends[s] < MaxSend
  /\ sends' = [sends EXCEPT ![s] = @ + 1]
  /\ awaits' = [awaits EXCEPT ![s] = IF empty THEN "empty" ELSE "data"]
  /\ requests' = requests (+) One([sender |-> s, number |-> sends[s] + 1, empty |-> empty])
  /\ UNCHANGED <<echoes, serving, data, copies, lost, ran, acked>>

\* Any datagram that comes ends the wait.
EchoArrives(e) ==
  /\ BagIn(e, echoes)
  /\ awaits[e.sender] # "none"
  /\ echoes' = echoes (-) One(e)
  /\ awaits' = [awaits EXCEPT ![e.sender] = "none"]
  /\ acked' = [acked EXCEPT ![e.sender] = @ \cup {sends[e.sender]}]
  /\ UNCHANGED <<sends, requests, serving, data, copies, lost, ran>>

-----------------------------------------------------------------------------
(* UdpServer.                                                              *)

UdpStart ==
  /\ serving = "off"
  /\ serving' = "receive"
  /\ UNCHANGED <<sends, awaits, requests, echoes, data, copies, lost, ran, acked>>

\* Mutant: the reply is sent and the callback does not run.
DoReceiveOnlyEchoes(d) ==
  /\ serving = "receive"
  /\ BagIn(d, requests)
  /\ requests' = requests (-) One(d)
  /\ data' = {d} /\ serving' = "send"
  /\ UNCHANGED <<sends, awaits, echoes, copies, lost, ran, acked>>

\* Mutant: the next receive does not wait for the send, and reads into the
\* buffer and the endpoint that the send is using.
DoReceiveOverlaps(d) ==
  /\ serving \in {"receive", "send"}
  /\ BagIn(d, requests)
  /\ requests' = requests (-) One(d)
  /\ ran' = [ran EXCEPT ![d] = @ + 1]
  /\ data' = {d} /\ serving' = "send"
  /\ UNCHANGED <<sends, awaits, echoes, copies, lost, acked>>

\* The handler of DoReceive.  An empty datagram is not answered.
DoReceive(d) ==
  /\ serving = "receive"
  /\ BagIn(d, requests)
  /\ requests' = requests (-) One(d)
  /\ \/ /\ ~d.empty
        /\ ran' = [ran EXCEPT ![d] = @ + 1]
        /\ data' = {d}
        /\ serving' = "send"
     \/ /\ d.empty
        /\ UNCHANGED <<ran, data, serving>>
  /\ UNCHANGED <<sends, awaits, echoes, copies, lost, acked>>

\* DoSend has sent the datagram; its handler receives again, whether or not
\* the send went well.
DoSend ==
  /\ serving = "send"
  /\ echoes' = echoes (+) SetToBag(data)
  /\ data' = {}
  /\ serving' = "receive"
  /\ UNCHANGED <<sends, awaits, requests, copies, lost, ran, acked>>

\* io_service_.stop(): no handler runs any more.
UdpShutdown ==
  /\ serving \in {"receive", "send"}
  /\ serving' = "stopped"
  /\ UNCHANGED <<sends, awaits, requests, echoes, data, copies, lost, ran, acked>>

-----------------------------------------------------------------------------
(* The network.                                                            *)

Lose ==
  /\ \/ /\ \E d \in BagToSet(requests) : requests' = requests (-) One(d)
        /\ UNCHANGED echoes
     \/ /\ \E d \in BagToSet(echoes) : echoes' = echoes (-) One(d)
        /\ UNCHANGED requests
  /\ lost' = TRUE
  /\ UNCHANGED <<sends, awaits, serving, data, copies, ran, acked>>

Duplicate ==
  /\ copies < MaxCopy
  /\ copies' = copies + 1
  /\ \/ /\ \E d \in BagToSet(requests) : requests' = requests (+) One(d)
        /\ UNCHANGED echoes
     \/ /\ \E d \in BagToSet(echoes) : echoes' = echoes (+) One(d)
        /\ UNCHANGED requests
  /\ UNCHANGED <<sends, awaits, serving, data, lost, ran, acked>>

-----------------------------------------------------------------------------
UdpInit ==
  /\ sends = [s \in Sender |-> 0]
  /\ awaits = [s \in Sender |-> "none"]
  /\ requests = EmptyBag /\ echoes = EmptyBag
  /\ serving = "off"
  /\ data = {}
  /\ copies = 0 /\ lost = FALSE
  /\ ran = [d \in Datagram |-> 0]
  /\ acked = [s \in Sender |-> {}]

UdpNext ==
  \/ \E s \in Sender : UdpSend(s, FALSE)
  \/ \E e \in BagToSet(echoes) : EchoArrives(e)
  \/ \E d \in BagToSet(requests) : DoReceive(d)
  \/ DoSend
  \/ UdpShutdown
  \/ Lose
  \/ Duplicate

\* The io_service threads run what is ready.  A datagram that is not lost
\* arrives, and the socket's buffer, a queue, does not hold one back for
\* ever while others are received.
UdpFairness ==
  /\ WF_udpVars(DoSend)
  /\ \A s \in Sender :
       /\ SF_udpVars(\E d \in BagToSet(requests) : d.sender = s /\ DoReceive(d))
       /\ WF_udpVars(\E e \in BagToSet(echoes) : e.sender = s /\ EchoArrives(e))

-----------------------------------------------------------------------------
(* Properties.                                                             *)

\* The shape of the state, and that the server works on one datagram.
UdpTypeOK ==
  /\ sends \in [Sender -> 0..MaxSend]
  /\ awaits \in [Sender -> {"none", "data", "empty"}]
  /\ IsABag(requests) /\ BagToSet(requests) \subseteq Datagram
  /\ IsABag(echoes) /\ BagToSet(echoes) \subseteq Datagram
  /\ serving \in {"off", "receive", "send", "stopped"}
  /\ data \subseteq Datagram /\ Cardinality(data) <= 1
  /\ copies \in 0..MaxCopy /\ lost \in BOOLEAN
  /\ ran \in [Datagram -> Nat]
  /\ acked \in [Sender -> SUBSET (1..MaxSend)]

\* A Send that returned true without the server's callback having run for
\* its message was answered by a copy of an earlier echo: there are never
\* more such Sends than datagrams the network duplicated, and the callback
\* repeats a message only for a copy too.  Without duplication a true Send
\* is a handled message (UdpClient::Send takes any datagram for the answer).
FalseAcksNeedCopies ==
  LET Ran(s, n) == ran[[sender |-> s, number |-> n, empty |-> FALSE]]
  IN /\ Cardinality({x \in Sender \X (1..MaxSend) :
                       x[2] \in acked[x[1]] /\ Ran(x[1], x[2]) = 0}) <= copies
     /\ \A s \in Sender, n \in 1..MaxSend : Ran(s, n) <= 1 + copies

\* A Send of a message that is not empty returns, unless a datagram was lost
\* or the server does not run.  (UdpClient::Send has no timeout: after a
\* loss, and for an empty message, it blocks for ever.)
UdpSendReturns ==
  \A s \in Sender :
    awaits[s] = "data" ~>
      awaits[s] = "none" \/ lost \/ serving \notin {"receive", "send"}
=============================================================================
