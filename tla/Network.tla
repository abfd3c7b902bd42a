------------------------------ MODULE Network -------------------------------
(***************************************************************************)
(* Network (network/network.cpp) over the library it is linked with, gRPC  *)
(* or UDP: NETWORK_LIB_NAME chooses one when the program is built, and     *)
(* both define NetworkClient::New and NetworkServer::New.                  *)
(*                                                                         *)
(* One node runs the server; every node, that one included, may hold a     *)
(* client for it.  NetworkClient::Send, which the libraries' own tests     *)
(* call, takes a message with a type and a value.  Network::Send and       *)
(* Broadcast, which the communicator calls, give it the empty message that *)
(* PODMessage makes of any PaxMessage.                                     *)
(***************************************************************************)
EXTENDS Grpc, Udp

ASSUME SameNodes == Sender = Client

VARIABLES
  lib,         \* the library the program was built with
  clients      \* nodes whose clients_ table holds a client for the server

vars == <<lib, clients, grpcVars, udpVars>>

-----------------------------------------------------------------------------
\* Mutant: one library's client is linked with the other's server.
NetworkStartGrpc(n) ==
  /\ clients' = clients \cup {n}
  /\ Start
  /\ UNCHANGED <<udpVars, lib>>

\* Network::Start on the node of the server, one of whose peers it is: the
\* client is made, then the server started.
NetworkStart(n) ==
  /\ clients' = clients \cup {n}
  /\ \/ lib = "grpc" /\ Start /\ UNCHANGED udpVars
     \/ lib = "udp" /\ UdpStart /\ UNCHANGED grpcVars
  /\ UNCHANGED lib

\* What becomes of PODMessage(message), a PodMsg{}: GrpcClient::Send has no
\* case for its type, NONE, and returns; UdpClient::Send sends its empty value.
SendPodMessage(n) ==
  \/ lib = "grpc" /\ UNCHANGED <<grpcVars, udpVars>>
  \/ lib = "udp" /\ UdpSend(n, TRUE) /\ UNCHANGED grpcVars

\* Network::Send to the server's node makes the client it needs.
NetworkSend(n) ==
  /\ clients' = clients \cup {n}
  /\ SendPodMessage(n)
  /\ UNCHANGED lib

\* Network::Broadcast reaches only the clients that exist.
Broadcast(n) ==
  /\ n \in clients
  /\ SendPodMessage(n)
  /\ UNCHANGED <<lib, clients>>

-----------------------------------------------------------------------------
Init ==
  /\ lib \in {"grpc", "udp"}
  /\ clients = {}
  /\ GrpcInit
  /\ UdpInit

Next ==
  \/ \E n \in Client : NetworkStart(n) \/ NetworkSend(n) \/ Broadcast(n)
  \/ lib = "grpc" /\ GrpcNext /\ UNCHANGED <<udpVars, lib, clients>>
  \/ lib = "udp" /\ UdpNext /\ UNCHANGED <<grpcVars, lib, clients>>

Spec == Init /\ [][Next]_vars /\ GrpcFairness /\ UdpFairness

\* Only the library that was linked has any state.
TypeOK ==
  /\ lib \in {"grpc", "udp"}
  /\ clients \subseteq Client
  /\ GrpcTypeOK /\ UdpTypeOK
  /\ lib = "grpc" => UdpInit
  /\ lib = "udp" => GrpcInit
=============================================================================
