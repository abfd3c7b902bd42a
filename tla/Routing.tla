------------------------------ MODULE Routing -------------------------------
(***************************************************************************)
(* To which player PaxController::HandleMessage gives a message of each    *)
(* type (core/controller.cpp, include/messages.hpp).                       *)
(***************************************************************************)
EXTENDS Integers, TLAPS

\* The values of the enumeration: each group begins at a constant shifted
\* left by three bits, 0x1, 0x11, 0x111 and 0x1111.
AcceptorType == 8 .. 9
ProposerType == 136 .. 137
LearnerType == 2184 .. 2191
PlaceholderType == {34952}
MessageType == {0} \cup AcceptorType \cup ProposerType \cup LearnerType \cup PlaceholderType

MessageForProposer(t) == t \div 16 = 1
MessageForAcceptor(t) == t \div 8 = 1
MessageForLearner(t) == t \div 32 = 1
MessagePlaceHolder(t) == t \div 64 = 1

\* The player whose HandleMessage is called.
Addressee(t) ==
  IF MessagePlaceHolder(t) THEN "none"
  ELSE IF MessageForLearner(t) THEN "learner"
  ELSE IF MessageForProposer(t) THEN "proposer"
  ELSE IF MessageForAcceptor(t) THEN "acceptor" ELSE "none"

-----------------------------------------------------------------------------
\* No message reaches the wrong player, but of all types only the acceptor's
\* reach one: the tests compare the whole of the shifted type with one, and
\* the other groups have more than one bit set.  What proposer and learner
\* would be sent is dropped (PaxController::HandleMessage).
THEOREM RoutedTypes ==
  \A t \in MessageType : Addressee(t) = IF t \in AcceptorType THEN "acceptor" ELSE "none"
  BY SMT DEF MessageType, AcceptorType, ProposerType, LearnerType, PlaceholderType,
             Addressee, MessageForProposer, MessageForAcceptor, MessageForLearner,
             MessagePlaceHolder
=============================================================================
