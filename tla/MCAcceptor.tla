----------------------------- MODULE MCAcceptor -----------------------------
(* Two proposal numbers by two nodes give four ballots, enough for a       *)
(* promise, an acceptance, a second promise and a second acceptance in     *)
(* every order; two instances let a value leak from one to the next.       *)
EXTENDS Acceptor, TLC

\* Values are only compared with each other.
Symmetry == Permutations(Value)

=============================================================================
