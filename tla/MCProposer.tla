----------------------------- MODULE MCProposer -----------------------------
(* A single node, two of which both must agree, and three: the majority    *)
(* of promises is reached at once, both votes are counted, or neither      *)
(* happens.  Six numbers allow several rejections; three instances allow   *)
(* late timeouts and acknowledgements.                                     *)
EXTENDS Proposer

MCOptions == {[nodes |-> 1, majority |-> 1], [nodes |-> 2, majority |-> 2],
              [nodes |-> 3, majority |-> 2]}
=============================================================================
