---------------------------- MODULE MCLogStorage ----------------------------
(* Three keys and four records: enough for a key written twice, an         *)
(* unindexed record between two others, segments emptied, deleted and      *)
(* created anew, and a crash in the middle of a replay of several records. *)
EXTENDS LogStorage

=============================================================================
