---------------------------- MODULE MCScheduler -----------------------------
(* Delays of one and two ticks: the proposer's timeouts are shorter than   *)
(* the learner's, as in the code (50 and 3000).  The value timeout is as   *)
(* long as the learner's, so that events tie, overtake and replace each    *)
(* other.  One tick of lateness is enough: the code only asks whether an   *)
(* event is due.                                                           *)
EXTENDS Scheduler

=============================================================================
