---------------------------- MODULE MCScheduler ----------------------------
(* Scheduler with the most general client, for small numbers of threads.   *)
EXTENDS Scheduler

=============================================================================
