---------------------------- MODULE MCScheduler ----------------------------
(* The main thread and workers 1, 2, ...                                     *)
EXTENDS Scheduler
=============================================================================
