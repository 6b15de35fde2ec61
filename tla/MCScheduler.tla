---------------------------- MODULE MCScheduler ----------------------------
(***************************************************************************)
(* Scheduler for TLC: an hour of maintenance for each kind of deployment.  *)
(***************************************************************************)
EXTENDS Scheduler

Maintenance == [p \in BOOLEAN |-> IF p THEN 1 ELSE 2]
=============================================================================
