---------------------------- MODULE SchedulerMC ----------------------------
(* Instances of Scheduler for TLC. *)
EXTENDS Scheduler, TLC

\* Tasks other than the idle task are interchangeable.
Interchangeable == Permutations(Task \ {Idle})
=============================================================================
