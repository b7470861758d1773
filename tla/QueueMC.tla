------------------------------- MODULE QueueMC -------------------------------
(* Instances of Queue for TLC. *)
EXTENDS Queue, TLC

\* Which task makes which call is left open, so tasks are interchangeable.
Interchangeable == Permutations(Task)
=============================================================================
