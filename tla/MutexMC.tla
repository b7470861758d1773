------------------------------- MODULE MutexMC -------------------------------
(* An instance of Mutex for TLC: three tasks above the idle task. *)
EXTENDS Mutex

CONSTANTS idle, low, mid, high

Priorities == [t \in Task |-> CASE t = low -> 1 [] t = mid -> 2 [] t = high -> 3 [] OTHER -> 0]
=============================================================================
