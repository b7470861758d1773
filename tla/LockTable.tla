------------------------------ MODULE LockTable ------------------------------
(***************************************************************************)
(* What mutexes promise to the tasks that call them: nest[t][m] is how     *)
(* many times t has been told that it took m and has not given it back     *)
(* since.  A task is told so only while nobody else is in.                 *)
(***************************************************************************)
EXTENDS Naturals

CONSTANTS Task, Mutex, Recursive
VARIABLE nest

Init == nest = [t \in Task |-> [m \in Mutex |-> 0]]

Acquire(t, m) ==
    /\ \A u \in Task \ {t} : nest[u][m] = 0
    /\ nest[t][m] > 0 => m \in Recursive
    /\ nest' = [nest EXCEPT ![t][m] = @ + 1]

Release(t, m) ==
    /\ nest[t][m] > 0
    /\ nest' = [nest EXCEPT ![t][m] = @ - 1]

Next == \E t \in Task, m \in Mutex : Acquire(t, m) \/ Release(t, m)

Spec == Init /\ [][Next]_nest
=============================================================================
