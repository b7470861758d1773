------------------------------ MODULE Rendezvous ------------------------------
(***************************************************************************)
(* What a rendezvous promises: a task passes only when every task has come *)
(* to it since the task passed the last time.  since[t] is the set of the  *)
(* tasks that have.                                                        *)
(***************************************************************************)
CONSTANT Task
VARIABLE since

Init == since = [t \in Task |-> {}]

\* u comes, and the tasks of P pass.
Arrive(u, P) ==
    /\ \A t \in P : since[t] \cup {u} = Task
    /\ since' = [t \in Task |-> IF t \in P THEN {} ELSE since[t] \cup {u}]

Next == \E u \in Task, P \in SUBSET Task : Arrive(u, P)

Spec == Init /\ [][Next]_since
===============================================================================
