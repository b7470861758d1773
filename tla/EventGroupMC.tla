----------------------------- MODULE EventGroupMC -----------------------------
(* An instance of EventGroup for TLC.  Besides the rendezvous a task waits    *)
(* for one of two bits, one of them the bit with which t1 comes to it.         *)
EXTENDS EventGroup, TLC

CONSTANTS t1, t2, t3

SomeWaits == {[want |-> Event \cup {t1}, all |-> FALSE, clear |-> TRUE]}
Equal == [t \in Task |-> 1]
Symmetry == Permutations(Task \ {t1})
===============================================================================
