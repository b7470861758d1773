---------------------------- MODULE BoundedQueue ----------------------------
(***************************************************************************)
(* What a FreeRTOS queue promises whoever uses it, task or interrupt: a    *)
(* sequence of at most Length items, each operation on it atomic.          *)
(***************************************************************************)
EXTENDS Naturals, Sequences

CONSTANTS Length, Item

VARIABLES
    queue,  \* the items, the next to be received first
    out     \* the item a receive or peek has copied out last

vars == <<queue, out>>

Init == queue = <<>> /\ out \in Item

SendToBack(x) == Len(queue) < Length /\ queue' = Append(queue, x) /\ UNCHANGED out

SendToFront(x) == Len(queue) < Length /\ queue' = <<x>> \o queue /\ UNCHANGED out

\* For a queue of one item.
Overwrite(x) == Length = 1 /\ queue' = <<x>> /\ UNCHANGED out

Receive == queue /= <<>> /\ out' = Head(queue) /\ queue' = Tail(queue)

Peek == queue /= <<>> /\ out' = Head(queue) /\ UNCHANGED queue

Reset == queue' = <<>> /\ UNCHANGED out

Next ==
    \/ Receive \/ Peek \/ Reset
    \/ \E x \in Item : SendToBack(x) \/ SendToFront(x) \/ Overwrite(x)

Spec == Init /\ [][Next]_vars
=============================================================================
