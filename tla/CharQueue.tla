------------------------------ MODULE CharQueue ------------------------------
(***************************************************************************)
(* What the receive ring of src/uart.c promises its two users, the         *)
(* interrupt handler and UARTGetChar: a queue of at most Capacity          *)
(* characters, put and taken atomically, in order.                         *)
(***************************************************************************)
EXTENDS Naturals, Sequences

CONSTANTS Capacity, Char

VARIABLES
    queue,  \* characters put and not yet taken
    taken   \* history of the characters taken

Init == queue = <<>> /\ taken = <<>>

Put ==
    /\ Len(queue) < Capacity
    /\ \E x \in Char : queue' = Append(queue, x)
    /\ UNCHANGED taken

Take ==
    /\ queue /= <<>>
    /\ taken' = Append(taken, Head(queue))
    /\ queue' = Tail(queue)

Next == Put \/ Take

Spec == Init /\ [][Next]_<<queue, taken>>
=============================================================================
