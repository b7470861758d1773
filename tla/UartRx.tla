------------------------------- MODULE UartRx -------------------------------
(***************************************************************************)
(* The receive path of src/uart.c: the interrupt handler of one port puts  *)
(* every received character in a ring buffer (fifo_put), a task takes them *)
(* out (UARTGetChar, which spins on fifo_get).  No lock protects the ring: *)
(* the handler runs to completion between any two memory accesses of the   *)
(* task.  The k-th character that reaches the port is the number k, so     *)
(* that loss, duplication and reordering are visible in what is returned.  *)
(* The controller in front of the handler (16-byte receive FIFO, trigger   *)
(* level one, overrun drops the newcomer) is hardware.                     *)
(***************************************************************************)
EXTENDS Integers, Sequences

CONSTANTS
    UART_BUFSIZE,   \* uart.h: slots of the ring (0x40)
    RbrDepth,       \* slots of the hardware receive FIFO (16)
    MaxArrived      \* bound: characters the line delivers in a run

ASSUME RxAssumption ==
    /\ UART_BUFSIZE \in Nat \ {0, 1}
    /\ RbrDepth \in Nat \ {0}
    /\ MaxArrived \in Nat

VARIABLES
    arrived,    \* characters the line has delivered so far
    rbr,        \* the hardware receive FIFO behind RBR
    buffer, head, tail,     \* UARTFifo_t
    pc,         \* the reader: idle, check, load, advance
    c,          \* the reader's local
    stored,     \* history: the characters fifo_put accepted, in order
    got         \* history: the characters UARTGetChar returned, in order

vars == <<arrived, rbr, buffer, head, tail, pc, c, stored, got>>

Slot == 0 .. UART_BUFSIZE - 1
Char == 0 .. MaxArrived
next_unwrapped(i) == i + 1      \* mutant: the index is not wrapped
next(i) == (i + 1) % UART_BUFSIZE

Init ==
    /\ arrived = 0
    /\ rbr = <<>>
    /\ buffer = [i \in Slot |-> 0]
    /\ head = 0
    /\ tail = 0
    /\ pc = "idle"
    /\ c = 0
    /\ stored = <<>>
    /\ got = <<>>

\* The line delivers one more character; a full hardware FIFO drops it.
Arrive ==
    /\ arrived < MaxArrived
    /\ arrived' = arrived + 1
    /\ rbr' = IF Len(rbr) < RbrDepth THEN Append(rbr, arrived + 1) ELSE rbr
    /\ UNCHANGED <<buffer, head, tail, pc, c, stored, got>>

\* Mutant: no test for a full ring.
fifo_put_unguarded(x) ==
    /\ buffer' = [buffer EXCEPT ![head] = x]
    /\ head' = next(head)
    /\ stored' = Append(stored, x)

\* fifo_put, run inside the handler: a full ring drops the character.
fifo_put(x) ==
    IF next(head) = tail
    THEN UNCHANGED <<buffer, head, stored>>
    ELSE /\ buffer' = [buffer EXCEPT ![head] = x]
         /\ head' = next(head)
         /\ stored' = Append(stored, x)

\* IIR reads IIR_RDA while RBR holds a character: one is moved per interrupt.
UART_IRQHandler ==
    /\ rbr /= <<>>
    /\ rbr' = Tail(rbr)
    /\ fifo_put(Head(rbr))
    /\ UNCHANGED <<arrived, tail, pc, c, got>>

\* A task calls UARTGetChar.
UARTGetChar ==
    /\ pc = "idle"
    /\ pc' = "check"
    /\ UNCHANGED <<arrived, rbr, buffer, head, tail, c, stored, got>>

\* fifo_get: the emptiness test, the load of the character, the new tail.
\* head and tail are not volatile; without optimisation, as the project is
\* built, every test loads them.
GetEmpty ==
    /\ pc = "check"
    /\ head = tail
    /\ UNCHANGED vars

GetNonEmpty ==
    /\ pc = "check"
    /\ head /= tail
    /\ pc' = "load"
    /\ UNCHANGED <<arrived, rbr, buffer, head, tail, c, stored, got>>

GetLoad ==
    /\ pc = "load"
    /\ c' = buffer[tail]
    /\ pc' = "advance"
    /\ UNCHANGED <<arrived, rbr, buffer, head, tail, stored, got>>

GetAdvance ==
    /\ pc = "advance"
    /\ tail' = next(tail)
    /\ got' = Append(got, c)
    /\ pc' = "idle"
    /\ UNCHANGED <<arrived, rbr, buffer, head, c, stored>>

fifo_get == GetEmpty \/ GetNonEmpty \/ GetLoad \/ GetAdvance

Next == Arrive \/ UART_IRQHandler \/ UARTGetChar \/ fifo_get

Spec == Init /\ [][Next]_vars

\* The processor serves a pending interrupt, and the reader's task, once it
\* is in UARTGetChar, keeps getting time slices.
FairSpec ==
    /\ Spec
    /\ WF_vars(UART_IRQHandler)
    /\ WF_vars(fifo_get)
-----------------------------------------------------------------------------
TypeOK ==
    /\ arrived \in Char
    /\ rbr \in Seq(Char)
    /\ buffer \in [Slot -> Char]
    /\ head \in Slot
    /\ tail \in Slot
    /\ pc \in {"idle", "check", "load", "advance"}
    /\ c \in Char
    /\ stored \in Seq(Char)
    /\ got \in Seq(Char)

\* What the ring holds between tail and head, oldest first.
Used == (head - tail) % UART_BUFSIZE
Contents == [k \in 1 .. Used |-> buffer[(tail + k - 1) % UART_BUFSIZE]]

\* What UARTGetChar has returned is, character for character, what fifo_put
\* accepted: an interrupt between any two accesses of fifo_get neither
\* loses, repeats nor reorders a stored character, and never reuses the slot
\* that is being read.
ReadsWhatWasStored ==
    /\ Len(got) <= Len(stored)
    /\ \A k \in 1 .. Len(got) : got[k] = stored[k]

\* Nothing stored disappears: what is stored and not yet returned is in the
\* ring, and the last free slot is never used, so a full ring never looks
\* empty.
RingHoldsTheRest == Len(stored) = Len(got) + Used

\* The slots between tail and head, with the handler and the reader at work
\* on them, are a bounded queue with atomic operations: Put takes effect when
\* head moves, Take when tail moves.
Ring == INSTANCE CharQueue WITH
            Capacity <- UART_BUFSIZE - 1,
            queue <- Contents,
            taken <- got
ImplementsQueue == Ring!Spec

\* "Wait for a character from the given port" (the comment above
\* UARTGetChar): a reader that waits returns once a character has reached
\* the port.
WaitingReaderIsServed == (pc /= "idle" /\ rbr /= <<>>) ~> (pc = "idle")
=============================================================================
