------------------------------- MODULE UartTx -------------------------------
(***************************************************************************)
(* The transmit path of src/uart.c: tasks poll LSR_THRE and write THR, with *)
(* no lock and no knowledge of one another.  LSR_THRE says that the        *)
(* transmit FIFO of the controller is empty; a task may be preempted       *)
(* between the poll and the write, and UARTSendStr writes twice after one  *)
(* poll where the text has a newline.  What is written to a full FIFO is   *)
(* lost.  Lines of several tasks mix, which nothing promises to prevent.   *)
(***************************************************************************)
EXTENDS Integers, Sequences, SequencesExt, FiniteSets

CONSTANTS
    Senders,        \* the tasks that print
    Texts,          \* what they print: non-empty sequences over Plain and "\n"
    ThrDepth        \* slots of the transmit FIFO (16, enabled by FCR = 0x07)

\* Every task may have two characters ahead of it on an empty FIFO; a call
\* without a character to send does nothing.
ASSUME TxAssumption ==
    /\ IsFiniteSet(Senders)
    /\ \A text \in Texts : text \in Seq(STRING) /\ text /= <<>>
    /\ ThrDepth \in Nat
    /\ ThrDepth >= 2 * Cardinality(Senders)

VARIABLES
    thr,        \* characters in the transmit FIFO
    sender,     \* each task: idle, poll, return (before the '\r'), write
    how,        \* the call: raw (UARTSend, UARTPutChar) or string
    todo,       \* BufferPtr and Length: what is left to send
    asked,      \* history: what the task's last call is to put on the line
    sent        \* history: what the FIFO took of it

txVars == <<thr, sender, how, todo, asked, sent>>

TxInit ==
    /\ thr = 0
    /\ sender = [s \in Senders |-> "idle"]
    /\ how = [s \in Senders |-> "raw"]
    /\ todo = [s \in Senders |-> <<>>]
    /\ asked = [s \in Senders |-> <<>>]
    /\ sent = [s \in Senders |-> <<>>]

\* A terminal wants a '\r' in front of every '\n' of a string.
OnLine(call, text) ==
    IF call = "raw" THEN text
    ELSE FlattenSeq([k \in DOMAIN text |->
            IF text[k] = "\n" THEN <<"\r", "\n">> ELSE <<text[k]>>])

Call(s, call, text) ==
    /\ sender[s] = "idle"
    /\ sender' = [sender EXCEPT ![s] = "poll"]
    /\ how' = [how EXCEPT ![s] = call]
    /\ todo' = [todo EXCEPT ![s] = text]
    /\ asked' = [asked EXCEPT ![s] = OnLine(call, text)]
    /\ sent' = [sent EXCEPT ![s] = <<>>]
    /\ UNCHANGED thr

UARTSend(s) == \E text \in Texts : Call(s, "raw", text)
UARTSendStr(s) == \E text \in Texts : Call(s, "string", text)
UARTPutChar(s) == \E text \in Texts : Call(s, "raw", <<text[1]>>)

\* Mutant: the transmitter is taken to be always ready.
Poll_blind(s) ==
    /\ sender[s] = "poll"
    /\ sender' = [sender EXCEPT ![s] = IF how[s] = "string" /\ todo[s][1] = "\n"
                                       THEN "return" ELSE "write"]
    /\ UNCHANGED <<thr, how, todo, asked, sent>>

\* while (!(LSR & LSR_THRE)), and the test for a newline.
Poll(s) ==
    /\ sender[s] = "poll"
    /\ thr = 0
    /\ sender' = [sender EXCEPT ![s] = IF how[s] = "string" /\ todo[s][1] = "\n"
                                       THEN "return" ELSE "write"]
    /\ UNCHANGED <<thr, how, todo, asked, sent>>

\* A write to THR: a full FIFO loses it.
Put(s, char) ==
    IF thr < ThrDepth
    THEN /\ thr' = thr + 1
         /\ sent' = [sent EXCEPT ![s] = Append(@, char)]
    ELSE UNCHANGED <<thr, sent>>

CarriageReturn(s) ==
    /\ sender[s] = "return"
    /\ Put(s, "\r")
    /\ sender' = [sender EXCEPT ![s] = "write"]
    /\ UNCHANGED <<how, todo, asked>>

Write(s) ==
    /\ sender[s] = "write"
    /\ Put(s, todo[s][1])
    /\ todo' = [todo EXCEPT ![s] = Tail(@)]
    /\ sender' = [sender EXCEPT ![s] = IF Len(todo[s]) = 1 THEN "idle" ELSE "poll"]
    /\ UNCHANGED <<how, asked>>

\* The controller shifts a character out.
Shift ==
    /\ thr > 0
    /\ thr' = thr - 1
    /\ UNCHANGED <<sender, how, todo, asked, sent>>

Transmit ==
    \/ Shift
    \/ \E s \in Senders :
          \/ UARTSend(s) \/ UARTSendStr(s) \/ UARTPutChar(s)
          \/ Poll(s) \/ CarriageReturn(s) \/ Write(s)
-----------------------------------------------------------------------------
\* What the call of a task still has to write.
Remaining(s) ==
    IF sender[s] = "write"
    THEN <<todo[s][1]>> \o OnLine(how[s], Tail(todo[s]))
    ELSE OnLine(how[s], todo[s])

\* Every character of every text goes into the transmit FIFO, in order and
\* with its '\r', although one poll serves two writes and other tasks write
\* between a poll and its write: with two slots for each task, none finds
\* the FIFO full.
TextsArriveWhole == \A s \in Senders : sent[s] \o Remaining(s) = asked[s]
=============================================================================
