-------------------------------- MODULE Queue --------------------------------
(***************************************************************************)
(* The queues of freertos/Source/queue.c, which semaphores are made of as  *)
(* well: one queue, the tasks that send to it and receive from it with a   *)
(* timeout, and interrupts that do so without blocking.                    *)
(*                                                                         *)
(* One step is one critical section.  Between them interrupts run, and any *)
(* other task as long as the scheduler is not suspended: which one is left *)
(* open, priorities only narrow the choice.  So is the waiting task that   *)
(* xTaskRemoveFromEventList wakes, and what Scheduler proves of delays is  *)
(* taken for granted: a task that listed itself for d ticks is readied by  *)
(* the d-th tick.  A task's pc:                                            *)
(*   app        application code                                           *)
(*   try        before the critical section at the head of the loop        *)
(*   lock       before vTaskSuspendAll and prvLockQueue                    *)
(*   check      before xTaskCheckForTimeOut                                *)
(*   test       before prvIsQueueFull or prvIsQueueEmpty                   *)
(*   place      before vTaskPlaceOnEventList                               *)
(*   unlockTx, unlockRx     in the two halves of prvUnlockQueue, to go on  *)
(*              with the loop                                              *)
(*   expireTx, expireRx     the same, to return without success            *)
(***************************************************************************)
EXTENDS Integers, Sequences, FiniteSets

CONSTANTS
    Task,
    None,           \* no task
    Item,           \* what is queued; one value for a semaphore
    Length,         \* uxLength
    MaxTick,        \* portMAX_DELAY; the tick count is modulo MaxTick + 1
    TaskOps,        \* operations tasks call: of Sends \cup Receives
    Waits,          \* the timeouts they call them with
    IsrOps,         \* operations interrupts call: of Sends \cup Receives
    Resets,         \* whether tasks call xQueueReset
    MaxLock         \* bound: sends, and receives, of interrupts while the queue
                    \* is locked

Sends == {"back", "front", "overwrite"}
Receives == {"receive", "peek"}
Tick == 0 .. MaxTick

ASSUME QueueAssumption ==
    /\ IsFiniteSet(Task) /\ None \notin Task /\ Item /= {}
    /\ Length \in Nat \ {0} /\ MaxTick \in Nat \ {0}
    /\ TaskOps \subseteq Sends \cup Receives /\ Waits \subseteq Tick
    /\ IsrOps \subseteq Sends \cup Receives
    /\ "overwrite" \in TaskOps \cup IsrOps => Length = 1    \* configASSERT, queue.c:603
    /\ Resets \in BOOLEAN /\ MaxLock \in Nat

UNLOCKED == -1
Slot == 0 .. Length - 1

VARIABLES
    buffer, readFrom, writeTo,  \* the storage area, pcReadFrom, pcWriteTo
    count,                      \* uxMessagesWaiting
    rxLock, txLock,
    holder,         \* the task that has suspended the scheduler
    tick,           \* xTickCount
    pc, op, item,   \* the call a task is in
    wait,           \* its xTicksToWait
    entry, wrapped, \* its xTimeOut: xTimeOnEntering, or -1 before xEntryTimeSet,
                    \* and whether xNumOfOverflows has moved since
    on,             \* the waiting list it is on: none, send, receive
    left,           \* ticks before it is readied by the tick; 0 without timeout
    owed,           \* history: ticks to come before its call may time out
    out             \* history: the item copied out last

ring == <<buffer, readFrom, writeTo, count, out>>
locks == <<rxLock, txLock>>
waiting == <<on, left>>
call == <<op, item, wait, entry, wrapped, owed>>
vars == <<ring, locks, holder, tick, pc, call, waiting>>

Init ==
    /\ \E x \in Item : buffer = [i \in Slot |-> x] /\ item = [t \in Task |-> x] /\ out = x
    /\ readFrom = Length - 1 /\ writeTo = 0 /\ count = 0
    /\ rxLock = UNLOCKED /\ txLock = UNLOCKED
    /\ holder = None /\ tick = 0
    /\ pc = [t \in Task |-> "app"] /\ op = [t \in Task |-> "none"]
    /\ wait = [t \in Task |-> 0]
    /\ entry = [t \in Task |-> -1] /\ wrapped = [t \in Task |-> FALSE]
    /\ on = [t \in Task |-> "none"] /\ left = [t \in Task |-> 0]
    /\ owed = [t \in Task |-> 0]
-----------------------------------------------------------------------------
(* The storage area *)

\* Mutant: pcReadFrom is moved before the item is stored in front.
CopyToFront_late(x) ==
    LET r == (readFrom - 1) % Length IN
    buffer' = [buffer EXCEPT ![r] = x] /\ readFrom' = r

\* prvCopyDataToQueue, its second branch.
CopyToFront(x) ==
    /\ buffer' = [buffer EXCEPT ![readFrom] = x]
    /\ readFrom' = (readFrom - 1) % Length

\* Mutant: overwriting counts one item more.
prvCopyDataToQueue_grows(x, o) ==
    /\ IF o = "back"
       THEN /\ buffer' = [buffer EXCEPT ![writeTo] = x]
            /\ writeTo' = (writeTo + 1) % Length
            /\ UNCHANGED readFrom
       ELSE CopyToFront(x) /\ UNCHANGED writeTo
    /\ count' = count + 1
    /\ UNCHANGED out

prvCopyDataToQueue(x, o) ==
    /\ IF o = "back"
       THEN /\ buffer' = [buffer EXCEPT ![writeTo] = x]
            /\ writeTo' = (writeTo + 1) % Length
            /\ UNCHANGED readFrom
       ELSE CopyToFront(x) /\ UNCHANGED writeTo
    /\ count' = IF o = "overwrite" /\ count > 0 THEN count ELSE count + 1
    /\ UNCHANGED out

\* The item prvCopyDataFromQueue copies out.
First == buffer[(readFrom + 1) % Length]

prvCopyDataFromQueue ==
    /\ readFrom' = (readFrom + 1) % Length
    /\ out' = First
    /\ count' = count - 1
    /\ UNCHANGED <<buffer, writeTo>>

\* A peek puts pcReadFrom back where it was.
PeekData == out' = First /\ UNCHANGED <<buffer, readFrom, writeTo, count>>

Possible(o) ==
    CASE o \in {"back", "front"} -> count < Length
      [] o = "overwrite" -> TRUE
      [] OTHER -> count > 0

Copy(o, x) ==
    CASE o \in Sends -> prvCopyDataToQueue(x, o)
      [] o = "receive" -> prvCopyDataFromQueue
      [] OTHER -> PeekData
-----------------------------------------------------------------------------
(* The waiting lists *)

Waiters(l) == {t \in Task : on[t] = l}

Wake(W) ==
    /\ on' = [t \in Task |-> IF t \in W THEN "none" ELSE on[t]]
    /\ left' = [t \in Task |-> IF t \in W THEN 0 ELSE left[t]]

\* xTaskRemoveFromEventList, unless the list is empty.
WakeOne(l) == IF Waiters(l) = {} THEN UNCHANGED waiting ELSE \E t \in Waiters(l) : Wake({t})

\* The list whose first task may go on once o has been done.
Wakes(o) == IF o = "receive" THEN "send" ELSE "receive"
-----------------------------------------------------------------------------
(* Tasks *)

\* Other tasks do not run while one has suspended the scheduler, and a task
\* on a waiting list does not run unless it is still about to give way.
At(t, l) == pc[t] = l /\ holder \in {None, t}
Goto(t, l) == pc' = [pc EXCEPT ![t] = l]

Finish(t) ==
    /\ Goto(t, "app")
    /\ op' = [op EXCEPT ![t] = "none"]
    /\ wait' = [wait EXCEPT ![t] = 0]
    /\ entry' = [entry EXCEPT ![t] = -1] /\ wrapped' = [wrapped EXCEPT ![t] = FALSE]
    /\ owed' = [owed EXCEPT ![t] = 0]
    /\ UNCHANGED item

\* A call of xQueueGenericSend or xQueueGenericReceive.
Call(t) ==
    /\ At(t, "app")
    /\ \E o \in TaskOps, w \in Waits :
        /\ op' = [op EXCEPT ![t] = o]
        /\ wait' = [wait EXCEPT ![t] = w] /\ owed' = [owed EXCEPT ![t] = w]
        /\ \E x \in Item : item' = IF o \in Sends THEN [item EXCEPT ![t] = x] ELSE item
    /\ Goto(t, "try")
    /\ UNCHANGED <<ring, locks, holder, tick, entry, wrapped, waiting>>

\* The loop's first critical section: the operation is done ...
Done(t) ==
    /\ At(t, "try") /\ on[t] = "none"
    /\ Possible(op[t])
    /\ Copy(op[t], item[t])
    /\ WakeOne(Wakes(op[t]))
    /\ Finish(t)
    /\ UNCHANGED <<locks, holder, tick>>

\* ... or the call does not wait ...
Refused(t) ==
    /\ At(t, "try") /\ on[t] = "none"
    /\ ~Possible(op[t]) /\ wait[t] = 0
    /\ Finish(t)
    /\ UNCHANGED <<ring, locks, holder, tick, waiting>>

\* ... or it has to, from the first time on.  Without a timeout nobody looks
\* at the time that is recorded.
SetTimeOutState(t) ==
    /\ At(t, "try") /\ on[t] = "none"
    /\ ~Possible(op[t]) /\ wait[t] > 0
    /\ entry' = IF entry[t] = -1 /\ wait[t] /= MaxTick THEN [entry EXCEPT ![t] = tick] ELSE entry
    /\ Goto(t, "lock")
    /\ UNCHANGED <<ring, locks, holder, tick, op, item, wait, wrapped, owed, waiting>>

\* vTaskSuspendAll, prvLockQueue
prvLockQueue(t) ==
    /\ At(t, "lock")
    /\ holder' = t
    /\ rxLock' = IF rxLock = UNLOCKED THEN 0 ELSE rxLock
    /\ txLock' = IF txLock = UNLOCKED THEN 0 ELSE txLock
    /\ Goto(t, "check")
    /\ UNCHANGED <<ring, tick, call, waiting>>

\* Unsigned, as wide as the tick count.
Elapsed(t) == (tick - entry[t]) % (MaxTick + 1)

\* Mutant: what has been waited already is not taken off.
xTaskCheckForTimeOut_whole(t) ==
    /\ At(t, "check")
    /\ IF wait[t] = MaxTick THEN Goto(t, "test") /\ UNCHANGED <<wait, entry, wrapped>>
       ELSE IF (wrapped[t] /\ tick >= entry[t]) \/ Elapsed(t) >= wait[t]
       THEN Goto(t, "expireTx") /\ UNCHANGED <<wait, entry, wrapped>>
       ELSE /\ entry' = [entry EXCEPT ![t] = tick]
            /\ wrapped' = [wrapped EXCEPT ![t] = FALSE]
            /\ Goto(t, "test")
            /\ UNCHANGED wait
    /\ UNCHANGED <<ring, locks, holder, tick, op, item, owed, waiting>>

\* Mutant: the tick count is compared without regard to its wrap.
xTaskCheckForTimeOut_wrap(t) ==
    /\ At(t, "check")
    /\ IF wait[t] = MaxTick THEN Goto(t, "test") /\ UNCHANGED <<wait, entry, wrapped>>
       ELSE IF wrapped[t] \/ Elapsed(t) >= wait[t]
       THEN Goto(t, "expireTx") /\ UNCHANGED <<wait, entry, wrapped>>
       ELSE /\ wait' = [wait EXCEPT ![t] = wait[t] - Elapsed(t)]
            /\ entry' = [entry EXCEPT ![t] = tick]
            /\ wrapped' = [wrapped EXCEPT ![t] = FALSE]
            /\ Goto(t, "test")
    /\ UNCHANGED <<ring, locks, holder, tick, op, item, owed, waiting>>

xTaskCheckForTimeOut(t) ==
    /\ At(t, "check")
    /\ IF wait[t] = MaxTick THEN Goto(t, "test") /\ UNCHANGED <<wait, entry, wrapped>>
       ELSE IF (wrapped[t] /\ tick >= entry[t]) \/ Elapsed(t) >= wait[t]
       THEN Goto(t, "expireTx") /\ UNCHANGED <<wait, entry, wrapped>>
       ELSE /\ wait' = [wait EXCEPT ![t] = wait[t] - Elapsed(t)]
            /\ entry' = [entry EXCEPT ![t] = tick]
            /\ wrapped' = [wrapped EXCEPT ![t] = FALSE]
            /\ Goto(t, "test")
    /\ UNCHANGED <<ring, locks, holder, tick, op, item, owed, waiting>>

\* prvIsQueueFull and prvIsQueueEmpty
TestAgain(t) ==
    /\ At(t, "test")
    /\ Goto(t, IF op[t] \in Sends
               THEN IF count = Length THEN "place" ELSE "unlockTx"
               ELSE IF count = 0 THEN "place" ELSE "unlockTx")
    /\ UNCHANGED <<ring, locks, holder, tick, call, waiting>>

vTaskPlaceOnEventList(t) ==
    /\ At(t, "place")
    /\ on' = [on EXCEPT ![t] = IF op[t] \in Sends THEN "send" ELSE "receive"]
    /\ left' = [left EXCEPT ![t] = IF wait[t] = MaxTick THEN 0 ELSE wait[t]]
    /\ Goto(t, "unlockTx")
    /\ UNCHANGED <<ring, locks, holder, tick, call>>

\* Mutant: one task is woken however many items came in.
WakeUpTo_one(k, l) == IF k > 0 THEN WakeOne(l) ELSE UNCHANGED waiting

\* The loops of prvUnlockQueue: a task for every count of the lock, as long
\* as there are some.
WakeUpTo(k, l) ==
    \E W \in SUBSET Waiters(l) :
        /\ Cardinality(W) = IF k < Cardinality(Waiters(l)) THEN k ELSE Cardinality(Waiters(l))
        /\ Wake(W)

\* Mutant: with nobody to wake the half is left before the lock is undone.
UnlockTx_kept(t) ==
    /\ At(t, "unlockTx") \/ At(t, "expireTx")
    /\ WakeUpTo(txLock, "receive")
    /\ txLock' = IF txLock > 0 /\ Waiters("receive") = {} THEN txLock ELSE UNLOCKED
    /\ Goto(t, IF pc[t] = "unlockTx" THEN "unlockRx" ELSE "expireRx")
    /\ UNCHANGED <<ring, rxLock, holder, tick, call>>

\* The first half of prvUnlockQueue.
UnlockTx(t) ==
    /\ At(t, "unlockTx") \/ At(t, "expireTx")
    /\ WakeUpTo(txLock, "receive")
    /\ txLock' = UNLOCKED
    /\ Goto(t, IF pc[t] = "unlockTx" THEN "unlockRx" ELSE "expireRx")
    /\ UNCHANGED <<ring, rxLock, holder, tick, call>>

\* The second half, and xTaskResumeAll.
UnlockRx(t) ==
    /\ At(t, "unlockRx") \/ At(t, "expireRx")
    /\ WakeUpTo(rxLock, "send")
    /\ rxLock' = UNLOCKED
    /\ holder' = None
    /\ IF pc[t] = "unlockRx" THEN Goto(t, "try") /\ UNCHANGED call ELSE Finish(t)
    /\ UNCHANGED <<ring, txLock, tick>>

\* xQueueReset.  "One should be unblocked", of the tasks waiting to send.
xQueueReset(t) ==
    /\ Resets
    /\ At(t, "app")
    /\ count' = 0 /\ writeTo' = 0 /\ readFrom' = Length - 1
    /\ rxLock' = UNLOCKED /\ txLock' = UNLOCKED
    /\ WakeOne("send")
    /\ UNCHANGED <<buffer, out, holder, tick, pc, call>>
-----------------------------------------------------------------------------
(* Interrupts *)

\* xQueueGenericSendFromISR: on a locked queue it leaves the waiting tasks to
\* prvUnlockQueue.
SendFromISR ==
    \E o \in IsrOps \cap Sends, x \in Item :
        /\ Possible(o)
        /\ prvCopyDataToQueue(x, o)
        /\ IF txLock = UNLOCKED
           THEN WakeOne("receive") /\ UNCHANGED locks
           ELSE txLock < MaxLock /\ txLock' = txLock + 1 /\ UNCHANGED <<rxLock, waiting>>
        /\ UNCHANGED <<holder, tick, pc, call>>

\* Mutant: the lock is not counted.
ReceiveFromISR_uncounted ==
    /\ "receive" \in IsrOps /\ Possible("receive")
    /\ prvCopyDataFromQueue
    /\ IF rxLock = UNLOCKED THEN WakeOne("send") ELSE UNCHANGED waiting
    /\ UNCHANGED <<locks, holder, tick, pc, call>>

\* xQueueReceiveFromISR, likewise.
ReceiveFromISR ==
    /\ "receive" \in IsrOps /\ Possible("receive")
    /\ prvCopyDataFromQueue
    /\ IF rxLock = UNLOCKED
       THEN WakeOne("send") /\ UNCHANGED locks
       ELSE rxLock < MaxLock /\ rxLock' = rxLock + 1 /\ UNCHANGED <<txLock, waiting>>
    /\ UNCHANGED <<holder, tick, pc, call>>

\* xQueuePeekFromISR: nobody is woken.
PeekFromISR ==
    /\ "peek" \in IsrOps /\ Possible("peek")
    /\ PeekData
    /\ UNCHANGED <<locks, holder, tick, pc, call, waiting>>

\* With the scheduler suspended ticks are pended, to be processed when it is
\* resumed: then they come here.
IncrementTick ==
    /\ holder = None
    /\ tick' = (tick + 1) % (MaxTick + 1)
    /\ wrapped' = [t \in Task |-> wrapped[t] \/ (tick' = 0 /\ entry[t] /= -1)]
    /\ on' = [t \in Task |-> IF left[t] = 1 THEN "none" ELSE on[t]]
    /\ left' = [t \in Task |-> IF left[t] = 0 THEN 0 ELSE left[t] - 1]
    /\ owed' = [t \in Task |-> IF wait[t] = MaxTick \/ owed[t] = 0 THEN owed[t] ELSE owed[t] - 1]
    /\ UNCHANGED <<ring, locks, holder, pc, op, item, wait, entry>>
-----------------------------------------------------------------------------
Step(t) ==
    \/ Done(t) \/ Refused(t) \/ SetTimeOutState(t)
    \/ prvLockQueue(t) \/ xTaskCheckForTimeOut(t) \/ TestAgain(t) \/ vTaskPlaceOnEventList(t)
    \/ UnlockTx(t) \/ UnlockRx(t)

Next ==
    \/ \E t \in Task : Call(t) \/ xQueueReset(t) \/ Step(t)
    \/ SendFromISR \/ ReceiveFromISR \/ PeekFromISR \/ IncrementTick

Spec == Init /\ [][Next]_vars

\* Tasks of one priority share the processor, as the ones of the examples do
\* (main_ex_sdcard.c:91-97), and the tick keeps coming.  Both stand still
\* while another task has the scheduler suspended (strong fairness).
FairSpec == Spec /\ SF_vars(IncrementTick) /\ \A t \in Task : SF_vars(Step(t))
-----------------------------------------------------------------------------
TypeOK ==
    /\ buffer \in [Slot -> Item] /\ out \in Item
    /\ readFrom \in Slot /\ writeTo \in Slot /\ count \in 0 .. Length
    /\ rxLock \in Int /\ rxLock >= UNLOCKED
    /\ txLock \in Int /\ txLock >= UNLOCKED
    /\ holder \in Task \cup {None} /\ tick \in Tick
    /\ pc \in [Task -> {"app", "try", "lock", "check", "test", "place",
                        "unlockTx", "unlockRx", "expireTx", "expireRx"}]
    /\ op \in [Task -> Sends \cup Receives \cup {"none"}]
    /\ item \in [Task -> Item]
    /\ wait \in [Task -> Tick] /\ owed \in [Task -> Tick]
    /\ entry \in [Task -> Tick \cup {-1}] /\ wrapped \in [Task -> BOOLEAN]
    /\ on \in [Task -> {"none", "send", "receive"}]
    /\ left \in [Task -> Tick]

\* What the pointers say is queued, the next to be received first.
Contents == [k \in 1 .. count |-> buffer[(readFrom + k) % Length]]

\* However sends to either end, overwrites, receives, peeks and resets of
\* tasks and interrupts follow one another around the storage area, the queue
\* is a bounded sequence with atomic operations.
Promise == INSTANCE BoundedQueue WITH queue <- Contents
ImplementsQueue == Promise!Spec

\* Tasks that will look at the queue again before they do anything else.
Coming(ops) == {t \in Task : op[t] \in ops /\ on[t] = "none" /\ pc[t] \in {"try", "unlockTx", "unlockRx"}}

\* No wake-up is lost: while a task waits to receive, every item in the queue
\* has somebody coming for it, a task that is on its way or the task that
\* holds the queue locked and will wake one when it unlocks it, wherever
\* interrupts hit between the test of the queue and the unlocking.
ReceiversAreWoken ==
    Waiters("receive") /= {} =>
        count <= Cardinality(Coming(Receives)) + (IF txLock > 0 THEN txLock ELSE 0)

\* The same for free places and the tasks that wait to send.
SendersAreWoken ==
    Waiters("send") /= {} =>
        Length - count <= Cardinality(Coming(Sends)) + (IF rxLock > 0 THEN rxLock ELSE 0)

\* The queue is locked exactly while a task has suspended the scheduler to
\* wait for it, so no interrupt finds a lock that nobody will undo.
LockedByHolder ==
    /\ TypeOK
    /\ txLock /= UNLOCKED <=> \E t \in Task : pc[t] \in {"check", "test", "place", "unlockTx", "expireTx"}
    /\ rxLock /= UNLOCKED <=> holder /= None
    /\ \A t \in Task : t = holder <=> pc[t] \notin {"app", "try", "lock"}

\* A call gives up only after as many ticks as it was told to wait, however
\* often it was woken in vain in between, and across the wrap of the tick count.
NoEarlyTimeout == \A t \in Task : pc[t] \in {"expireTx", "expireRx"} => owed[t] = 0

\* A call with a timeout returns, however often others take what it was woken
\* for.
CallsReturn == \A t \in Task : (pc[t] /= "app" /\ wait[t] /= MaxTick) ~> pc[t] = "app"
=============================================================================
