----------------------------- MODULE QueueProofs -----------------------------
(***************************************************************************)
(* Theorems about Queue, for every set of tasks, length of the queue and   *)
(* width of the tick count.  The inductive invariant says which calls and  *)
(* places go together, what a task about to list itself knows of the queue *)
(* and what a call with a timeout has left to wait.                        *)
(***************************************************************************)
EXTENDS Queue, FiniteSetTheorems, SequenceTheorems, TLAPS

\* A task outside a call waits for nothing; a task on a waiting list is about
\* to give way or does not run, and the list is the one of its operation.
Calls ==
    \A t \in Task :
        /\ pc[t] = "app" => on[t] = "none"
        /\ pc[t] /= "app" => op[t] \in TaskOps
        /\ on[t] /= "none" =>
              /\ pc[t] \in {"unlockTx", "unlockRx", "try"}
              /\ on[t] = IF op[t] \in Sends THEN "send" ELSE "receive"

\* Once a task has seen a full or an empty queue, only interrupts have changed
\* it, and the locks have counted them.
Seen ==
    \A t \in Task : pc[t] = "place" =>
        IF op[t] \in Sends THEN Length - count <= rxLock ELSE count <= txLock

\* What is left to wait, and has not been waited since the time in xTimeOut,
\* is no more than xTicksToWait; after a full round of the tick count it is
\* nothing.
Timing ==
    \A t \in Task :
        /\ pc[t] = "app" => wait[t] = 0 /\ owed[t] = 0 /\ entry[t] = -1
        /\ entry[t] = -1 => owed[t] <= wait[t] /\ ~wrapped[t]
        /\ pc[t] \notin {"app", "try"} /\ wait[t] /= MaxTick => entry[t] /= -1
        /\ entry[t] /= -1 /\ wait[t] /= MaxTick =>
              IF wrapped[t]
              THEN \/ owed[t] = 0
                   \/ tick < entry[t] /\ owed[t] <= wait[t] - (tick + MaxTick + 1 - entry[t])
              ELSE tick >= entry[t] /\ (owed[t] = 0 \/ owed[t] <= wait[t] - (tick - entry[t]))

\* pcWriteTo is where the item after the last one goes.
Ring == writeTo = (readFrom + 1 + count) % Length

Inv == LockedByHolder /\ Calls /\ Seen /\ Timing /\ NoEarlyTimeout /\ Ring
-----------------------------------------------------------------------------
(* The storage area *)

\* Indices wrap: the arithmetic of pcWriteTo and pcReadFrom.
LEMMA InSlot ==
    ASSUME NEW i \in Int
    PROVE  i % Length \in Slot
  BY QueueAssumption, SMT DEF Slot

LEMMA Within ==
    ASSUME NEW i \in Slot
    PROVE  i % Length = i
  BY QueueAssumption, SMT DEF Slot

LEMMA Ends ==
    (0 - 1) % Length = Length - 1 /\ Length % Length = 0 /\ (Length + Length) % Length = 0
<1>1. (0 - 1) % Length = Length - 1
  BY QueueAssumption, SMT
<1>2. Length % Length = 0 /\ (Length + Length) % Length = 0
  BY QueueAssumption, SMT
<1> QED
  BY <1>1, <1>2

LEMMA Round ==
    ASSUME NEW i \in Slot
    PROVE  (i + Length) % Length = i
  BY QueueAssumption, SMT DEF Slot

\* The successor of a slot, and the slot k places on.
LEMMA Successor ==
    ASSUME NEW i \in Slot
    PROVE  (i + 1) % Length = IF i + 1 = Length THEN 0 ELSE i + 1
<1>1. CASE i + 1 = Length
  BY <1>1, Ends
<1>2. CASE i + 1 /= Length
  <2>1. i + 1 \in Slot
    BY <1>2, QueueAssumption DEF Slot
  <2> QED
    BY <1>2, <2>1, Within
<1> QED
  BY <1>1, <1>2

LEMMA Predecessor ==
    ASSUME NEW i \in Slot
    PROVE  (i - 1) % Length = IF i = 0 THEN Length - 1 ELSE i - 1
<1>1. CASE i = 0
  BY <1>1, Ends
<1>2. CASE i /= 0
  <2>1. i - 1 \in Slot
    BY <1>2, QueueAssumption DEF Slot
  <2> QED
    BY <1>2, <2>1, Within
<1> QED
  BY <1>1, <1>2

LEMMA Further ==
    ASSUME NEW i \in Slot, NEW k \in 0 .. Length
    PROVE  (i + k) % Length = IF i + k < Length THEN i + k ELSE i + k - Length
<1>1. CASE i + k < Length
  <2>1. i + k \in Slot
    BY <1>1, QueueAssumption DEF Slot
  <2> QED
    BY <1>1, <2>1, Within
<1>2. CASE i + k >= Length
  <2> DEFINE j == i + k - Length
  <2>1. j \in Slot /\ j + Length = i + k /\ ~(i + k < Length)
    BY <1>2, QueueAssumption DEF Slot
  <2>2. (j + Length) % Length = j
    <3> HIDE DEF j
    <3> QED
      BY <2>1, Round
  <2>3. (i + k) % Length = j
    <3> HIDE DEF j
    <3> QED
      BY <2>1, <2>2
  <2> QED
    BY <2>1, <2>3
<1> QED
  BY <1>1, <1>2, QueueAssumption DEF Slot

\* Counting from the slot after pcReadFrom, as pcWriteTo does.
LEMMA WriteSlot ==
    ASSUME NEW r \in Slot, NEW c \in 0 .. Length
    PROVE  (r + 1 + c) % Length =
             IF r + 1 + c < Length THEN r + 1 + c
             ELSE IF r + 1 + c < Length + Length THEN r + 1 + c - Length ELSE 0
<1>1. CASE c < Length
  <2>1. c + 1 \in 0 .. Length /\ r + 1 + c = r + (c + 1) /\ r + (c + 1) < Length + Length
    BY <1>1, QueueAssumption DEF Slot
  <2>2. (r + (c + 1)) % Length = IF r + (c + 1) < Length THEN r + (c + 1) ELSE r + (c + 1) - Length
    BY <2>1, Further
  <2> QED
    BY <2>1, <2>2, QueueAssumption, SMT DEF Slot
<1>2. CASE c = Length
  <2>1. CASE r + 1 = Length
    <3>1. r + 1 + c = Length + Length
      BY <1>2, <2>1, QueueAssumption
    <3> QED
      BY <3>1, Ends, QueueAssumption
  <2>2. CASE r + 1 /= Length
    <3> DEFINE j == r + 1
    <3>1. j \in Slot /\ r + 1 + c = j + Length
      BY <1>2, <2>2, QueueAssumption DEF Slot
    <3>2. (j + Length) % Length = j
      <4> HIDE DEF j
      <4> QED
        BY <3>1, Round
    <3>3. ~(r + 1 + c < Length) /\ r + 1 + c < Length + Length /\ r + 1 + c - Length = j
      BY <1>2, <2>2, QueueAssumption DEF Slot
    <3> QED
      BY <3>1, <3>2, <3>3
  <2> QED
    BY <2>1, <2>2
<1> QED
  BY <1>1, <1>2, QueueAssumption

\* What an operation does to the count.
LEMMA CopyCounts ==
    ASSUME TypeOK, Ring, NEW o \in Sends \cup Receives, o = "overwrite" => Length = 1,
           NEW x \in Item, Possible(o), Copy(o, x)
    PROVE  /\ buffer' \in [Slot -> Item] /\ out' \in Item
           /\ readFrom' \in Slot /\ writeTo' \in Slot /\ count' \in 0 .. Length
           /\ Ring'
           /\ o \in {"back", "front"} => count < Length /\ count' = count + 1
           /\ o = "overwrite" => count' = Length
           /\ o = "receive" => count > 0 /\ count' = count - 1
           /\ o = "peek" => count > 0 /\ count' = count
<1>t. /\ readFrom \in Slot /\ writeTo \in Slot /\ count \in 0 .. Length
      /\ buffer \in [Slot -> Item] /\ out \in Item /\ Length \in Nat \ {0}
  BY QueueAssumption DEF TypeOK
<1>w. writeTo = IF readFrom + 1 + count < Length THEN readFrom + 1 + count
                ELSE IF readFrom + 1 + count < Length + Length
                THEN readFrom + 1 + count - Length ELSE 0
  BY <1>t, WriteSlot DEF Ring
<1>r. ASSUME readFrom' \in Slot, count' \in 0 .. Length,
             writeTo' = IF readFrom' + 1 + count' < Length THEN readFrom' + 1 + count'
                        ELSE IF readFrom' + 1 + count' < Length + Length
                        THEN readFrom' + 1 + count' - Length ELSE 0
      PROVE  Ring'
  BY <1>r, WriteSlot DEF Ring
<1>f. First \in Item
  <2>1. readFrom + 1 \in Int
    BY <1>t DEF Slot
  <2> QED
    BY <1>t, <2>1, InSlot DEF First
<1>1. CASE o = "back"
  <2>1. /\ buffer' = [buffer EXCEPT ![writeTo] = x] /\ writeTo' = (writeTo + 1) % Length
        /\ readFrom' = readFrom /\ count' = count + 1 /\ out' = out /\ count < Length
    BY <1>1 DEF Sends, prvCopyDataToQueue, Copy, Possible
  <2>2. writeTo' = IF writeTo + 1 = Length THEN 0 ELSE writeTo + 1
    BY <1>t, <2>1, Successor
  <2>3. writeTo' \in Slot /\ count' \in 0 .. Length
    BY <1>t, <2>1, <2>2 DEF Slot
  <2>4. Ring'
    BY <1>t, <1>w, <1>r, <2>1, <2>2, <2>3 DEF Slot
  <2> QED
    BY <1>t, <1>1, <2>1, <2>3, <2>4
<1>2. CASE o \in {"front", "overwrite"}
  <2>1. /\ buffer' = [buffer EXCEPT ![readFrom] = x] /\ readFrom' = (readFrom - 1) % Length
        /\ writeTo' = writeTo /\ out' = out
        /\ count' = IF o = "overwrite" /\ count > 0 THEN count ELSE count + 1
        /\ o = "front" => count < Length
    BY <1>2 DEF Sends, prvCopyDataToQueue, CopyToFront, Copy, Possible
  <2>2. readFrom' = IF readFrom = 0 THEN Length - 1 ELSE readFrom - 1
    BY <1>t, <2>1, Predecessor
  <2>3. readFrom' \in Slot /\ count' \in 0 .. Length /\ (o = "overwrite" => count' = Length)
    BY <1>2, <1>t, <2>1, <2>2 DEF Slot
  <2>4. Ring'
    BY <1>2, <1>t, <1>w, <1>r, <2>1, <2>2, <2>3 DEF Slot
  <2> QED
    BY <1>t, <1>2, <2>1, <2>3, <2>4
<1>3. CASE o = "receive"
  <2>1. /\ readFrom' = (readFrom + 1) % Length /\ out' = First /\ count' = count - 1
        /\ buffer' = buffer /\ writeTo' = writeTo /\ count > 0
    BY <1>3 DEF Sends, prvCopyDataFromQueue, Copy, Possible
  <2>2. readFrom' = IF readFrom + 1 = Length THEN 0 ELSE readFrom + 1
    BY <1>t, <2>1, Successor
  <2>3. readFrom' \in Slot /\ count' \in 0 .. Length
    BY <1>t, <2>1, <2>2 DEF Slot
  <2>4. Ring'
    BY <1>t, <1>w, <1>r, <2>1, <2>2, <2>3 DEF Slot
  <2> QED
    BY <1>t, <1>f, <1>3, <2>1, <2>3, <2>4
<1>4. CASE o = "peek"
  <2>1. out' = First /\ UNCHANGED <<buffer, readFrom, writeTo, count>> /\ count > 0
    BY <1>4 DEF Sends, PeekData, Copy, Possible
  <2> QED
    BY <1>t, <1>f, <1>4, <2>1 DEF Ring
<1> QED
  BY <1>1, <1>2, <1>3, <1>4 DEF Sends, Receives

\* The same for the operations of interrupts.
LEMMA SendCounts ==
    ASSUME TypeOK, Ring, NEW o \in IsrOps \cap Sends, NEW x \in Item, Possible(o),
           prvCopyDataToQueue(x, o)
    PROVE  /\ buffer' \in [Slot -> Item] /\ out' \in Item
           /\ readFrom' \in Slot /\ writeTo' \in Slot /\ count' \in 0 .. Length
           /\ Ring'
           /\ o \in {"back", "front"} => count < Length /\ count' = count + 1
           /\ o = "overwrite" => count' = Length /\ Length = 1
<1>1. o = "overwrite" => Length = 1
  BY QueueAssumption
<1>2. Copy(o, x)
  BY DEF Copy, Sends
<1> QED
  BY <1>1, <1>2, CopyCounts

LEMMA ReceiveCounts ==
    ASSUME TypeOK, Ring, Possible("receive"), prvCopyDataFromQueue
    PROVE  /\ buffer' \in [Slot -> Item] /\ out' \in Item
           /\ readFrom' \in Slot /\ writeTo' \in Slot /\ count' \in 0 .. Length
           /\ Ring'
           /\ count > 0 /\ count' = count - 1
<1>1. PICK x \in Item : TRUE
  BY QueueAssumption
<1>2. Copy("receive", x)
  BY DEF Copy, Sends
<1>3. "receive" \in Sends \cup Receives
  BY DEF Receives
<1> QED
  BY <1>1, <1>2, <1>3, CopyCounts

LEMMA PeekCounts ==
    ASSUME TypeOK, Ring, Possible("peek"), PeekData
    PROVE  out' \in Item /\ Ring' /\ UNCHANGED <<buffer, readFrom, writeTo, count>>
<1>1. PICK x \in Item : TRUE
  BY QueueAssumption
<1>2. Copy("peek", x)
  BY DEF Copy, Sends
<1>3. "peek" \in Sends \cup Receives
  BY DEF Receives
<1> QED
  BY <1>1, <1>2, <1>3, CopyCounts DEF PeekData
-----------------------------------------------------------------------------
(* Waking *)

LEMMA WakeTypes ==
    ASSUME TypeOK, NEW W \in SUBSET Task, Wake(W)
    PROVE  /\ on' \in [Task -> {"none", "send", "receive"}] /\ left' \in [Task -> Tick]
           /\ \A t \in Task : on'[t] = IF t \in W THEN "none" ELSE on[t]
  BY QueueAssumption DEF TypeOK, Wake, Tick

LEMMA WakeOneTypes ==
    ASSUME TypeOK, NEW l, WakeOne(l)
    PROVE  /\ on' \in [Task -> {"none", "send", "receive"}] /\ left' \in [Task -> Tick]
           /\ Waiters(l) /= {} =>
                \E u \in Waiters(l) : \A t \in Task : on'[t] = IF t = u THEN "none" ELSE on[t]
           /\ Waiters(l) = {} => on' = on
           /\ \A t \in Task : on'[t] = on[t] \/ on'[t] = "none"
<1>1. CASE Waiters(l) = {}
  BY <1>1 DEF WakeOne, waiting, TypeOK
<1>2. CASE Waiters(l) /= {}
  <2>1. PICK u \in Waiters(l) : Wake({u})
    BY <1>2 DEF WakeOne
  <2>2. {u} \in SUBSET Task
    BY DEF Waiters
  <2> QED
    BY <1>2, <2>1, <2>2, WakeTypes
<1> QED
  BY <1>1, <1>2

LEMMA WakeUpToTypes ==
    ASSUME TypeOK, NEW k, NEW l, WakeUpTo(k, l)
    PROVE  /\ on' \in [Task -> {"none", "send", "receive"}] /\ left' \in [Task -> Tick]
           /\ \A t \in Task : on'[t] = on[t] \/ on'[t] = "none"
<1>1. PICK W \in SUBSET Waiters(l) : Wake(W)
  BY DEF WakeUpTo
<1>2. W \in SUBSET Task
  BY DEF Waiters
<1> QED
  BY <1>1, <1>2, WakeTypes
-----------------------------------------------------------------------------
(* The types *)

\* Every step keeps the types.
LEMMA TypeStep ==
    ASSUME TypeOK, Calls, Timing, Ring, [Next]_vars
    PROVE  TypeOK'
<1>1. ASSUME NEW t \in Task, Call(t) PROVE TypeOK'
  <2>1. PICK o \in TaskOps, w \in Waits, x \in Item :
            /\ op' = [op EXCEPT ![t] = o]
            /\ wait' = [wait EXCEPT ![t] = w] /\ owed' = [owed EXCEPT ![t] = w]
            /\ item' = IF o \in Sends THEN [item EXCEPT ![t] = x] ELSE item
    BY <1>1 DEF Call
  <2>2. o \in Sends \cup Receives /\ w \in Tick
    BY QueueAssumption
  <2> QED
    BY <1>1, <2>1, <2>2 DEF Call, TypeOK, Goto, At, ring, locks, call, waiting
<1>2. ASSUME NEW t \in Task, xQueueReset(t) PROVE TypeOK'
  <2>1. on' \in [Task -> {"none", "send", "receive"}] /\ left' \in [Task -> Tick]
    BY <1>2, WakeOneTypes DEF xQueueReset
  <2> QED
    BY <1>2, <2>1, QueueAssumption DEF xQueueReset, TypeOK, call, Slot, UNLOCKED
<1>3. ASSUME NEW t \in Task, Done(t) PROVE TypeOK'
  <2>1. op[t] \in Sends \cup Receives /\ (op[t] = "overwrite" => Length = 1) /\ item[t] \in Item
    BY <1>3, QueueAssumption DEF Done, At, Calls, TypeOK
  <2>2. /\ buffer' \in [Slot -> Item] /\ out' \in Item
        /\ readFrom' \in Slot /\ writeTo' \in Slot /\ count' \in 0 .. Length
    BY <1>3, <2>1, CopyCounts DEF Done
  <2>3. on' \in [Task -> {"none", "send", "receive"}] /\ left' \in [Task -> Tick]
    BY <1>3, WakeOneTypes DEF Done
  <2>4. Finish(t) /\ UNCHANGED <<locks, holder, tick>>
    BY <1>3 DEF Done
  <2> QED
    BY <2>2, <2>3, <2>4, QueueAssumption DEF Finish, Goto, TypeOK, locks, Tick
<1>4. ASSUME NEW t \in Task, Refused(t) PROVE TypeOK'
  BY <1>4, QueueAssumption DEF Refused, Finish, TypeOK, Goto, At, ring, locks, call, waiting, Tick
<1>5. ASSUME NEW t \in Task, SetTimeOutState(t) PROVE TypeOK'
  BY <1>5 DEF SetTimeOutState, TypeOK, Goto, At, ring, locks, call, waiting
<1>6. ASSUME NEW t \in Task, prvLockQueue(t) PROVE TypeOK'
  BY <1>6, QueueAssumption DEF prvLockQueue, TypeOK, Goto, At, ring, locks, call, waiting, UNLOCKED
<1>7. ASSUME NEW t \in Task, xTaskCheckForTimeOut(t) PROVE TypeOK'
  <2>1. CASE wait' = wait
    <3>1. /\ UNCHANGED <<ring, locks, holder, tick, op, item, owed, waiting>>
          /\ \E l \in {"test", "expireTx"} : pc' = [pc EXCEPT ![t] = l]
          /\ UNCHANGED entry \/ entry' = [entry EXCEPT ![t] = tick]
          /\ UNCHANGED wrapped \/ wrapped' = [wrapped EXCEPT ![t] = FALSE]
      BY <1>7 DEF xTaskCheckForTimeOut, Goto
    <3>2. entry' \in [Task -> Tick \cup {-1}] /\ wrapped' \in [Task -> BOOLEAN]
      <4>1. tick \in Tick \cup {-1} /\ entry \in [Task -> Tick \cup {-1}]
        BY DEF TypeOK
      <4>2. entry' \in [Task -> Tick \cup {-1}]
        BY <3>1, <4>1
      <4>3. FALSE \in BOOLEAN /\ wrapped \in [Task -> BOOLEAN]
        BY DEF TypeOK
      <4>4. wrapped' \in [Task -> BOOLEAN]
        BY <3>1, <4>3
      <4> QED
        BY <4>2, <4>4
    <3>3. pc' \in [Task -> {"app", "try", "lock", "check", "test", "place",
                            "unlockTx", "unlockRx", "expireTx", "expireRx"}]
      BY <3>1 DEF TypeOK
    <3> QED
      BY <2>1, <3>1, <3>2, <3>3 DEF TypeOK, ring, locks, waiting
  <2>2. CASE wait' /= wait
    <3>1. /\ wait[t] /= MaxTick /\ ~(Elapsed(t) >= wait[t])
          /\ wait' = [wait EXCEPT ![t] = wait[t] - Elapsed(t)]
      BY <1>7, <2>2 DEF xTaskCheckForTimeOut
    <3>2. entry[t] \in Tick /\ tick \in Tick /\ wait[t] \in Tick
      BY <1>7, <3>1 DEF xTaskCheckForTimeOut, At, Timing, TypeOK
    <3>3. Elapsed(t) \in Tick
      BY <3>2, QueueAssumption DEF Elapsed, Tick
    <3>4. wait[t] - Elapsed(t) \in Tick
      BY <3>1, <3>2, <3>3, QueueAssumption DEF Tick
    <3> QED
      BY <1>7, <3>1, <3>4 DEF xTaskCheckForTimeOut, TypeOK, Goto, At, ring, locks, call, waiting
  <2> QED
    BY <2>1, <2>2
<1>8. ASSUME NEW t \in Task, TestAgain(t) PROVE TypeOK'
  BY <1>8 DEF TestAgain, TypeOK, Goto, At, ring, locks, call, waiting
<1>9. ASSUME NEW t \in Task, vTaskPlaceOnEventList(t) PROVE TypeOK'
  BY <1>9, QueueAssumption DEF vTaskPlaceOnEventList, TypeOK, Goto, At, ring, locks, call, waiting, Tick
<1>10. ASSUME NEW t \in Task, UnlockTx(t) PROVE TypeOK'
  <2>1. on' \in [Task -> {"none", "send", "receive"}] /\ left' \in [Task -> Tick]
    BY <1>10, WakeUpToTypes DEF UnlockTx
  <2>2. /\ txLock' = UNLOCKED
        /\ Goto(t, "unlockRx") \/ Goto(t, "expireRx")
        /\ UNCHANGED <<ring, rxLock, holder, tick, call>>
    BY <1>10 DEF UnlockTx
  <2> QED
    BY <2>1, <2>2 DEF TypeOK, Goto, At, ring, locks, call, waiting, UNLOCKED
<1>11. ASSUME NEW t \in Task, UnlockRx(t) PROVE TypeOK'
  <2>1. on' \in [Task -> {"none", "send", "receive"}] /\ left' \in [Task -> Tick]
    BY <1>11, WakeUpToTypes DEF UnlockRx
  <2>2. /\ rxLock' = UNLOCKED /\ holder' = None
        /\ (Goto(t, "try") /\ UNCHANGED call) \/ Finish(t)
        /\ UNCHANGED <<ring, txLock, tick>>
    BY <1>11 DEF UnlockRx
  <2>3. 0 \in Tick
    BY QueueAssumption DEF Tick
  <2>4. CASE Goto(t, "try") /\ UNCHANGED call
    BY <2>1, <2>2, <2>4 DEF TypeOK, Goto, At, ring, locks, call, waiting, UNLOCKED
  <2>5. CASE Finish(t)
    BY <2>1, <2>2, <2>3, <2>5 DEF Finish, TypeOK, Goto, ring, UNLOCKED
  <2> QED
    BY <2>2, <2>4, <2>5
<1>12. CASE SendFromISR
  <2>1. PICK o \in IsrOps \cap Sends, x \in Item : 
            /\ Possible(o) /\ prvCopyDataToQueue(x, o)
            /\ IF txLock = UNLOCKED THEN WakeOne("receive") /\ UNCHANGED locks
               ELSE txLock' = txLock + 1 /\ UNCHANGED <<rxLock, waiting>>
            /\ UNCHANGED <<holder, tick, pc, call>>
    BY <1>12 DEF SendFromISR
  <2>2. /\ buffer' \in [Slot -> Item] /\ out' \in Item
        /\ readFrom' \in Slot /\ writeTo' \in Slot /\ count' \in 0 .. Length
    BY <2>1, SendCounts
  <2>3. on' \in [Task -> {"none", "send", "receive"}] /\ left' \in [Task -> Tick]
    BY <2>1, WakeOneTypes DEF SendFromISR, waiting, TypeOK
  <2> QED
    BY <2>1, <2>2, <2>3 DEF SendFromISR, TypeOK, locks, call, UNLOCKED
<1>13. CASE ReceiveFromISR
  <2>2. /\ buffer' \in [Slot -> Item] /\ out' \in Item
        /\ readFrom' \in Slot /\ writeTo' \in Slot /\ count' \in 0 .. Length
    BY <1>13, ReceiveCounts DEF ReceiveFromISR
  <2>3. on' \in [Task -> {"none", "send", "receive"}] /\ left' \in [Task -> Tick]
    BY <1>13, WakeOneTypes DEF ReceiveFromISR, waiting, TypeOK
  <2> QED
    BY <1>13, <2>2, <2>3 DEF ReceiveFromISR, TypeOK, locks, call, UNLOCKED
<1>14. CASE PeekFromISR
  <2>2. /\ buffer' \in [Slot -> Item] /\ out' \in Item
        /\ readFrom' \in Slot /\ writeTo' \in Slot /\ count' \in 0 .. Length
    BY <1>14, PeekCounts DEF PeekFromISR, TypeOK
  <2> QED
    BY <1>14, <2>2 DEF PeekFromISR, TypeOK, locks, call, waiting
<1>15. CASE IncrementTick
  BY <1>15, QueueAssumption DEF IncrementTick, TypeOK, Goto, At, ring, locks, call, waiting, Tick
<1>16. CASE UNCHANGED vars
  BY <1>16 DEF vars, TypeOK, Goto, At, ring, locks, call, waiting
<1> QED
  BY <1>1, <1>2, <1>3, <1>4, <1>5, <1>6, <1>7, <1>8, <1>9, <1>10, <1>11, <1>12, <1>13, <1>14, <1>15, <1>16 DEF Next, Step
-----------------------------------------------------------------------------
(* Locking *)

\* Every step keeps the queue locked exactly while its holder is on the way.
LEMMA LockStep ==
    ASSUME LockedByHolder, Calls, Timing, Ring, [Next]_vars
    PROVE  LockedByHolder'
<1>t. TypeOK /\ TypeOK'
  BY TypeStep DEF LockedByHolder
<1>k. /\ txLock /= UNLOCKED <=> \E t \in Task : pc[t] \in {"check", "test", "place", "unlockTx", "expireTx"}
      /\ rxLock /= UNLOCKED <=> holder /= None
      /\ \A t \in Task : t = holder <=> pc[t] \notin {"app", "try", "lock"}
  BY DEF LockedByHolder
<1>1. ASSUME NEW t \in Task, Call(t) PROVE LockedByHolder'
  BY <1>1, <1>t, <1>k DEF Call, LockedByHolder, TypeOK, At, Goto, locks, UNLOCKED
<1>2. ASSUME NEW t \in Task, xQueueReset(t) PROVE LockedByHolder'
  <2>1. holder = None
    BY <1>2, <1>k DEF xQueueReset, At
  <2> QED
    BY <1>2, <1>t, <1>k, <2>1, QueueAssumption DEF xQueueReset, LockedByHolder
<1>3. ASSUME NEW t \in Task, Done(t) PROVE LockedByHolder'
  <2>1. At(t, "try") /\ Goto(t, "app") /\ UNCHANGED <<locks, holder>>
    BY <1>3 DEF Done, Finish
  <2> QED
    BY <1>t, <1>k, <2>1 DEF LockedByHolder, TypeOK, At, Goto, locks, UNLOCKED
<1>4. ASSUME NEW t \in Task, Refused(t) PROVE LockedByHolder'
  <2>1. At(t, "try") /\ Goto(t, "app") /\ UNCHANGED <<locks, holder>>
    BY <1>4 DEF Refused, Finish
  <2> QED
    BY <1>t, <1>k, <2>1 DEF LockedByHolder, TypeOK, At, Goto, locks, UNLOCKED
<1>5. ASSUME NEW t \in Task, SetTimeOutState(t) PROVE LockedByHolder'
  BY <1>5, <1>t, <1>k DEF SetTimeOutState, LockedByHolder, TypeOK, At, Goto, locks, UNLOCKED
<1>6. ASSUME NEW t \in Task, prvLockQueue(t) PROVE LockedByHolder'
  BY <1>6, <1>t, <1>k, QueueAssumption DEF prvLockQueue, LockedByHolder, TypeOK, At, Goto, locks, UNLOCKED
<1>7. ASSUME NEW t \in Task, xTaskCheckForTimeOut(t) PROVE LockedByHolder'
  <2>1. /\ At(t, "check")
        /\ Goto(t, "test") \/ Goto(t, "expireTx")
        /\ UNCHANGED <<locks, holder>>
    BY <1>7 DEF xTaskCheckForTimeOut
  <2> QED
    BY <1>t, <1>k, <2>1 DEF LockedByHolder, TypeOK, At, Goto, locks, UNLOCKED
<1>8. ASSUME NEW t \in Task, TestAgain(t) PROVE LockedByHolder'
  <2>1. /\ At(t, "test")
        /\ Goto(t, "place") \/ Goto(t, "unlockTx")
        /\ UNCHANGED <<locks, holder>>
    BY <1>8 DEF TestAgain
  <2> QED
    BY <1>t, <1>k, <2>1 DEF LockedByHolder, TypeOK, At, Goto, locks, UNLOCKED
<1>9. ASSUME NEW t \in Task, vTaskPlaceOnEventList(t) PROVE LockedByHolder'
  BY <1>9, <1>t, <1>k DEF vTaskPlaceOnEventList, LockedByHolder, TypeOK, At, Goto, locks, UNLOCKED
<1>10. ASSUME NEW t \in Task, UnlockTx(t) PROVE LockedByHolder'
  <2>1. /\ At(t, "unlockTx") \/ At(t, "expireTx")
        /\ Goto(t, "unlockRx") \/ Goto(t, "expireRx")
        /\ txLock' = UNLOCKED /\ UNCHANGED <<rxLock, holder>>
    BY <1>10 DEF UnlockTx
  <2>2. holder = t
    BY <1>k, <2>1 DEF At
  <2> QED
    BY <1>t, <1>k, <2>1, <2>2 DEF LockedByHolder, TypeOK, At, Goto, locks, UNLOCKED
<1>11. ASSUME NEW t \in Task, UnlockRx(t) PROVE LockedByHolder'
  <2>1. /\ At(t, "unlockRx") \/ At(t, "expireRx")
        /\ Goto(t, "try") \/ Goto(t, "app")
        /\ rxLock' = UNLOCKED /\ holder' = None /\ UNCHANGED txLock
    BY <1>11 DEF UnlockRx, Finish
  <2>2. holder = t
    BY <1>k, <2>1 DEF At
  <2> QED
    BY <1>t, <1>k, <2>1, <2>2, QueueAssumption DEF LockedByHolder, TypeOK, At, Goto, locks, UNLOCKED
<1>12. CASE SendFromISR
  <2>1. /\ (UNCHANGED locks \/ (txLock /= UNLOCKED /\ txLock' = txLock + 1 /\ rxLock' = rxLock))
        /\ UNCHANGED <<holder, pc>>
    BY <1>12 DEF SendFromISR
  <2> QED
    BY <1>t, <1>k, <2>1 DEF LockedByHolder, TypeOK, At, Goto, locks, UNLOCKED
<1>13. CASE ReceiveFromISR
  <2>1. /\ (UNCHANGED locks \/ (rxLock /= UNLOCKED /\ rxLock' = rxLock + 1 /\ txLock' = txLock))
        /\ UNCHANGED <<holder, pc>>
    BY <1>13 DEF ReceiveFromISR
  <2> QED
    BY <1>t, <1>k, <2>1 DEF LockedByHolder, TypeOK, At, Goto, locks, UNLOCKED
<1>14. CASE PeekFromISR
  BY <1>14, <1>t, <1>k DEF PeekFromISR, LockedByHolder, TypeOK, At, Goto, locks, UNLOCKED
<1>15. CASE IncrementTick
  BY <1>15, <1>t, <1>k DEF IncrementTick, LockedByHolder, TypeOK, At, Goto, locks, UNLOCKED
<1>16. CASE UNCHANGED vars
  BY <1>16, <1>t, <1>k DEF vars, LockedByHolder, TypeOK, At, Goto, locks, UNLOCKED
<1> QED
  BY <1>1, <1>2, <1>3, <1>4, <1>5, <1>6, <1>7, <1>8, <1>9, <1>10, <1>11, <1>12, <1>13, <1>14, <1>15, <1>16 DEF Next, Step
-----------------------------------------------------------------------------
(* Calls and what they know of the queue *)

\* Every step keeps places and operations together.
LEMMA CallsStep ==
    ASSUME LockedByHolder, Calls, Timing, Ring, [Next]_vars
    PROVE  Calls'
<1>t. TypeOK /\ TypeOK'
  BY TypeStep DEF LockedByHolder
<1>1. ASSUME NEW t \in Task, Call(t) PROVE Calls'
  BY <1>1, <1>t DEF Call, Calls, TypeOK, At, Goto, call, waiting
<1>2. ASSUME NEW t \in Task, xQueueReset(t) PROVE Calls'
  <2>1. \A u \in Task : on'[u] = on[u] \/ on'[u] = "none"
    BY <1>2, <1>t, WakeOneTypes DEF xQueueReset
  <2> QED
    BY <1>2, <2>1 DEF xQueueReset, Calls, call
<1>3. ASSUME NEW t \in Task, Done(t) PROVE Calls'
  <2>1. \A u \in Task : on'[u] = on[u] \/ on'[u] = "none"
    BY <1>3, <1>t, WakeOneTypes DEF Done
  <2>2. on[t] = "none" /\ Finish(t)
    BY <1>3 DEF Done
  <2> QED
    BY <1>t, <2>1, <2>2 DEF Finish, Goto, Calls, TypeOK
<1>4. ASSUME NEW t \in Task, Refused(t) PROVE Calls'
  BY <1>4, <1>t DEF Refused, Finish, Calls, TypeOK, At, Goto, call, waiting
<1>5. ASSUME NEW t \in Task, SetTimeOutState(t) PROVE Calls'
  BY <1>5, <1>t DEF SetTimeOutState, Finish, Calls, TypeOK, At, Goto, call, waiting
<1>6. ASSUME NEW t \in Task, prvLockQueue(t) PROVE Calls'
  BY <1>6, <1>t DEF prvLockQueue, Finish, Calls, TypeOK, At, Goto, call, waiting
<1>7. ASSUME NEW t \in Task, xTaskCheckForTimeOut(t) PROVE Calls'
  <2>1. /\ At(t, "check")
        /\ Goto(t, "test") \/ Goto(t, "expireTx")
        /\ UNCHANGED <<on, op>>
    BY <1>7 DEF xTaskCheckForTimeOut, waiting
  <2> QED
    BY <1>t, <2>1 DEF Calls, TypeOK, At, Goto
<1>8. ASSUME NEW t \in Task, TestAgain(t) PROVE Calls'
  <2>1. /\ At(t, "test")
        /\ Goto(t, "place") \/ Goto(t, "unlockTx")
        /\ UNCHANGED <<on, op>>
    BY <1>8 DEF TestAgain, waiting, call
  <2> QED
    BY <1>t, <2>1 DEF Calls, TypeOK, At, Goto
<1>9. ASSUME NEW t \in Task, vTaskPlaceOnEventList(t) PROVE Calls'
  BY <1>9, <1>t DEF vTaskPlaceOnEventList, Calls, TypeOK, At, Goto, call, waiting
<1>10. ASSUME NEW t \in Task, UnlockTx(t) PROVE Calls'
  <2>1. \A u \in Task : on'[u] = on[u] \/ on'[u] = "none"
    BY <1>10, <1>t, WakeUpToTypes DEF UnlockTx
  <2>2. /\ \/ At(t, "unlockTx") /\ Goto(t, "unlockRx")
           \/ At(t, "expireTx") /\ Goto(t, "expireRx")
        /\ UNCHANGED op
    BY <1>10 DEF UnlockTx, At, call
  <2> QED
    BY <1>t, <2>1, <2>2 DEF Calls, TypeOK, At, Goto
<1>11. ASSUME NEW t \in Task, UnlockRx(t) PROVE Calls'
  <2>1. \A u \in Task : on'[u] = on[u] \/ on'[u] = "none"
    BY <1>11, <1>t, WakeUpToTypes DEF UnlockRx
  <2>2. \/ At(t, "unlockRx") /\ Goto(t, "try") /\ UNCHANGED op
        \/ At(t, "expireRx") /\ Finish(t)
    BY <1>11 DEF UnlockRx, At, call
  <2> QED
    BY <1>t, <2>1, <2>2 DEF Calls, TypeOK, At, Goto, Finish
<1>12. CASE SendFromISR
  <2>1. \A u \in Task : on'[u] = on[u] \/ on'[u] = "none"
    BY <1>12, <1>t, WakeOneTypes DEF SendFromISR, waiting
  <2> QED
    BY <1>12, <2>1 DEF SendFromISR, Calls, call
<1>13. CASE ReceiveFromISR
  <2>1. \A u \in Task : on'[u] = on[u] \/ on'[u] = "none"
    BY <1>13, <1>t, WakeOneTypes DEF ReceiveFromISR, waiting
  <2> QED
    BY <1>13, <2>1 DEF ReceiveFromISR, Calls, call
<1>14. CASE PeekFromISR
  BY <1>14 DEF PeekFromISR, Calls, call, waiting
<1>15. CASE IncrementTick
  BY <1>15, <1>t DEF IncrementTick, Calls, TypeOK
<1>16. CASE UNCHANGED vars
  BY <1>16 DEF vars, Calls, call, waiting
<1> QED
  BY <1>1, <1>2, <1>3, <1>4, <1>5, <1>6, <1>7, <1>8, <1>9, <1>10, <1>11, <1>12, <1>13, <1>14, <1>15, <1>16 DEF Next, Step

\* Every step keeps what a task about to list itself knows.
LEMMA SeenStep ==
    ASSUME LockedByHolder, Calls, Timing, Ring, Seen, [Next]_vars
    PROVE  Seen'
<1>t. TypeOK /\ TypeOK'
  BY TypeStep DEF LockedByHolder
<1>k. /\ txLock /= UNLOCKED <=> \E t \in Task : pc[t] \in {"check", "test", "place", "unlockTx", "expireTx"}
      /\ rxLock /= UNLOCKED <=> holder /= None
      /\ \A t \in Task : t = holder <=> pc[t] \notin {"app", "try", "lock"}
  BY DEF LockedByHolder
<1>1. ASSUME NEW t \in Task, Call(t) PROVE Seen'
  <2>1. At(t, pc[t]) /\ \A u \in Task \ {t} : pc'[u] = pc[u]
    BY <1>1, <1>t DEF Call, At, Goto, TypeOK
  <2>2. pc'[t] /= "place"
    BY <1>1, <1>t DEF Call, Goto, TypeOK
  <2> QED
    BY <1>k, <2>1, <2>2, QueueAssumption DEF Seen, At
<1>2. ASSUME NEW t \in Task, xQueueReset(t) PROVE Seen'
  <2>1. \A u \in Task : pc'[u] /= "place"
    BY <1>2, <1>k, QueueAssumption DEF xQueueReset, At
  <2> QED
    BY <2>1 DEF Seen
<1>3. ASSUME NEW t \in Task, Done(t) PROVE Seen'
  <2>1. At(t, pc[t]) /\ \A u \in Task \ {t} : pc'[u] = pc[u]
    BY <1>3, <1>t DEF Done, Finish, At, Goto, TypeOK
  <2>2. pc'[t] /= "place"
    BY <1>3, <1>t DEF Done, Finish, Goto, TypeOK
  <2> QED
    BY <1>k, <2>1, <2>2, QueueAssumption DEF Seen, At
<1>4. ASSUME NEW t \in Task, Refused(t) PROVE Seen'
  <2>1. At(t, pc[t]) /\ \A u \in Task \ {t} : pc'[u] = pc[u]
    BY <1>4, <1>t DEF Refused, Finish, At, Goto, TypeOK
  <2>2. pc'[t] /= "place"
    BY <1>4, <1>t DEF Refused, Finish, Goto, TypeOK
  <2> QED
    BY <1>k, <2>1, <2>2, QueueAssumption DEF Seen, At
<1>5. ASSUME NEW t \in Task, SetTimeOutState(t) PROVE Seen'
  <2>1. At(t, pc[t]) /\ \A u \in Task \ {t} : pc'[u] = pc[u]
    BY <1>5, <1>t DEF SetTimeOutState, At, Goto, TypeOK
  <2>2. pc'[t] /= "place"
    BY <1>5, <1>t DEF SetTimeOutState, Goto, TypeOK
  <2> QED
    BY <1>k, <2>1, <2>2, QueueAssumption DEF Seen, At
<1>6. ASSUME NEW t \in Task, prvLockQueue(t) PROVE Seen'
  <2>1. At(t, pc[t]) /\ \A u \in Task \ {t} : pc'[u] = pc[u]
    BY <1>6, <1>t DEF prvLockQueue, At, Goto, TypeOK
  <2>2. pc'[t] /= "place"
    BY <1>6, <1>t DEF prvLockQueue, Goto, TypeOK
  <2> QED
    BY <1>k, <2>1, <2>2, QueueAssumption DEF Seen, At
<1>7. ASSUME NEW t \in Task, xTaskCheckForTimeOut(t) PROVE Seen'
  <2>1. At(t, pc[t]) /\ \A u \in Task \ {t} : pc'[u] = pc[u]
    BY <1>7, <1>t DEF xTaskCheckForTimeOut, At, Goto, TypeOK
  <2>2. pc'[t] /= "place"
    BY <1>7, <1>t DEF xTaskCheckForTimeOut, Goto, TypeOK
  <2> QED
    BY <1>k, <2>1, <2>2, QueueAssumption DEF Seen, At
<1>8. ASSUME NEW t \in Task, TestAgain(t) PROVE Seen'
  <2>1. /\ At(t, "test") /\ \A u \in Task \ {t} : pc'[u] = pc[u]
        /\ pc'[t] = "place" => IF op[t] \in Sends THEN count = Length ELSE count = 0
        /\ UNCHANGED <<count, rxLock, txLock, op>>
    BY <1>8, <1>t DEF TestAgain, At, Goto, TypeOK, ring, locks, call
  <2>2. rxLock >= 0 /\ txLock >= 0
    BY <1>t, <1>k, <2>1, QueueAssumption DEF At, TypeOK, UNLOCKED
  <2>3. ASSUME NEW u \in Task, pc'[u] = "place" PROVE u = t
    BY <2>1, <2>3, <1>k, QueueAssumption DEF At
  <2> QED
    BY <1>t, <2>1, <2>2, <2>3, QueueAssumption DEF Seen, TypeOK
<1>9. ASSUME NEW t \in Task, vTaskPlaceOnEventList(t) PROVE Seen'
  <2>1. At(t, pc[t]) /\ \A u \in Task \ {t} : pc'[u] = pc[u]
    BY <1>9, <1>t DEF vTaskPlaceOnEventList, At, Goto, TypeOK
  <2>2. pc'[t] /= "place"
    BY <1>9, <1>t DEF vTaskPlaceOnEventList, Goto, TypeOK
  <2> QED
    BY <1>k, <2>1, <2>2, QueueAssumption DEF Seen, At
<1>10. ASSUME NEW t \in Task, UnlockTx(t) PROVE Seen'
  <2>1. At(t, pc[t]) /\ \A u \in Task \ {t} : pc'[u] = pc[u]
    BY <1>10, <1>t DEF UnlockTx, At, Goto, TypeOK
  <2>2. pc'[t] /= "place"
    BY <1>10, <1>t DEF UnlockTx, Goto, TypeOK
  <2> QED
    BY <1>k, <2>1, <2>2, QueueAssumption DEF Seen, At
<1>11. ASSUME NEW t \in Task, UnlockRx(t) PROVE Seen'
  <2>1. At(t, pc[t]) /\ \A u \in Task \ {t} : pc'[u] = pc[u]
    BY <1>11, <1>t DEF UnlockRx, Finish, At, Goto, TypeOK
  <2>2. pc'[t] /= "place"
    BY <1>11, <1>t DEF UnlockRx, Finish, Goto, TypeOK
  <2> QED
    BY <1>k, <2>1, <2>2, QueueAssumption DEF Seen, At
<1>12. CASE SendFromISR
  <2>1. PICK o \in IsrOps \cap Sends, x \in Item :
            /\ Possible(o) /\ prvCopyDataToQueue(x, o)
            /\ txLock /= UNLOCKED => txLock' = txLock + 1 /\ rxLock' = rxLock
            /\ UNCHANGED <<pc, op>>
    BY <1>12 DEF SendFromISR, call
  <2>2. count' \in 0 .. Length /\ (count' = count + 1 \/ (count' = Length /\ Length = 1))
    BY <1>t, <2>1, SendCounts DEF Sends
  <2>3. count \in 0 .. Length /\ Length \in Nat /\ rxLock \in Int /\ txLock \in Int
    BY <1>t, QueueAssumption DEF TypeOK
  <2> QED
    BY <1>k, <2>1, <2>2, <2>3 DEF Seen
<1>13. CASE ReceiveFromISR
  <2>1. /\ count' = count - 1
        /\ rxLock /= UNLOCKED => rxLock' = rxLock + 1 /\ txLock' = txLock
        /\ UNCHANGED <<pc, op>>
    BY <1>13 DEF ReceiveFromISR, prvCopyDataFromQueue, call
  <2>2. count \in 0 .. Length /\ Length \in Nat /\ rxLock \in Int /\ txLock \in Int
    BY <1>t, QueueAssumption DEF TypeOK
  <2>3. \A u \in Task : pc[u] = "place" => rxLock /= UNLOCKED
    BY <1>k, QueueAssumption
  <2> QED
    BY <2>1, <2>2, <2>3 DEF Seen
<1>14. CASE PeekFromISR
  BY <1>14 DEF PeekFromISR, PeekData, Seen, call, locks
<1>15. CASE IncrementTick
  BY <1>15 DEF IncrementTick, Seen, ring, locks
<1>16. CASE UNCHANGED vars
  BY <1>16 DEF vars, Seen, ring, locks, call
<1> QED
  BY <1>1, <1>2, <1>3, <1>4, <1>5, <1>6, <1>7, <1>8, <1>9, <1>10, <1>11, <1>12, <1>13, <1>14, <1>15, <1>16 DEF Next, Step
-----------------------------------------------------------------------------
(* Timeouts *)

\* The tick count wraps, and so do the differences of its values.
LEMMA NextTick ==
    ASSUME NEW i \in Tick
    PROVE  (i + 1) % (MaxTick + 1) = IF i = MaxTick THEN 0 ELSE i + 1
  BY QueueAssumption, SMT DEF Tick

LEMMA NoWrap ==
    ASSUME NEW i \in Tick
    PROVE  i % (MaxTick + 1) = i /\ (i - (MaxTick + 1)) % (MaxTick + 1) = i
<1>1. i % (MaxTick + 1) = i
  BY QueueAssumption, SMT DEF Tick
<1>2. (i - (MaxTick + 1)) % (MaxTick + 1) = i
  BY QueueAssumption, SMT DEF Tick
<1> QED
  BY <1>1, <1>2

LEMMA ElapsedIs ==
    ASSUME TypeOK, NEW t \in Task, entry[t] \in Tick
    PROVE  Elapsed(t) = IF tick < entry[t] THEN tick + MaxTick + 1 - entry[t] ELSE tick - entry[t]
<1>1. tick \in Tick
  BY DEF TypeOK
<1>2. CASE tick >= entry[t]
  <2>1. tick - entry[t] \in Tick /\ ~(tick < entry[t])
    BY <1>1, <1>2, QueueAssumption DEF Tick
  <2> QED
    BY <2>1, NoWrap DEF Elapsed
<1>3. CASE tick < entry[t]
  <2> DEFINE k == tick + MaxTick + 1 - entry[t]
  <2>1. k \in Tick /\ tick - entry[t] = k - (MaxTick + 1)
    BY <1>1, <1>3, QueueAssumption DEF Tick
  <2>2. (k - (MaxTick + 1)) % (MaxTick + 1) = k
    <3> HIDE DEF k
    <3> QED
      BY <2>1, NoWrap
  <2> QED
    BY <1>3, <2>1, <2>2 DEF Elapsed
<1> QED
  BY <1>1, <1>2, <1>3, QueueAssumption DEF Tick

\* Every step keeps the times of the calls.
LEMMA TimingStep ==
    ASSUME LockedByHolder, Calls, Timing, Ring, [Next]_vars
    PROVE  Timing'
<1>t. TypeOK /\ TypeOK'
  BY TypeStep DEF LockedByHolder
<1>1. ASSUME NEW t \in Task, Call(t) PROVE Timing'
  <2>1. PICK o \in TaskOps, w \in Waits :
            /\ wait' = [wait EXCEPT ![t] = w] /\ owed' = [owed EXCEPT ![t] = w]
            /\ pc[t] = "app" /\ pc' = [pc EXCEPT ![t] = "try"]
            /\ UNCHANGED <<tick, entry, wrapped>>
    BY <1>1 DEF Call, At, Goto
  <2>2. w \in Tick
    BY QueueAssumption
  <2> QED
    BY <1>t, <2>1, <2>2, QueueAssumption DEF Timing, TypeOK, Tick
<1>2. ASSUME NEW t \in Task, xQueueReset(t) PROVE Timing'
  BY <1>2 DEF xQueueReset, Timing, call
<1>3. ASSUME NEW t \in Task, Done(t) PROVE Timing'
  <2>1. Finish(t) /\ UNCHANGED tick
    BY <1>3 DEF Done
  <2> QED
    BY <1>t, <2>1, QueueAssumption DEF Timing, Finish, Goto, TypeOK, Tick
<1>4. ASSUME NEW t \in Task, Refused(t) PROVE Timing'
  <2>1. Finish(t) /\ UNCHANGED tick
    BY <1>4 DEF Refused
  <2> QED
    BY <1>t, <2>1, QueueAssumption DEF Timing, Finish, Goto, TypeOK, Tick
<1>5. ASSUME NEW t \in Task, SetTimeOutState(t) PROVE Timing'
  <2>1. /\ pc[t] = "try" /\ pc' = [pc EXCEPT ![t] = "lock"]
        /\ entry' = IF entry[t] = -1 /\ wait[t] /= MaxTick THEN [entry EXCEPT ![t] = tick] ELSE entry
        /\ UNCHANGED <<tick, wait, owed, wrapped>>
    BY <1>5 DEF SetTimeOutState, At, Goto
  <2> QED
    BY <1>t, <2>1, QueueAssumption DEF Timing, TypeOK, Tick
<1>6. ASSUME NEW t \in Task, prvLockQueue(t) PROVE Timing'
  <2>1. /\ pc[t] = "lock"
        /\ pc' = [pc EXCEPT ![t] = "check"]
        /\ UNCHANGED <<tick, wait, owed, entry, wrapped>>
    BY <1>6 DEF prvLockQueue, At, Goto, call
  <2> QED
    BY <1>t, <2>1 DEF Timing, TypeOK
<1>7. ASSUME NEW t \in Task, xTaskCheckForTimeOut(t) PROVE Timing'
  <2>1. pc[t] = "check" /\ UNCHANGED <<tick, owed>>
    BY <1>7 DEF xTaskCheckForTimeOut, At
  <2>2. CASE Goto(t, "test") /\ UNCHANGED <<wait, entry, wrapped>>
    BY <1>t, <2>1, <2>2 DEF Timing, TypeOK, Goto
  <2>3. CASE Goto(t, "expireTx") /\ UNCHANGED <<wait, entry, wrapped>>
    BY <1>t, <2>1, <2>3 DEF Timing, TypeOK, Goto
  <2>4. CASE /\ wait[t] /= MaxTick /\ ~(wrapped[t] /\ tick >= entry[t])
             /\ wait' = [wait EXCEPT ![t] = wait[t] - Elapsed(t)]
             /\ entry' = [entry EXCEPT ![t] = tick]
             /\ wrapped' = [wrapped EXCEPT ![t] = FALSE]
             /\ Goto(t, "test")
    <3>1. entry[t] \in Tick
      BY <1>t, <2>1, <2>4 DEF Timing, TypeOK
    <3>2. Elapsed(t) = IF wrapped[t] THEN tick + MaxTick + 1 - entry[t] ELSE tick - entry[t]
      BY <1>t, <2>4, <3>1, ElapsedIs, QueueAssumption DEF Timing, TypeOK, Tick
    <3>3. owed[t] = 0 \/ owed[t] <= wait[t] - Elapsed(t)
      BY <1>t, <2>1, <2>4, <3>1, <3>2, QueueAssumption DEF Timing, Tick
    <3>4. wait'[t] \in Tick /\ tick \in Tick /\ owed[t] \in Tick /\ tick /= -1
      BY <1>t, QueueAssumption DEF TypeOK, Tick
    <3> QED
      BY <1>t, <2>1, <2>4, <3>3, <3>4, QueueAssumption DEF Timing, TypeOK, Goto, Tick
  <2> QED
    BY <1>7, <2>2, <2>3, <2>4 DEF xTaskCheckForTimeOut
<1>8. ASSUME NEW t \in Task, TestAgain(t) PROVE Timing'
  <2>1. /\ pc[t] = "test"
        /\ pc' = [pc EXCEPT ![t] = "place"] \/ pc' = [pc EXCEPT ![t] = "unlockTx"]
        /\ UNCHANGED <<tick, wait, owed, entry, wrapped>>
    BY <1>8 DEF TestAgain, At, Goto, call
  <2> QED
    BY <1>t, <2>1 DEF Timing, TypeOK
<1>9. ASSUME NEW t \in Task, vTaskPlaceOnEventList(t) PROVE Timing'
  <2>1. /\ pc[t] = "place"
        /\ pc' = [pc EXCEPT ![t] = "unlockTx"]
        /\ UNCHANGED <<tick, wait, owed, entry, wrapped>>
    BY <1>9 DEF vTaskPlaceOnEventList, At, Goto, call
  <2> QED
    BY <1>t, <2>1 DEF Timing, TypeOK
<1>10. ASSUME NEW t \in Task, UnlockTx(t) PROVE Timing'
  <2>1. /\ pc[t] \in {"unlockTx", "expireTx"}
        /\ pc' = [pc EXCEPT ![t] = "unlockRx"] \/ pc' = [pc EXCEPT ![t] = "expireRx"]
        /\ UNCHANGED <<tick, wait, owed, entry, wrapped>>
    BY <1>10 DEF UnlockTx, At, Goto, call
  <2> QED
    BY <1>t, <2>1 DEF Timing, TypeOK
<1>11. ASSUME NEW t \in Task, UnlockRx(t) PROVE Timing'
  <2>1. CASE Finish(t)
    <3>1. UNCHANGED tick
      BY <1>11 DEF UnlockRx
    <3> QED
      BY <1>t, <2>1, <3>1, QueueAssumption DEF Timing, Finish, Goto, TypeOK, Tick
  <2>2. CASE Goto(t, "try") /\ UNCHANGED call
    <3>1. UNCHANGED tick /\ pc[t] \in {"unlockRx", "expireRx"}
      BY <1>11 DEF UnlockRx, At
    <3> QED
      BY <1>t, <2>2, <3>1 DEF Timing, TypeOK, Goto, call
  <2> QED
    BY <1>11, <2>1, <2>2 DEF UnlockRx
<1>12. CASE SendFromISR
  BY <1>12 DEF SendFromISR, Timing, call
<1>13. CASE ReceiveFromISR
  BY <1>13 DEF ReceiveFromISR, Timing, call
<1>14. CASE PeekFromISR
  BY <1>14 DEF PeekFromISR, Timing, call
<1>15. CASE IncrementTick
  <2>1. tick' = IF tick = MaxTick THEN 0 ELSE tick + 1
    BY <1>15, <1>t, NextTick DEF IncrementTick, TypeOK
  <2>2. /\ UNCHANGED <<pc, wait, entry>>
        /\ \A t \in Task : wrapped'[t] = (wrapped[t] \/ (tick' = 0 /\ entry[t] /= -1))
        /\ \A t \in Task : owed'[t] = IF wait[t] = MaxTick \/ owed[t] = 0 THEN owed[t] ELSE owed[t] - 1
    BY <1>15 DEF IncrementTick
  <2>3. ASSUME NEW t \in Task
        PROVE  /\ pc[t] = "app" => owed'[t] = 0
               /\ entry[t] = -1 => owed'[t] <= wait[t] /\ ~wrapped'[t]
    BY <1>t, <2>1, <2>2, QueueAssumption DEF Timing, TypeOK, Tick
  <2>4. ASSUME NEW t \in Task, entry[t] /= -1, wait[t] /= MaxTick
        PROVE  IF wrapped'[t]
               THEN \/ owed'[t] = 0
                    \/ tick' < entry[t] /\ owed'[t] <= wait[t] - (tick' + MaxTick + 1 - entry[t])
               ELSE tick' >= entry[t] /\ (owed'[t] = 0 \/ owed'[t] <= wait[t] - (tick' - entry[t]))
    <3>1. /\ tick \in Nat /\ tick <= MaxTick /\ wait[t] \in Nat /\ wait[t] < MaxTick
          /\ owed[t] \in Nat /\ entry[t] \in Nat /\ entry[t] <= MaxTick /\ MaxTick \in Nat
      BY <1>t, <2>4, QueueAssumption DEF TypeOK, Tick
    <3>2. owed'[t] = IF owed[t] = 0 THEN 0 ELSE owed[t] - 1
      BY <2>2, <2>4
    <3>3. CASE wrapped[t]
      <4>1. wrapped'[t]
        BY <2>2, <3>3
      <4>2. \/ owed[t] = 0
            \/ tick < entry[t] /\ owed[t] <= wait[t] - (tick + MaxTick + 1 - entry[t])
        BY <2>4, <3>3 DEF Timing
      <4>3. \/ owed'[t] = 0
            \/ tick' < entry[t] /\ owed'[t] <= wait[t] - (tick' + MaxTick + 1 - entry[t])
        BY <4>2, <2>1, <3>1, <3>2
      <4> QED
        BY <4>1, <4>3
    <3>4. CASE ~wrapped[t]
      <4>1. tick >= entry[t] /\ (owed[t] = 0 \/ owed[t] <= wait[t] - (tick - entry[t]))
        BY <2>4, <3>4 DEF Timing
      <4>2. CASE tick' = 0
        <5>1. wrapped'[t]
          BY <2>2, <2>4, <4>2
        <5>2. tick = MaxTick
          BY <2>1, <3>1, <4>2
        <5>3. CASE entry[t] = 0
          BY <4>1, <5>1, <5>2, <5>3, <3>1, <3>2
        <5>4. CASE entry[t] /= 0
          <6>1. tick' < entry[t] /\ (owed'[t] = 0 \/ owed'[t] <= wait[t] - (tick' + MaxTick + 1 - entry[t]))
            BY <4>1, <4>2, <5>2, <5>4, <3>1, <3>2
          <6> QED
            BY <5>1, <6>1
        <5> QED
          BY <5>3, <5>4
      <4>3. CASE tick' /= 0
        <5>1. ~wrapped'[t]
          BY <2>2, <3>4, <4>3
        <5>2. tick' >= entry[t] /\ (owed'[t] = 0 \/ owed'[t] <= wait[t] - (tick' - entry[t]))
          BY <4>1, <4>3, <2>1, <3>1, <3>2
        <5> QED
          BY <5>1, <5>2
      <4> QED
        BY <4>2, <4>3
    <3> QED
      BY <3>3, <3>4
  <2> QED
    BY <2>2, <2>3, <2>4 DEF Timing
<1>16. CASE UNCHANGED vars
  BY <1>16 DEF vars, Timing, call
<1> QED
  BY <1>1, <1>2, <1>3, <1>4, <1>5, <1>6, <1>7, <1>8, <1>9, <1>10, <1>11, <1>12, <1>13, <1>14, <1>15, <1>16 DEF Next, Step

\* Every step keeps calls from giving up early.
LEMMA NoEarlyStep ==
    ASSUME LockedByHolder, Calls, Timing, Ring, NoEarlyTimeout, [Next]_vars
    PROVE  NoEarlyTimeout'
<1>t. TypeOK /\ TypeOK'
  BY TypeStep DEF LockedByHolder
<1>1. ASSUME NEW t \in Task, Call(t) PROVE NoEarlyTimeout'
  <2>1. /\ pc'[t] \notin {"expireTx", "expireRx"}
        /\ \A u \in Task \ {t} : pc'[u] = pc[u] /\ owed'[u] = owed[u]
    BY <1>1, <1>t DEF Call, Finish, Goto, call, TypeOK
  <2> QED
    BY <2>1 DEF NoEarlyTimeout
<1>2. ASSUME NEW t \in Task, xQueueReset(t) PROVE NoEarlyTimeout'
  BY <1>2 DEF xQueueReset, NoEarlyTimeout, call
<1>3. ASSUME NEW t \in Task, Done(t) PROVE NoEarlyTimeout'
  <2>1. /\ pc'[t] \notin {"expireTx", "expireRx"}
        /\ \A u \in Task \ {t} : pc'[u] = pc[u] /\ owed'[u] = owed[u]
    BY <1>3, <1>t DEF Done, Finish, Goto, call, TypeOK
  <2> QED
    BY <2>1 DEF NoEarlyTimeout
<1>4. ASSUME NEW t \in Task, Refused(t) PROVE NoEarlyTimeout'
  <2>1. /\ pc'[t] \notin {"expireTx", "expireRx"}
        /\ \A u \in Task \ {t} : pc'[u] = pc[u] /\ owed'[u] = owed[u]
    BY <1>4, <1>t DEF Refused, Finish, Goto, call, TypeOK
  <2> QED
    BY <2>1 DEF NoEarlyTimeout
<1>5. ASSUME NEW t \in Task, SetTimeOutState(t) PROVE NoEarlyTimeout'
  <2>1. /\ pc'[t] \notin {"expireTx", "expireRx"}
        /\ \A u \in Task \ {t} : pc'[u] = pc[u] /\ owed'[u] = owed[u]
    BY <1>5, <1>t DEF SetTimeOutState, Finish, Goto, call, TypeOK
  <2> QED
    BY <2>1 DEF NoEarlyTimeout
<1>6. ASSUME NEW t \in Task, prvLockQueue(t) PROVE NoEarlyTimeout'
  <2>1. /\ pc'[t] \notin {"expireTx", "expireRx"}
        /\ \A u \in Task \ {t} : pc'[u] = pc[u] /\ owed'[u] = owed[u]
    BY <1>6, <1>t DEF prvLockQueue, Finish, Goto, call, TypeOK
  <2> QED
    BY <2>1 DEF NoEarlyTimeout
<1>7. ASSUME NEW t \in Task, xTaskCheckForTimeOut(t) PROVE NoEarlyTimeout'
  <2>1. pc[t] = "check" /\ UNCHANGED owed /\ \A u \in Task \ {t} : pc'[u] = pc[u]
    BY <1>7, <1>t DEF xTaskCheckForTimeOut, At, Goto, TypeOK
  <2>2. CASE Goto(t, "test")
    BY <1>t, <2>1, <2>2 DEF NoEarlyTimeout, Goto, TypeOK
  <2>3. CASE wait[t] /= MaxTick /\ ((wrapped[t] /\ tick >= entry[t]) \/ Elapsed(t) >= wait[t])
    <3>1. entry[t] \in Tick /\ entry[t] /= -1 /\ owed[t] \in Tick /\ wait[t] \in Tick /\ tick \in Tick
      BY <1>t, <2>1, <2>3, QueueAssumption DEF Timing, TypeOK, Tick
    <3>2. Elapsed(t) = IF tick < entry[t] THEN tick + MaxTick + 1 - entry[t] ELSE tick - entry[t]
      BY <1>t, <3>1, ElapsedIs
    <3>3. owed[t] = 0
      BY <2>3, <3>1, <3>2, QueueAssumption DEF Timing, Tick
    <3> QED
      BY <2>1, <3>3 DEF NoEarlyTimeout
  <2> QED
    BY <1>7, <2>2, <2>3 DEF xTaskCheckForTimeOut
<1>8. ASSUME NEW t \in Task, TestAgain(t) PROVE NoEarlyTimeout'
  <2>1. /\ pc'[t] \notin {"expireTx", "expireRx"}
        /\ \A u \in Task \ {t} : pc'[u] = pc[u] /\ owed'[u] = owed[u]
    BY <1>8, <1>t DEF TestAgain, Finish, Goto, call, TypeOK
  <2> QED
    BY <2>1 DEF NoEarlyTimeout
<1>9. ASSUME NEW t \in Task, vTaskPlaceOnEventList(t) PROVE NoEarlyTimeout'
  <2>1. /\ pc'[t] \notin {"expireTx", "expireRx"}
        /\ \A u \in Task \ {t} : pc'[u] = pc[u] /\ owed'[u] = owed[u]
    BY <1>9, <1>t DEF vTaskPlaceOnEventList, Finish, Goto, call, TypeOK
  <2> QED
    BY <2>1 DEF NoEarlyTimeout
<1>10. ASSUME NEW t \in Task, UnlockTx(t) PROVE NoEarlyTimeout'
  <2>1. /\ \/ pc[t] = "unlockTx" /\ pc' = [pc EXCEPT ![t] = "unlockRx"]
           \/ pc[t] = "expireTx" /\ pc' = [pc EXCEPT ![t] = "expireRx"]
        /\ UNCHANGED owed
    BY <1>10 DEF UnlockTx, At, Goto, call
  <2> QED
    BY <1>t, <2>1 DEF NoEarlyTimeout, TypeOK
<1>11. ASSUME NEW t \in Task, UnlockRx(t) PROVE NoEarlyTimeout'
  <2>1. /\ pc'[t] \notin {"expireTx", "expireRx"}
        /\ \A u \in Task \ {t} : pc'[u] = pc[u] /\ owed'[u] = owed[u]
    BY <1>11, <1>t DEF UnlockRx, Finish, Goto, call, TypeOK
  <2> QED
    BY <2>1 DEF NoEarlyTimeout
<1>12. CASE SendFromISR
  BY <1>12 DEF SendFromISR, NoEarlyTimeout, call
<1>13. CASE ReceiveFromISR
  BY <1>13 DEF ReceiveFromISR, NoEarlyTimeout, call
<1>14. CASE PeekFromISR
  BY <1>14 DEF PeekFromISR, NoEarlyTimeout, call
<1>15. CASE IncrementTick
  <2>1. UNCHANGED pc /\ \A t \in Task : owed[t] = 0 => owed'[t] = 0
    BY <1>15 DEF IncrementTick
  <2> QED
    BY <2>1 DEF NoEarlyTimeout
<1>16. CASE UNCHANGED vars
  BY <1>16 DEF vars, NoEarlyTimeout, call
<1> QED
  BY <1>1, <1>2, <1>3, <1>4, <1>5, <1>6, <1>7, <1>8, <1>9, <1>10, <1>11, <1>12, <1>13, <1>14, <1>15, <1>16 DEF Next, Step
-----------------------------------------------------------------------------
(* The invariant *)

\* Every step keeps the pointers one count apart.
LEMMA RingStep ==
    ASSUME LockedByHolder, Calls, Timing, Ring, [Next]_vars
    PROVE  Ring'
<1>t. TypeOK /\ TypeOK'
  BY TypeStep DEF LockedByHolder
<1>1. ASSUME NEW t \in Task, Call(t) PROVE Ring'
  BY <1>1 DEF Call, Ring, ring
<1>2. ASSUME NEW t \in Task, xQueueReset(t) PROVE Ring'
  <2>1. writeTo' = 0 /\ readFrom' + 1 + count' = Length
    BY <1>2, QueueAssumption DEF xQueueReset
  <2> QED
    BY <2>1, Ends DEF Ring
<1>3. ASSUME NEW t \in Task, Done(t) PROVE Ring'
  <2>1. op[t] \in Sends \cup Receives /\ (op[t] = "overwrite" => Length = 1) /\ item[t] \in Item
    BY <1>3, <1>t, QueueAssumption DEF Done, At, Calls, TypeOK
  <2> QED
    BY <1>3, <1>t, <2>1, CopyCounts DEF Done
<1>4. ASSUME NEW t \in Task, Refused(t) PROVE Ring'
  BY <1>4 DEF Refused, Ring, ring
<1>5. ASSUME NEW t \in Task, SetTimeOutState(t) PROVE Ring'
  BY <1>5 DEF SetTimeOutState, Ring, ring
<1>6. ASSUME NEW t \in Task, prvLockQueue(t) PROVE Ring'
  BY <1>6 DEF prvLockQueue, Ring, ring
<1>7. ASSUME NEW t \in Task, xTaskCheckForTimeOut(t) PROVE Ring'
  BY <1>7 DEF xTaskCheckForTimeOut, Ring, ring
<1>8. ASSUME NEW t \in Task, TestAgain(t) PROVE Ring'
  BY <1>8 DEF TestAgain, Ring, ring
<1>9. ASSUME NEW t \in Task, vTaskPlaceOnEventList(t) PROVE Ring'
  BY <1>9 DEF vTaskPlaceOnEventList, Ring, ring
<1>10. ASSUME NEW t \in Task, UnlockTx(t) PROVE Ring'
  BY <1>10 DEF UnlockTx, Ring, ring
<1>11. ASSUME NEW t \in Task, UnlockRx(t) PROVE Ring'
  BY <1>11 DEF UnlockRx, Ring, ring
<1>12. CASE SendFromISR
  BY <1>12, <1>t, SendCounts DEF SendFromISR
<1>13. CASE ReceiveFromISR
  BY <1>13, <1>t, ReceiveCounts DEF ReceiveFromISR
<1>14. CASE PeekFromISR
  BY <1>14, <1>t, PeekCounts DEF PeekFromISR
<1>15. CASE IncrementTick
  BY <1>15 DEF IncrementTick, Ring, ring
<1>16. CASE UNCHANGED vars
  BY <1>16 DEF vars, Ring, ring
<1> QED
  BY <1>1, <1>2, <1>3, <1>4, <1>5, <1>6, <1>7, <1>8, <1>9, <1>10, <1>11, <1>12, <1>13, <1>14, <1>15, <1>16 DEF Next, Step

\* In every state the lock, the calls, their timeouts and the pointers agree.
THEOREM QueueInvariant == Spec => []Inv
<1>1. Init => Inv
  <2> SUFFICES ASSUME Init PROVE Inv
    OBVIOUS
  <2>t. TypeOK
    BY QueueAssumption DEF Init, TypeOK, Slot, Tick, UNLOCKED, Sends
  <2>1. LockedByHolder
    BY <2>t, QueueAssumption DEF Init, LockedByHolder
  <2>2. Calls
    BY DEF Init, Calls
  <2>3. Seen
    BY DEF Init, Seen
  <2>4. Timing
    BY DEF Init, Timing
  <2>5. NoEarlyTimeout
    BY DEF Init, NoEarlyTimeout
  <2>6. Ring
    <3>1. writeTo = 0 /\ readFrom + 1 + count = Length
      BY QueueAssumption DEF Init
    <3> QED
      BY <3>1, Ends DEF Ring
  <2> QED
    BY <2>1, <2>2, <2>3, <2>4, <2>5, <2>6 DEF Inv
<1>2. Inv /\ [Next]_vars => Inv'
  BY LockStep, CallsStep, SeenStep, TimingStep, NoEarlyStep, RingStep DEF Inv
<1> QED
  BY <1>1, <1>2, PTL DEF Spec

\* The lock of the queue is undone with the suspension of the scheduler it came
\* with (prvLockQueue, prvUnlockQueue), so no interrupt counts in vain.
THEOREM LockBalanced == Spec => []LockedByHolder
<1>1. Inv => LockedByHolder
  BY DEF Inv
<1> QED
  BY <1>1, QueueInvariant, PTL

\* xTaskCheckForTimeOut ends no call before its time, whatever woke the task in
\* between and wherever the tick count wraps.
THEOREM NoEarlyTimeouts == Spec => []NoEarlyTimeout
<1>1. Inv => NoEarlyTimeout
  BY DEF Inv
<1> QED
  BY <1>1, QueueInvariant, PTL
-----------------------------------------------------------------------------
(* Wake-ups *)

\* What there is for the tasks on a waiting list, the operations they wait with
\* and the lock that counts what interrupts did for them.
There(l) == IF l = "receive" THEN count ELSE Length - count
Ops(l) == IF l = "receive" THEN Receives ELSE Sends
Lock(l) == IF l = "receive" THEN txLock ELSE rxLock

\* ReceiversAreWoken and SendersAreWoken in one.
Served(l) ==
    Waiters(l) /= {} =>
        There(l) <= Cardinality(Coming(Ops(l))) + (IF Lock(l) > 0 THEN Lock(l) ELSE 0)

\* Free places.
LEMMA Room ==
    ASSUME NEW c \in 0 .. Length, NEW d \in 0 .. Length
    PROVE  /\ Length - c \in Nat
           /\ d = c + 1 => Length - d = (Length - c) - 1
           /\ d >= c => Length - d <= Length - c
  BY QueueAssumption

LEMMA ComingCounts ==
    ASSUME NEW C \in SUBSET Task
    PROVE  IsFiniteSet(C) /\ Cardinality(C) \in Nat
  BY QueueAssumption, FS_Subset, FS_CardinalityType

LEMMA Joined ==
    ASSUME NEW C \in SUBSET Task, NEW E \in SUBSET Task, C \subseteq E, NEW u \in E \ C
    PROVE  Cardinality(C) + 1 <= Cardinality(E)
<1>1. IsFiniteSet(C) /\ IsFiniteSet(E) /\ Cardinality(C) \in Nat /\ Cardinality(E) \in Nat
  BY ComingCounts
<1>2. Cardinality(C \cup {u}) = Cardinality(C) + 1
  BY <1>1, FS_AddElement
<1>3. Cardinality(C \cup {u}) <= Cardinality(E)
  BY <1>1, FS_Subset
<1> QED
  BY <1>1, <1>2, <1>3

LEMMA Left ==
    ASSUME NEW C \in SUBSET Task, NEW E \in SUBSET Task, NEW t, C \ {t} \subseteq E
    PROVE  Cardinality(C) - 1 <= Cardinality(E)
<1>1. IsFiniteSet(C) /\ IsFiniteSet(E) /\ Cardinality(C) \in Nat /\ Cardinality(E) \in Nat
  BY ComingCounts
<1>2. Cardinality(C \ {t}) = IF t \in C THEN Cardinality(C) - 1 ELSE Cardinality(C)
  BY <1>1, FS_RemoveElement
<1>3. Cardinality(C \ {t}) <= Cardinality(E) /\ Cardinality(C \ {t}) \in Nat
  BY <1>1, FS_Subset, ComingCounts
<1> QED
  BY <1>1, <1>2, <1>3

\* A task of a waiting list is in a call of the list's operations, at a place
\* from where it comes once it is woken.
LEMMA WaitersCall ==
    ASSUME TypeOK, Calls, NEW l \in {"send", "receive"}, NEW u \in Waiters(l)
    PROVE  /\ u \in Task /\ on[u] = l /\ op[u] \in Ops(l)
           /\ pc[u] \in {"try", "unlockTx", "unlockRx"}
<1>1. /\ u \in Task /\ on[u] = l /\ on[u] /= "none"
      /\ pc[u] \in {"try", "unlockTx", "unlockRx"} /\ pc[u] /= "app"
  BY DEF Waiters, Calls
<1>2. op[u] \in Sends \cup Receives /\ on[u] = IF op[u] \in Sends THEN "send" ELSE "receive"
  BY <1>1, QueueAssumption DEF Calls
<1> QED
  BY <1>1, <1>2 DEF Ops

\* Waking one of several brings one.
LEMMA WokenComes ==
    ASSUME TypeOK, Calls, NEW l \in {"send", "receive"}, WakeOne(l), Waiters(l) /= {},
           \A u \in Waiters(l) : pc'[u] = pc[u] /\ op'[u] = op[u]
    PROVE  \E u \in Coming(Ops(l))' : on[u] = l /\ u \notin Coming(Ops(l))
<1>1. PICK u \in Waiters(l) : \A t \in Task : on'[t] = IF t = u THEN "none" ELSE on[t]
  BY WakeOneTypes
<1>2. u \in Task /\ on[u] = l /\ op[u] \in Ops(l) /\ pc[u] \in {"try", "unlockTx", "unlockRx"}
  BY WaitersCall
<1> QED
  BY <1>1, <1>2 DEF Coming

\* Waking as many as the lock counted brings as many, or leaves nobody waiting.
LEMMA CountedCome ==
    ASSUME TypeOK, Calls, NEW l \in {"send", "receive"}, NEW k \in Nat, WakeUpTo(k, l),
           \A u \in Waiters(l) : pc'[u] \in {"try", "unlockTx", "unlockRx"} /\ op'[u] = op[u],
           Coming(Ops(l)) \subseteq Coming(Ops(l))', Waiters(l)' /= {}
    PROVE  Cardinality(Coming(Ops(l))) + k <= Cardinality(Coming(Ops(l))')
<1> DEFINE C == Coming(Ops(l))
           E == Coming(Ops(l))'
<1>1. PICK W \in SUBSET Waiters(l) :
        /\ Cardinality(W) = IF k < Cardinality(Waiters(l)) THEN k ELSE Cardinality(Waiters(l))
        /\ Wake(W)
  BY DEF WakeUpTo
<1>2. Waiters(l) \in SUBSET Task /\ W \in SUBSET Task
  BY DEF Waiters
<1>3. \A t \in Task : on'[t] = IF t \in W THEN "none" ELSE on[t]
  BY <1>1, <1>2, WakeTypes
<1>4. Cardinality(W) = k
  <2>1. W /= Waiters(l)
    BY <1>3 DEF Waiters
  <2>2. IsFiniteSet(Waiters(l)) /\ Cardinality(Waiters(l)) \in Nat
    BY <1>2, ComingCounts
  <2>3. Cardinality(W) /= Cardinality(Waiters(l))
    BY <2>1, <2>2, FS_Subset
  <2> QED
    BY <1>1, <2>3
<1>5. W \subseteq E
  <2> SUFFICES ASSUME NEW u \in W PROVE u \in E
    OBVIOUS
  <2>1. u \in Task /\ op[u] \in Ops(l)
    BY WaitersCall
  <2> QED
    BY <1>3, <2>1 DEF Coming
<1>6. C \cap W = {}
  BY DEF Coming, Waiters
<1>7. C \in SUBSET Task /\ E \in SUBSET Task /\ C \cup W \in SUBSET E
  BY <1>5 DEF Coming
<1> HIDE DEF C, E
<1>8. IsFiniteSet(C) /\ IsFiniteSet(E) /\ IsFiniteSet(W) /\ Cardinality(C) \in Nat /\ Cardinality(W) \in Nat
  BY <1>2, <1>7, ComingCounts
<1>9. Cardinality(C \cup W) = Cardinality(C) + Cardinality(W) - Cardinality(C \cap W)
  BY <1>8, FS_Union
<1>10. Cardinality(C \cap W) = 0
  BY <1>6, FS_EmptySet
<1>11. Cardinality(C \cup W) <= Cardinality(E)
  BY <1>7, <1>8, FS_Subset
<1>12. Cardinality(C) + k <= Cardinality(E)
  BY <1>4, <1>8, <1>9, <1>10, <1>11
<1> QED
  BY <1>12 DEF C, E

\* A reset frees all places and wakes one task that waits to send, which is
\* enough on a queue of one place.
OneIsEnough(l) == l = "send" /\ Resets => Length = 1

\* Every step keeps the tasks that wait served.
LEMMA ServedStep ==
    ASSUME Inv, NEW l \in {"send", "receive"}, OneIsEnough(l), Served(l), [Next]_vars
    PROVE  Served(l)'
<1> DEFINE C == Coming(Ops(l))
           E == Coming(Ops(l))'
<1>t. /\ TypeOK /\ TypeOK' /\ Calls /\ Seen /\ Ring
      /\ txLock /= UNLOCKED <=> \E t \in Task : pc[t] \in {"check", "test", "place", "unlockTx", "expireTx"}
      /\ rxLock /= UNLOCKED <=> holder /= None
      /\ \A t \in Task : t = holder <=> pc[t] \notin {"app", "try", "lock"}
  BY TypeStep DEF Inv, LockedByHolder
<1>i. /\ count \in 0 .. Length /\ count' \in 0 .. Length /\ Length \in Nat /\ Length > 0
      /\ rxLock \in Int /\ rxLock' \in Int /\ txLock \in Int /\ txLock' \in Int
      /\ Lock(l) \in Int /\ Lock(l)' \in Int /\ There(l) \in Nat /\ There(l)' \in Nat
  <2>1. /\ count \in 0 .. Length /\ count' \in 0 .. Length /\ Length \in Nat /\ Length > 0
        /\ rxLock \in Int /\ rxLock' \in Int /\ txLock \in Int /\ txLock' \in Int
    BY <1>t, QueueAssumption DEF TypeOK
  <2>2. CASE l = "receive"
    BY <2>1, <2>2 DEF Lock, There
  <2>3. CASE l = "send"
    <3>1. Lock(l) = rxLock /\ Lock(l)' = rxLock'
      BY <2>3 DEF Lock
    <3>2. There(l) = Length - count /\ There(l)' = Length - count'
      BY <2>3 DEF There
    <3>3. Length - count \in Nat /\ Length - count' \in Nat
      BY <2>1, Room, Zenon
    <3> QED
      BY <2>1, <3>1, <3>2, <3>3
  <2> QED
    BY <2>1, <2>2, <2>3
<1>c. /\ C \in SUBSET Task /\ E \in SUBSET Task
      /\ Cardinality(C) \in Nat /\ Cardinality(E) \in Nat
  <2>1. C \in SUBSET Task /\ E \in SUBSET Task
    BY DEF Coming
  <2> HIDE DEF C, E
  <2> QED
    BY <2>1, ComingCounts
<1>s. Waiters(l) /= {} => There(l) <= Cardinality(C) + (IF Lock(l) > 0 THEN Lock(l) ELSE 0)
  BY DEF Served
<1>p. ASSUME Waiters(l)' /= {} =>
               There(l)' <= Cardinality(E) + (IF Lock(l)' > 0 THEN Lock(l)' ELSE 0)
      PROVE  Served(l)'
  BY <1>p DEF Served
<1>o. \A t \in Task : op[t] \in Sends \cup Receives \cup {"none"} /\ (op[t] \in Ops(l) <=> (IF l = "send" THEN op[t] \in Sends ELSE op[t] \in Receives))
  BY <1>t DEF TypeOK, Ops
\* Nothing comes in, nobody is added and nobody goes away.
<1>q. ASSUME Waiters(l)' \subseteq Waiters(l), C \subseteq E, There(l)' <= There(l),
             Lock(l)' >= Lock(l) \/ Lock(l) <= 0
      PROVE  Served(l)'
  <2>1. Cardinality(C) <= Cardinality(E)
    <3> HIDE DEF C, E
    <3> QED
      BY <1>q, <1>c, ComingCounts, FS_Subset
  <2> HIDE DEF C, E
  <2> QED
    BY <1>q, <1>s, <1>p, <1>i, <1>c, <2>1
\* There is nothing to wait for.
<1>z. ASSUME There(l)' = 0 PROVE Served(l)'
  <2> HIDE DEF C, E
  <2> QED
    BY <1>z, <1>p, <1>i, <1>c
\* Whoever takes something takes no more than it came for.
<1>l. ASSUME NEW t, Waiters(l)' \subseteq Waiters(l), C \ {t} \subseteq E, There(l)' = There(l) - 1,
             Lock(l)' = Lock(l)
      PROVE  Served(l)'
  <2>1. Cardinality(C) - 1 <= Cardinality(E)
    <3> HIDE DEF C, E
    <3> QED
      BY <1>l, <1>c, Left
  <2> HIDE DEF C, E
  <2> QED
    BY <1>l, <1>s, <1>p, <1>i, <1>c, <2>1
\* What comes in brings somebody.
<1>j. ASSUME NEW u \in E \ C, Waiters(l) /= {}, C \subseteq E, There(l)' <= There(l) + 1,
             Lock(l)' = Lock(l)
      PROVE  Served(l)'
  <2>1. Cardinality(C) + 1 <= Cardinality(E)
    <3> HIDE DEF C, E
    <3> QED
      BY <1>j, <1>c, Joined
  <2> HIDE DEF C, E
  <2> QED
    BY <1>j, <1>s, <1>p, <1>i, <1>c, <2>1
<1>1. ASSUME NEW t \in Task, Call(t) PROVE Served(l)'
  <2>1. C \subseteq E
    BY <1>1, <1>t DEF Call, At, Goto, Coming, TypeOK, waiting
  <2>2. Waiters(l)' = Waiters(l) /\ There(l)' = There(l) /\ Lock(l)' = Lock(l)
    BY <1>1 DEF Call, waiting, Waiters, There, Lock, ring, locks
  <2> QED
    BY <1>i, <1>q, <2>1, <2>2
<1>2. ASSUME NEW t \in Task, xQueueReset(t) PROVE Served(l)'
  <2>1. count' = 0 /\ WakeOne("send") /\ UNCHANGED <<pc, op>> /\ Resets
    BY <1>2 DEF xQueueReset, call
  <2>2. CASE l = "receive"
    BY <1>z, <2>1, <2>2 DEF There
  <2>3. CASE l = "send" /\ Waiters(l) = {}
    <3>1. Waiters(l)' = {}
      BY <1>t, <2>1, <2>3, WakeOneTypes DEF Waiters
    <3> HIDE DEF C, E
    <3> QED
      BY <3>1, <1>p
  <2>4. CASE l = "send" /\ Waiters(l) /= {}
    <3>1. PICK u \in E : u \notin C
      BY <1>t, <2>1, <2>4, WokenComes
    <3>2. {} \subseteq E /\ {} \in SUBSET Task /\ u \in E \ {} /\ Cardinality({}) = 0
      BY <3>1, FS_EmptySet
    <3>3. 1 <= Cardinality(E)
      <4> HIDE DEF C, E
      <4> QED
        BY <1>c, <3>2, Joined
    <3>4. There(l)' = 1
      BY <1>i, <2>1, <2>4 DEF There, OneIsEnough
    <3> HIDE DEF C, E
    <3> QED
      BY <1>i, <1>c, <1>p, <3>3, <3>4
  <2> QED
    BY <2>2, <2>3, <2>4
<1>3. ASSUME NEW t \in Task, Done(t) PROVE Served(l)'
  <2>1. /\ pc[t] = "try" /\ on[t] = "none" /\ op[t] \in Sends \cup Receives /\ item[t] \in Item
        /\ op[t] = "overwrite" => Length = 1
    BY <1>3, <1>t, QueueAssumption DEF Done, At, Calls, TypeOK
  <2>2. /\ op[t] \in {"back", "front"} => count' = count + 1
        /\ op[t] = "overwrite" => count' = Length
        /\ op[t] = "receive" => count' = count - 1
        /\ op[t] = "peek" => count' = count
    BY <1>3, <1>t, <2>1, CopyCounts DEF Done
  <2>3. /\ WakeOne(Wakes(op[t])) /\ Lock(l)' = Lock(l)
        /\ \A u \in Task \ {t} : pc'[u] = pc[u] /\ op'[u] = op[u]
    BY <1>3, <1>t DEF Done, Finish, Goto, Lock, locks, TypeOK
  <2>4. \A u \in Task : on'[u] = on[u] \/ on'[u] = "none"
    BY <1>t, <2>3, WakeOneTypes
  <2>5. C \ {t} \subseteq E /\ Waiters(l)' \subseteq Waiters(l)
    BY <1>i, <2>3, <2>4 DEF Coming, Waiters
  <2>6. op[t] \notin Ops(l) => C \subseteq E
    BY <2>5 DEF Coming
  <2>7. \A u \in Waiters(l) : u /= t /\ pc'[u] = pc[u] /\ op'[u] = op[u]
    BY <2>1, <2>3 DEF Waiters
  <2>8. ASSUME WakeOne(l), Waiters(l) /= {} PROVE \E u \in E : u \notin C /\ u /= t
    BY <1>t, <2>1, <2>7, <2>8, WokenComes
  <2>9. ASSUME WakeOne(l), Waiters(l) = {} PROVE Served(l)'
    <3>1. Waiters(l)' = {}
      BY <2>5, <2>9
    <3> HIDE DEF C, E
    <3> QED
      BY <3>1, <1>p
  <2>10. CASE (op[t] \in {"back", "front"} /\ l = "send") \/ (op[t] = "receive" /\ l = "receive")
    <3>1. There(l)' = There(l) - 1
      <4>1. CASE op[t] = "receive" /\ l = "receive"
        BY <1>i, <2>2, <4>1 DEF There
      <4>2. CASE op[t] \in {"back", "front"} /\ l = "send"
        BY <1>i, <2>2, <4>2, Room, Zenon DEF There
      <4> QED
        BY <2>10, <4>1, <4>2
    <3> QED
      BY <1>l, <2>3, <2>5, <3>1
  <2>11. CASE op[t] = "overwrite" /\ l = "send"
    <3>1. There(l)' = 0
      BY <1>i, <2>2, <2>11 DEF There
    <3> QED
      BY <1>z, <3>1
  <2>12. CASE op[t] = "peek" /\ l = "send"
    <3>1. There(l)' = There(l) /\ op[t] \notin Ops(l)
      BY <1>i, <2>2, <2>12 DEF There, Ops, Sends
    <3> QED
      BY <1>i, <1>q, <2>3, <2>5, <2>6, <3>1
  <2>13. CASE op[t] = "peek" /\ l = "receive"
    <3>1. There(l)' = There(l) /\ WakeOne(l)
      BY <1>i, <2>2, <2>3, <2>13 DEF There, Wakes
    <3>2. CASE Waiters(l) /= {}
      <4>1. PICK u \in E : u \notin C /\ u /= t
        BY <2>8, <3>1, <3>2
      <4>2. Cardinality(C) <= Cardinality(E)
        <5> HIDE DEF C, E
        <5>1. (C \ {t}) \cup {u} \in SUBSET E /\ u \notin C \ {t}
          BY <2>5, <4>1
        <5>2. IsFiniteSet(C) /\ IsFiniteSet(C \ {t}) /\ IsFiniteSet(E)
          BY <1>c, ComingCounts
        <5>3. Cardinality(C \ {t}) = IF t \in C THEN Cardinality(C) - 1 ELSE Cardinality(C)
          BY <5>2, FS_RemoveElement
        <5>4. Cardinality((C \ {t}) \cup {u}) = Cardinality(C \ {t}) + 1
          BY <5>1, <5>2, FS_AddElement
        <5>5. Cardinality((C \ {t}) \cup {u}) <= Cardinality(E)
          BY <5>1, <5>2, FS_Subset
        <5> QED
          BY <1>c, <5>3, <5>4, <5>5
      <4> HIDE DEF C, E
      <4> QED
        BY <1>i, <1>c, <1>s, <1>p, <2>3, <3>1, <3>2, <4>2
    <3> QED
      BY <2>9, <3>1, <3>2
  <2>14. CASE (op[t] \in Sends /\ l = "receive") \/ (op[t] = "receive" /\ l = "send")
    <3>1. WakeOne(l) /\ op[t] \notin Ops(l)
      BY <2>3, <2>14 DEF Wakes, Ops, Sends, Receives
    <3>5. There(l)' <= There(l) + 1
      <4>1. CASE op[t] \in Sends /\ l = "receive"
        <5>1. count' <= count + 1
          BY <1>i, <2>1, <2>2, <4>1 DEF Sends
        <5> QED
          BY <4>1, <5>1 DEF There
      <4>2. CASE op[t] = "receive" /\ l = "send"
        BY <1>i, <2>2, <4>2 DEF There
      <4> QED
        BY <2>14, <4>1, <4>2
    <3>2. CASE Waiters(l) /= {}
      <4>1. PICK u \in E : u \notin C
        BY <2>8, <3>1, <3>2
      <4> QED
        BY <1>j, <2>3, <2>6, <3>1, <3>2, <3>5, <4>1
    <3> QED
      BY <2>9, <3>1, <3>2
  <2> QED
    BY <2>1, <2>10, <2>11, <2>12, <2>13, <2>14 DEF Sends, Receives
<1>4. ASSUME NEW t \in Task, Refused(t) PROVE Served(l)'
  <2>1. /\ ~Possible(op[t]) /\ op[t] \in Sends \cup Receives
        /\ UNCHANGED <<ring, locks, waiting>>
    BY <1>4, <1>t, QueueAssumption DEF Refused, At, Calls
  <2>2. CASE op[t] \in Ops(l)
    <3>1. There(l)' = 0
      BY <1>i, <2>1, <2>2 DEF Possible, There, Ops, Sends, Receives, ring
    <3> QED
      BY <3>1, <1>z
  <2>3. CASE op[t] \notin Ops(l)
    <3>1. C \subseteq E
      BY <1>4, <2>1, <2>3, <1>t DEF Refused, Finish, Goto, Coming, TypeOK, waiting
    <3>2. Waiters(l)' = Waiters(l) /\ There(l)' = There(l) /\ Lock(l)' = Lock(l)
      BY <2>1 DEF waiting, Waiters, There, Lock, ring, locks
    <3> QED
      BY <1>i, <1>q, <3>1, <3>2
  <2> QED
    BY <2>2, <2>3
<1>5. ASSUME NEW t \in Task, SetTimeOutState(t) PROVE Served(l)'
  <2>1. /\ ~Possible(op[t]) /\ op[t] \in Sends \cup Receives
        /\ UNCHANGED <<ring, locks, waiting>>
    BY <1>5, <1>t, QueueAssumption DEF SetTimeOutState, At, Calls
  <2>2. CASE op[t] \in Ops(l)
    <3>1. There(l)' = 0
      BY <1>i, <2>1, <2>2 DEF Possible, There, Ops, Sends, Receives, ring
    <3> QED
      BY <3>1, <1>z
  <2>3. CASE op[t] \notin Ops(l)
    <3>1. C \subseteq E
      BY <1>5, <2>1, <2>3, <1>t DEF SetTimeOutState, Finish, Goto, Coming, TypeOK, waiting
    <3>2. Waiters(l)' = Waiters(l) /\ There(l)' = There(l) /\ Lock(l)' = Lock(l)
      BY <2>1 DEF waiting, Waiters, There, Lock, ring, locks
    <3> QED
      BY <1>i, <1>q, <3>1, <3>2
  <2> QED
    BY <2>2, <2>3
<1>6. ASSUME NEW t \in Task, prvLockQueue(t) PROVE Served(l)'
  <2>1. C \subseteq E
    BY <1>6, <1>t DEF prvLockQueue, At, Goto, Coming, TypeOK, waiting, call
  <2>2. Waiters(l)' = Waiters(l) /\ There(l)' = There(l)
    BY <1>6 DEF prvLockQueue, waiting, Waiters, There, ring
  <2>3. Lock(l)' >= Lock(l)
    BY <1>6, <1>i DEF prvLockQueue, Lock, UNLOCKED
  <2> QED
    BY <1>i, <1>q, <2>1, <2>2, <2>3
<1>7. ASSUME NEW t \in Task, xTaskCheckForTimeOut(t) PROVE Served(l)'
  <2>1. C \subseteq E
    BY <1>7, <1>t DEF xTaskCheckForTimeOut, At, Goto, Coming, TypeOK, waiting, call
  <2>2. Waiters(l)' = Waiters(l) /\ There(l)' = There(l)
    BY <1>7 DEF xTaskCheckForTimeOut, waiting, Waiters, There, ring
  <2>3. Lock(l)' = Lock(l)
    BY <1>7 DEF xTaskCheckForTimeOut, Lock, locks
  <2> QED
    BY <1>i, <1>q, <2>1, <2>2, <2>3
<1>8. ASSUME NEW t \in Task, TestAgain(t) PROVE Served(l)'
  <2>1. C \subseteq E
    BY <1>8, <1>t DEF TestAgain, At, Goto, Coming, TypeOK, waiting, call
  <2>2. Waiters(l)' = Waiters(l) /\ There(l)' = There(l)
    BY <1>8 DEF TestAgain, waiting, Waiters, There, ring
  <2>3. Lock(l)' = Lock(l)
    BY <1>8 DEF TestAgain, Lock, locks
  <2> QED
    BY <1>i, <1>q, <2>1, <2>2, <2>3
<1>9. ASSUME NEW t \in Task, vTaskPlaceOnEventList(t) PROVE Served(l)'
  <2>1. /\ pc[t] = "place" /\ holder = t /\ op[t] \in Sends \cup Receives /\ UNCHANGED <<ring, locks, op>>
        /\ on' = [on EXCEPT ![t] = IF op[t] \in Sends THEN "send" ELSE "receive"]
        /\ Goto(t, "unlockTx")
    BY <1>9, <1>t, QueueAssumption DEF vTaskPlaceOnEventList, At, Calls, call
  <2>2. There(l)' = There(l) /\ Lock(l)' = Lock(l)
    BY <2>1 DEF There, Lock, ring, locks
  <2>3. CASE op[t] \in Ops(l)
    <3>1. There(l) <= Lock(l)
      BY <1>t, <1>o, <2>1, <2>3 DEF Seen, There, Lock, Ops, Sends, Receives
    <3> HIDE DEF C, E
    <3> QED
      BY <1>i, <1>c, <1>p, <2>2, <3>1
  <2>4. CASE op[t] \notin Ops(l)
    <3>1. C \subseteq E
      BY <1>t, <2>1, <2>4 DEF Coming, Goto, TypeOK
    <3>2. Waiters(l)' = Waiters(l)
      BY <1>t, <1>o, <2>1, <2>4 DEF Waiters, Calls, TypeOK, Ops, Sends, Receives
    <3> QED
      BY <1>i, <1>q, <2>2, <3>1, <3>2
  <2> QED
    BY <2>3, <2>4
<1>10. ASSUME NEW t \in Task, UnlockTx(t) PROVE Served(l)'
  <2>1. /\ WakeUpTo(txLock, "receive") /\ txLock \in Nat /\ UNCHANGED <<ring, rxLock>>
        /\ \A u \in Task \ {t} : pc'[u] = pc[u] /\ op'[u] = op[u]
        /\ \/ pc[t] = "unlockTx" /\ pc'[t] = "unlockRx" /\ op'[t] = op[t]
           \/ pc[t] = "expireTx"
    BY <1>10, <1>t, <1>i, QueueAssumption DEF UnlockTx, At, Goto, Finish, TypeOK, UNLOCKED, call
  <2>2. \A u \in Task : on'[u] = on[u] \/ on'[u] = "none"
    BY <1>t, <2>1, WakeUpToTypes
  <2>3. on[t] /= "none" => pc[t] = "unlockTx"
    BY <1>t, <2>1 DEF Calls
  <2>4. C \subseteq E
    BY <2>1, <2>2 DEF Coming
  <2>5. Waiters(l)' \subseteq Waiters(l) /\ There(l)' = There(l)
    BY <1>i, <2>1, <2>2 DEF Waiters, There, ring
  <2>6. CASE l /= "receive"
    <3>1. Lock(l)' = Lock(l)
      BY <2>1, <2>6 DEF Lock
    <3> QED
      BY <1>i, <1>q, <2>4, <2>5, <3>1
  <2>7. CASE l = "receive"
    <3>1. Lock(l) = txLock
      BY <2>7 DEF Lock
    <3>2. \A u \in Waiters(l) : pc'[u] \in {"try", "unlockTx", "unlockRx"} /\ op'[u] = op[u]
      BY <1>t, <2>1, <2>3, WaitersCall
    <3>3. Waiters(l)' /= {} => Cardinality(C) + txLock <= Cardinality(E)
      BY <1>t, <2>1, <2>4, <2>7, <3>2, CountedCome
    <3>4. Waiters(l)' /= {} => Waiters(l) /= {}
      BY <2>5
    <3> HIDE DEF C, E
    <3> QED
      BY <1>i, <1>c, <1>s, <1>p, <2>1, <2>5, <3>1, <3>3, <3>4
  <2> QED
    BY <2>6, <2>7
<1>11. ASSUME NEW t \in Task, UnlockRx(t) PROVE Served(l)'
  <2>1. /\ WakeUpTo(rxLock, "send") /\ rxLock \in Nat /\ UNCHANGED <<ring, txLock>>
        /\ \A u \in Task \ {t} : pc'[u] = pc[u] /\ op'[u] = op[u]
        /\ \/ pc[t] = "unlockRx" /\ pc'[t] = "try" /\ op'[t] = op[t]
           \/ pc[t] = "expireRx"
    BY <1>11, <1>t, <1>i, QueueAssumption DEF UnlockRx, At, Goto, Finish, TypeOK, UNLOCKED, call
  <2>2. \A u \in Task : on'[u] = on[u] \/ on'[u] = "none"
    BY <1>t, <2>1, WakeUpToTypes
  <2>3. on[t] /= "none" => pc[t] = "unlockRx"
    BY <1>t, <2>1 DEF Calls
  <2>4. C \subseteq E
    BY <2>1, <2>2 DEF Coming
  <2>5. Waiters(l)' \subseteq Waiters(l) /\ There(l)' = There(l)
    BY <1>i, <2>1, <2>2 DEF Waiters, There, ring
  <2>6. CASE l /= "send"
    <3>1. Lock(l)' = Lock(l)
      BY <2>1, <2>6 DEF Lock
    <3> QED
      BY <1>i, <1>q, <2>4, <2>5, <3>1
  <2>7. CASE l = "send"
    <3>1. Lock(l) = rxLock
      BY <2>7 DEF Lock
    <3>2. \A u \in Waiters(l) : pc'[u] \in {"try", "unlockTx", "unlockRx"} /\ op'[u] = op[u]
      BY <1>t, <2>1, <2>3, WaitersCall
    <3>3. Waiters(l)' /= {} => Cardinality(C) + rxLock <= Cardinality(E)
      BY <1>t, <2>1, <2>4, <2>7, <3>2, CountedCome
    <3>4. Waiters(l)' /= {} => Waiters(l) /= {}
      BY <2>5
    <3> HIDE DEF C, E
    <3> QED
      BY <1>i, <1>c, <1>s, <1>p, <2>1, <2>5, <3>1, <3>3, <3>4
  <2> QED
    BY <2>6, <2>7
<1>12. CASE SendFromISR
  <2>1. /\ txLock = UNLOCKED => WakeOne("receive") /\ txLock' = txLock
        /\ txLock /= UNLOCKED => txLock' = txLock + 1
        /\ UNCHANGED <<rxLock, pc, op>>
    BY <1>12 DEF SendFromISR, call, locks
  <2>2. count' >= count /\ count' <= count + 1
    <3>1. PICK o \in IsrOps \cap Sends, x \in Item : Possible(o) /\ prvCopyDataToQueue(x, o)
      BY <1>12 DEF SendFromISR
    <3>2. (o \in {"back", "front"} => count' = count + 1) /\ (o = "overwrite" => count' = Length /\ Length = 1)
      BY <1>t, <3>1, SendCounts
    <3> QED
      BY <1>i, <3>2 DEF Sends
  <2>3. \A u \in Task : on'[u] = on[u] \/ on'[u] = "none"
    BY <1>12, <1>t, WakeOneTypes DEF SendFromISR, waiting
  <2>4. C \subseteq E /\ Waiters(l)' \subseteq Waiters(l)
    BY <2>1, <2>3 DEF Coming, Waiters
  <2>5. CASE l /= "receive"
    <3>1. Lock(l)' = Lock(l)
      BY <2>1, <2>5 DEF Lock
    <3>2. There(l)' <= There(l)
      <4>1. count' >= count => Length - count' <= Length - count
        BY <1>i, Room, Zenon
      <4> QED
        BY <1>i, <2>2, <2>5, <4>1 DEF There
    <3> QED
      BY <1>i, <1>q, <2>4, <3>1, <3>2
  <2>6. CASE l = "receive" /\ txLock = UNLOCKED
    <3>1. WakeOne(l) /\ There(l)' <= There(l) + 1 /\ Lock(l)' = Lock(l)
      BY <1>i, <2>1, <2>2, <2>6 DEF There, Lock
    <3>2. CASE Waiters(l) /= {}
      <4>1. PICK u \in E : u \notin C
        BY <1>t, <2>1, <3>1, <3>2, WokenComes DEF Waiters
      <4> QED
        BY <1>j, <2>4, <3>1, <3>2, <4>1
    <3>3. CASE Waiters(l) = {}
      <4>1. Waiters(l)' = {}
        BY <2>4, <3>3
      <4> HIDE DEF C, E
      <4> QED
        BY <4>1, <1>p
    <3> QED
      BY <3>2, <3>3
  <2>7. CASE l = "receive" /\ txLock /= UNLOCKED
    <3>1. There(l)' <= There(l) + 1 /\ Lock(l)' = Lock(l) + 1 /\ Lock(l) >= 0
      BY <1>i, <1>t, <2>1, <2>2, <2>7 DEF There, Lock, UNLOCKED, TypeOK
    <3>2. Cardinality(C) <= Cardinality(E)
      <4> HIDE DEF C, E
      <4> QED
        BY <1>c, <2>4, ComingCounts, FS_Subset
    <3>3. Waiters(l)' /= {} => Waiters(l) /= {}
      BY <2>4
    <3> HIDE DEF C, E
    <3> QED
      BY <1>i, <1>c, <1>s, <1>p, <3>1, <3>2, <3>3
  <2> QED
    BY <2>5, <2>6, <2>7
<1>13. CASE ReceiveFromISR
  <2>1. /\ rxLock = UNLOCKED => WakeOne("send") /\ rxLock' = rxLock
        /\ rxLock /= UNLOCKED => rxLock' = rxLock + 1
        /\ UNCHANGED <<txLock, pc, op>>
    BY <1>13 DEF ReceiveFromISR, call, locks
  <2>2. count' = count - 1
    BY <1>13 DEF ReceiveFromISR, prvCopyDataFromQueue
  <2>3. \A u \in Task : on'[u] = on[u] \/ on'[u] = "none"
    BY <1>13, <1>t, WakeOneTypes DEF ReceiveFromISR, waiting
  <2>4. C \subseteq E /\ Waiters(l)' \subseteq Waiters(l)
    BY <2>1, <2>3 DEF Coming, Waiters
  <2>5. CASE l /= "send"
    <3>1. Lock(l)' = Lock(l)
      BY <2>1, <2>5 DEF Lock
    <3>2. There(l)' <= There(l)
      <4>1. count' >= count => Length - count' <= Length - count
        BY <1>i, Room, Zenon
      <4> QED
        BY <1>i, <2>2, <2>5, <4>1 DEF There
    <3> QED
      BY <1>i, <1>q, <2>4, <3>1, <3>2
  <2>6. CASE l = "send" /\ rxLock = UNLOCKED
    <3>1. WakeOne(l) /\ There(l)' <= There(l) + 1 /\ Lock(l)' = Lock(l)
      BY <1>i, <2>1, <2>2, <2>6 DEF There, Lock
    <3>2. CASE Waiters(l) /= {}
      <4>1. PICK u \in E : u \notin C
        BY <1>t, <2>1, <3>1, <3>2, WokenComes DEF Waiters
      <4> QED
        BY <1>j, <2>4, <3>1, <3>2, <4>1
    <3>3. CASE Waiters(l) = {}
      <4>1. Waiters(l)' = {}
        BY <2>4, <3>3
      <4> HIDE DEF C, E
      <4> QED
        BY <4>1, <1>p
    <3> QED
      BY <3>2, <3>3
  <2>7. CASE l = "send" /\ rxLock /= UNLOCKED
    <3>1. There(l)' <= There(l) + 1 /\ Lock(l)' = Lock(l) + 1 /\ Lock(l) >= 0
      BY <1>i, <1>t, <2>1, <2>2, <2>7 DEF There, Lock, UNLOCKED, TypeOK
    <3>2. Cardinality(C) <= Cardinality(E)
      <4> HIDE DEF C, E
      <4> QED
        BY <1>c, <2>4, ComingCounts, FS_Subset
    <3>3. Waiters(l)' /= {} => Waiters(l) /= {}
      BY <2>4
    <3> HIDE DEF C, E
    <3> QED
      BY <1>i, <1>c, <1>s, <1>p, <3>1, <3>2, <3>3
  <2> QED
    BY <2>5, <2>6, <2>7
<1>14. CASE PeekFromISR
  <2>1. C \subseteq E /\ Waiters(l)' = Waiters(l) /\ There(l)' = There(l) /\ Lock(l)' = Lock(l)
    BY <1>14 DEF PeekFromISR, PeekData, Coming, Waiters, There, Lock, locks, call, waiting
  <2> QED
    BY <1>i, <1>q, <2>1
<1>15. CASE IncrementTick
  <2>1. \A u \in Task : on'[u] = on[u] \/ on'[u] = "none"
    BY <1>15 DEF IncrementTick
  <2>2. C \subseteq E
    BY <1>15, <2>1 DEF IncrementTick, Coming
  <2>3. Waiters(l)' \subseteq Waiters(l) /\ There(l)' = There(l) /\ Lock(l)' = Lock(l)
    BY <1>15, <2>1 DEF IncrementTick, Waiters, There, Lock, ring, locks
  <2> QED
    BY <1>i, <1>q, <2>2, <2>3
<1>16. CASE UNCHANGED vars
  <2>1. C \subseteq E /\ Waiters(l)' = Waiters(l) /\ There(l)' = There(l) /\ Lock(l)' = Lock(l)
    BY <1>16 DEF vars, ring, Coming, Waiters, There, Lock, locks, call, waiting
  <2> QED
    BY <1>i, <1>q, <2>1
<1> HIDE DEF C, E
<1> QED
  BY <1>1, <1>2, <1>3, <1>4, <1>5, <1>6, <1>7, <1>8, <1>9, <1>10, <1>11, <1>12, <1>13, <1>14, <1>15, <1>16 DEF Next, Step

\* No item lies in the queue while a task waits to receive and nobody is on the
\* way to wake it or to take the item (prvLockQueue to prvUnlockQueue, and every
\* xTaskRemoveFromEventList).
THEOREM ReceiversWoken == Spec => []ReceiversAreWoken
<1>1. Served("receive") <=> ReceiversAreWoken
  BY DEF Served, ReceiversAreWoken, There, Ops, Lock
<1>2. Init => Served("receive")
  BY DEF Init, Served, Waiters
<1>3. Inv /\ Served("receive") /\ [Next]_vars => Served("receive")'
  BY ServedStep DEF OneIsEnough
<1> QED
  BY <1>1, <1>2, <1>3, QueueInvariant, PTL DEF Spec

\* No place stays free while a task waits to send and nobody is on the way, as
\* long as xQueueReset is not called on a queue of several places.
THEOREM SendersWoken == (Resets => Length = 1) => (Spec => []SendersAreWoken)
<1> SUFFICES ASSUME Resets => Length = 1 PROVE Spec => []SendersAreWoken
  OBVIOUS
<1>1. Served("send") <=> SendersAreWoken
  BY DEF Served, SendersAreWoken, There, Ops, Lock
<1>2. Init => Served("send")
  BY DEF Init, Served, Waiters
<1>3. Inv /\ Served("send") /\ [Next]_vars => Served("send")'
  BY ServedStep DEF OneIsEnough
<1> QED
  BY <1>1, <1>2, <1>3, QueueInvariant, PTL DEF Spec
-----------------------------------------------------------------------------
(***************************************************************************)
(* The queue as a sequence.  The k-th item lies k places behind pcReadFrom *)
(* in the storage area, which every operation moves on, back or not at all. *)
(***************************************************************************)
Place(r, k) == IF r + k < Length THEN r + k ELSE r + k - Length

Held(b, r, c) == [k \in 1 .. c |-> b[(r + k) % Length]]

\* s is what is held in b, c items from behind r on.
IsHeld(s, b, r, c) == s \in Seq(Item) /\ Len(s) = c /\ \A k \in 1 .. c : s[k] = b[Place(r, k)]

\* A round of the storage area passes each of its places once.
LEMMA PlaceIs ==
    ASSUME NEW r \in Slot
    PROVE  /\ \A k \in 0 .. Length : Place(r, k) \in Slot /\ (r + k) % Length = Place(r, k)
           /\ \A j, k \in 1 .. Length : Place(r, j) = Place(r, k) => j = k
<1>1. Length \in Nat /\ Length >= 1 /\ r \in Nat /\ r < Length
  BY QueueAssumption DEF Slot
<1>2. ASSUME NEW k \in 0 .. Length
      PROVE  Place(r, k) \in Slot /\ (r + k) % Length = Place(r, k)
  <2>1. Place(r, k) \in Slot
    BY <1>1 DEF Place, Slot
  <2>2. (r + k) % Length = Place(r, k)
    BY Further DEF Place
  <2> QED
    BY <2>1, <2>2
<1>3. ASSUME NEW j \in 1 .. Length, NEW k \in 1 .. Length, Place(r, j) = Place(r, k)
      PROVE  j = k
  BY <1>1, <1>3 DEF Place
<1> QED
  BY <1>2, <1>3

LEMMA HeldIs ==
    ASSUME NEW b \in [Slot -> Item], NEW r \in Slot, NEW c \in 0 .. Length
    PROVE  IsHeld(Held(b, r, c), b, r, c)
<1>1. c \in Nat /\ \A k \in 1 .. c : k \in 0 .. Length
  BY QueueAssumption
<1>2. \A k \in 1 .. c : (r + k) % Length = Place(r, k) /\ Place(r, k) \in Slot
  BY <1>1, PlaceIs
<1>3. \A k \in 1 .. c : b[(r + k) % Length] = b[Place(r, k)] /\ b[(r + k) % Length] \in Item
  BY <1>2
<1> QED
  BY <1>1, <1>3 DEF Held, IsHeld

LEMMA HeldEqual ==
    ASSUME NEW s, NEW u, NEW b, NEW r, NEW c \in Nat, IsHeld(s, b, r, c), IsHeld(u, b, r, c)
    PROVE  s = u
<1>1. s \in Seq(Item) /\ u \in Seq(Item) /\ Len(s) = Len(u) /\ \A k \in 1 .. Len(s) : s[k] = u[k]
  BY DEF IsHeld
<1> QED
  BY <1>1, SeqEqual

\* At the back.
LEMMA HeldBack ==
    ASSUME NEW b \in [Slot -> Item], NEW r \in Slot, NEW c \in 0 .. Length - 1, NEW x \in Item
    PROVE  Held([b EXCEPT ![Place(r, c + 1)] = x], r, c + 1) = Append(Held(b, r, c), x)
<1> DEFINE w == Place(r, c + 1)
           b2 == [b EXCEPT ![w] = x]
           s == Held(b, r, c)
<1>1. Length \in Nat /\ c \in Nat /\ c \in 0 .. Length /\ c + 1 \in 1 .. Length /\ c + 1 \in 0 .. Length
  BY QueueAssumption
<1>2. w \in Slot /\ b2 \in [Slot -> Item] /\ b2[w] = x
  BY <1>1, PlaceIs
<1>3. IsHeld(s, b, r, c)
  BY <1>1, HeldIs
<1>4. \A k \in 1 .. c : b2[Place(r, k)] = b[Place(r, k)]
  <2> TAKE k \in 1 .. c
  <2>1. k \in 0 .. Length /\ k \in 1 .. Length /\ k /= c + 1
    BY <1>1
  <2>2. Place(r, k) \in Slot /\ Place(r, k) /= w
    BY <1>1, <2>1, PlaceIs
  <2> QED
    BY <2>2
<1>5. IsHeld(Held(b2, r, c + 1), b2, r, c + 1)
  BY <1>1, <1>2, HeldIs
<1>6. IsHeld(Append(s, x), b2, r, c + 1)
  <2> HIDE DEF s
  <2>1. s \in Seq(Item) /\ Len(s) = c
    BY <1>3 DEF IsHeld
  <2>2. /\ Append(s, x) \in Seq(Item) /\ Len(Append(s, x)) = c + 1
        /\ Append(s, x)[c + 1] = x /\ \A k \in 1 .. c : Append(s, x)[k] = s[k]
    BY <2>1, AppendProperties
  <2> HIDE DEF b2, w
  <2>3. \A k \in 1 .. c + 1 : Append(s, x)[k] = b2[Place(r, k)]
    <3> TAKE k \in 1 .. c + 1
    <3>1. CASE k = c + 1
      BY <1>2, <2>2, <3>1 DEF w
    <3>2. CASE k /= c + 1
      <4>1. k \in 1 .. c
        BY <1>1, <3>2
      <4> QED
        BY <1>3, <1>4, <2>2, <4>1 DEF IsHeld
    <3> QED
      BY <3>1, <3>2
  <2> QED
    BY <2>2, <2>3 DEF IsHeld
<1>7. c + 1 \in Nat
  BY <1>1
<1> HIDE DEF b2, s
<1>8. Held(b2, r, c + 1) = Append(s, x)
  BY <1>5, <1>6, <1>7, HeldEqual
<1> QED
  BY <1>8 DEF b2, s

\* In front.
LEMMA HeldFront ==
    ASSUME NEW b \in [Slot -> Item], NEW r \in Slot, NEW c \in 0 .. Length - 1, NEW x \in Item
    PROVE  Held([b EXCEPT ![r] = x], (r - 1) % Length, c + 1) = <<x>> \o Held(b, r, c)
<1> DEFINE p == (r - 1) % Length
           b2 == [b EXCEPT ![r] = x]
           s == Held(b, r, c)
           o == <<x>>
<1>1. Length \in Nat /\ Length >= 1 /\ r \in Nat /\ r < Length
      /\ c \in Nat /\ c \in 0 .. Length /\ c + 1 \in 0 .. Length /\ c < Length
  BY QueueAssumption DEF Slot
<1>2. p = IF r = 0 THEN Length - 1 ELSE r - 1
  BY Predecessor
<1> HIDE DEF p
<1>3. p \in Slot /\ Place(p, 1) = r /\ \A k \in 1 .. c : Place(p, k + 1) = Place(r, k)
  BY <1>1, <1>2 DEF Place, Slot
<1>4. b2 \in [Slot -> Item] /\ b2[r] = x
  OBVIOUS
<1>5. IsHeld(s, b, r, c)
  BY <1>1, HeldIs
<1>6. \A k \in 1 .. c : b2[Place(r, k)] = b[Place(r, k)]
  <2> TAKE k \in 1 .. c
  <2>1. k \in 0 .. Length
    BY <1>1
  <2>2. Place(r, k) \in Slot
    BY <2>1, PlaceIs
  <2>3. Place(r, k) /= r
    BY <1>1 DEF Place
  <2> QED
    BY <2>2, <2>3
<1>7. IsHeld(Held(b2, p, c + 1), b2, p, c + 1)
  BY <1>1, <1>3, <1>4, HeldIs
<1>8. o \in Seq(Item) /\ Len(o) = 1 /\ o[1] = x
  OBVIOUS
<1> HIDE DEF b2, s, o
<1>9. IsHeld(o \o s, b2, p, c + 1)
  <2>1. s \in Seq(Item) /\ Len(s) = c
    BY <1>5 DEF IsHeld
  <2>2. /\ o \o s \in Seq(Item) /\ Len(o \o s) = Len(o) + Len(s)
        /\ \A k \in 1 .. Len(o) + Len(s) : (o \o s)[k] = IF k <= Len(o) THEN o[k] ELSE s[k - Len(o)]
    BY <1>8, <2>1, ConcatProperties
  <2>3. Len(o) + Len(s) = c + 1
    BY <1>1, <1>8, <2>1
  <2>4. ASSUME NEW k \in 1 .. c + 1
        PROVE  (o \o s)[k] = b2[Place(p, k)]
    <3>1. CASE k = 1
      <4>1. (o \o s)[1] = o[1]
        BY <1>8, <2>2, <2>3, <3>1
      <4> QED
        BY <1>3, <1>4, <1>8, <3>1, <4>1
    <3>2. CASE k /= 1
      <4>1. k - 1 \in 1 .. c /\ (k - 1) + 1 = k /\ ~ (k <= Len(o)) /\ k - Len(o) = k - 1
        BY <1>1, <1>8, <3>2
      <4>2. (o \o s)[k] = s[k - 1]
        BY <2>2, <2>3, <4>1
      <4>3. s[k - 1] = b[Place(r, k - 1)]
        BY <1>5, <4>1 DEF IsHeld
      <4> QED
        BY <1>3, <1>6, <4>1, <4>2, <4>3
    <3> QED
      BY <3>1, <3>2
  <2> QED
    BY <2>2, <2>3, <2>4 DEF IsHeld
<1>10. c + 1 \in Nat
  BY <1>1
<1>11. Held(b2, p, c + 1) = o \o s
  BY <1>7, <1>9, <1>10, HeldEqual
<1> QED
  BY <1>11 DEF b2, s, o, p

\* And without the first one.
LEMMA HeldTail ==
    ASSUME NEW b \in [Slot -> Item], NEW r \in Slot, NEW c \in 1 .. Length
    PROVE  /\ Held(b, r, c) /= <<>> /\ Head(Held(b, r, c)) = b[(r + 1) % Length]
           /\ Held(b, (r + 1) % Length, c - 1) = Tail(Held(b, r, c))
<1> DEFINE p == (r + 1) % Length
           s == Held(b, r, c)
<1>1. Length \in Nat /\ Length >= 1 /\ r \in Nat /\ r < Length
      /\ c \in Nat /\ c >= 1 /\ c <= Length /\ c \in 0 .. Length /\ c - 1 \in 0 .. Length
  BY QueueAssumption DEF Slot
<1>2. p = IF r + 1 = Length THEN 0 ELSE r + 1
  BY Successor
<1> HIDE DEF p
<1>3. p \in Slot /\ Place(r, 1) = p /\ \A k \in 1 .. c - 1 : Place(p, k) = Place(r, k + 1)
  BY <1>1, <1>2 DEF Place, Slot
<1>4. IsHeld(s, b, r, c)
  BY <1>1, HeldIs
<1>5. IsHeld(Held(b, p, c - 1), b, p, c - 1)
  BY <1>1, <1>3, HeldIs
<1> HIDE DEF s
<1>6. s \in Seq(Item) /\ Len(s) = c /\ s /= <<>>
  BY <1>1, <1>4 DEF IsHeld
<1>7. Head(s) = s[1] /\ Tail(s) \in Seq(Item) /\ Len(Tail(s)) = c - 1 /\ \A k \in 1 .. c - 1 : Tail(s)[k] = s[k + 1]
  BY <1>6, HeadTailProperties
<1>8. Head(s) = b[p]
  BY <1>1, <1>3, <1>4, <1>7 DEF IsHeld
<1>9. IsHeld(Tail(s), b, p, c - 1)
  <2>1. ASSUME NEW k \in 1 .. c - 1
        PROVE  Tail(s)[k] = b[Place(p, k)]
    <3>1. k + 1 \in 1 .. c
      BY <1>1
    <3>2. s[k + 1] = b[Place(r, k + 1)]
      BY <1>4, <3>1 DEF IsHeld
    <3> QED
      BY <1>3, <1>7, <3>2
  <2> QED
    BY <1>7, <2>1 DEF IsHeld
<1>10. Held(b, p, c - 1) = Tail(s)
  <2>1. c - 1 \in Nat
    BY <1>1
  <2> QED
    BY <1>5, <1>9, <2>1, HeldEqual
<1> QED
  BY <1>6, <1>8, <1>10 DEF s, p

LEMMA ContentsIs ==
    /\ Contents = Held(buffer, readFrom, count)
    /\ Contents' = Held(buffer', readFrom', count')
  BY DEF Contents, Held

\* Whichever operation copies an item, it is the one of the sequence.
LEMMA CopyPromised ==
    ASSUME TypeOK, Ring, NEW o \in Sends \cup Receives, o = "overwrite" => Length = 1,
           NEW x \in Item, Possible(o), Copy(o, x)
    PROVE  Promise!Next
<1>t. /\ readFrom \in Slot /\ count \in 0 .. Length /\ count \in Nat
      /\ buffer \in [Slot -> Item] /\ Length \in Nat \ {0}
  BY QueueAssumption DEF TypeOK
<1>l. Len(Contents) = count
  BY <1>t, ContentsIs, HeldIs DEF IsHeld
<1>1. CASE o = "back"
  <2>1. /\ buffer' = [buffer EXCEPT ![writeTo] = x]
        /\ readFrom' = readFrom /\ count' = count + 1 /\ out' = out /\ count < Length
    BY <1>1 DEF Sends, prvCopyDataToQueue, Copy, Possible
  <2>2. count \in 0 .. Length - 1 /\ count + 1 \in 0 .. Length /\ readFrom + (count + 1) = readFrom + 1 + count
    BY <1>t, <2>1 DEF Slot
  <2>3. writeTo = Place(readFrom, count + 1)
    BY <1>t, <2>2, PlaceIs DEF Ring
  <2>4. Contents' = Append(Contents, x)
    BY <1>t, <2>1, <2>2, <2>3, HeldBack, ContentsIs
  <2>5. Promise!SendToBack(x)
    BY <1>l, <2>1, <2>4 DEF Promise!SendToBack
  <2> QED
    BY <2>5 DEF Promise!Next
<1>2. CASE o = "front"
  <2>1. /\ buffer' = [buffer EXCEPT ![readFrom] = x] /\ readFrom' = (readFrom - 1) % Length
        /\ out' = out /\ count' = count + 1 /\ count < Length
    BY <1>2 DEF Sends, prvCopyDataToQueue, CopyToFront, Copy, Possible
  <2>2. count \in 0 .. Length - 1
    BY <1>t, <2>1
  <2>5. Held([buffer EXCEPT ![readFrom] = x], (readFrom - 1) % Length, count + 1)
        = <<x>> \o Held(buffer, readFrom, count)
    BY <1>t, <2>2, HeldFront, Zenon
  <2>3. Contents' = <<x>> \o Contents
    BY <2>1, <2>5, ContentsIs, Zenon
  <2>4. Promise!SendToFront(x)
    BY <1>l, <2>1, <2>3 DEF Promise!SendToFront
  <2> QED
    BY <2>4 DEF Promise!Next
<1>3. CASE o = "overwrite"
  <2>1. /\ buffer' = [buffer EXCEPT ![readFrom] = x] /\ readFrom' = (readFrom - 1) % Length
        /\ out' = out /\ Length = 1 /\ count' = IF count > 0 THEN count ELSE count + 1
    BY <1>3 DEF Sends, prvCopyDataToQueue, CopyToFront, Copy
  <2>2. count' = 0 + 1 /\ 0 \in 0 .. Length - 1
    BY <1>t, <2>1
  <2>7. Held([buffer EXCEPT ![readFrom] = x], (readFrom - 1) % Length, 0 + 1)
        = <<x>> \o Held(buffer, readFrom, 0)
    BY <1>t, <2>2, HeldFront, Zenon
  <2>3. Contents' = <<x>> \o Held(buffer, readFrom, 0)
    BY <2>1, <2>2, <2>7, ContentsIs, Zenon
  <2>4. Held(buffer, readFrom, 0) = <<>>
    BY DEF Held
  <2>5. Contents' = <<x>>
    <3>1. <<x>> \in Seq(Item)
      OBVIOUS
    <3>2. <<x>> \o <<>> = <<x>>
      BY <3>1, ConcatEmptySeq
    <3> QED
      BY <2>3, <2>4, <3>2, Zenon
  <2>6. Promise!Overwrite(x)
    BY <2>1, <2>5 DEF Promise!Overwrite
  <2> QED
    BY <2>6 DEF Promise!Next
<1>4. CASE o = "receive"
  <2>1. /\ readFrom' = (readFrom + 1) % Length /\ out' = buffer[(readFrom + 1) % Length] /\ count' = count - 1
        /\ buffer' = buffer /\ count > 0
    BY <1>4 DEF Sends, prvCopyDataFromQueue, Copy, Possible, First
  <2>2. count \in 1 .. Length
    BY <1>t, <2>1
  <2>3. Contents /= <<>> /\ Head(Contents) = out' /\ Contents' = Tail(Contents)
    <3>1. /\ Held(buffer, readFrom, count) /= <<>>
          /\ Head(Held(buffer, readFrom, count)) = buffer[(readFrom + 1) % Length]
          /\ Held(buffer, (readFrom + 1) % Length, count - 1) = Tail(Held(buffer, readFrom, count))
      BY <1>t, <2>2, HeldTail, Zenon
    <3> QED
      BY <2>1, <3>1, ContentsIs, Zenon
  <2>4. Promise!Receive
    BY <2>3 DEF Promise!Receive
  <2> QED
    BY <2>4 DEF Promise!Next
<1>5. CASE o = "peek"
  <2>1. /\ out' = buffer[(readFrom + 1) % Length] /\ UNCHANGED <<buffer, readFrom, count>> /\ count > 0
    BY <1>5 DEF Sends, PeekData, Copy, Possible, First
  <2>2. count \in 1 .. Length
    BY <1>t, <2>1
  <2>3. Contents /= <<>> /\ Head(Contents) = out'
    <3>1. /\ Held(buffer, readFrom, count) /= <<>>
          /\ Head(Held(buffer, readFrom, count)) = buffer[(readFrom + 1) % Length]
      BY <1>t, <2>2, HeldTail, Zenon
    <3> QED
      BY <2>1, <3>1, ContentsIs, Zenon
  <2>4. Contents' = Contents
    BY <2>1, ContentsIs
  <2>5. Promise!Peek
    BY <2>3, <2>4 DEF Promise!Peek
  <2> QED
    BY <2>5 DEF Promise!Next
<1> QED
  BY <1>1, <1>2, <1>3, <1>4, <1>5 DEF Sends, Receives

LEMMA RestPromised ==
    ASSUME UNCHANGED ring
    PROVE  UNCHANGED Promise!vars
<1>1. UNCHANGED <<buffer, readFrom, count, out>>
  BY DEF ring
<1> QED
  BY <1>1, ContentsIs DEF Promise!vars

LEMMA PromisedStep ==
    ASSUME Inv, [Next]_vars
    PROVE  [Promise!Next]_(Promise!vars)
<1>t. TypeOK /\ Ring
  BY DEF Inv, LockedByHolder
<1>1. ASSUME NEW t \in Task, Done(t)
      PROVE  Promise!Next
  <2>1. op[t] \in Sends \cup Receives /\ (op[t] = "overwrite" => Length = 1) /\ item[t] \in Item
    BY <1>1, <1>t, QueueAssumption DEF Done, At, Inv, Calls, TypeOK
  <2> QED
    BY <1>1, <1>t, <2>1, CopyPromised DEF Done
<1>2. ASSUME NEW t \in Task, xQueueReset(t)
      PROVE  Promise!Next
  <2>1. count' = 0 /\ out' = out
    BY <1>2 DEF xQueueReset
  <2>2. Contents' = <<>>
    BY <2>1 DEF Contents
  <2>3. Promise!Reset
    BY <2>1, <2>2 DEF Promise!Reset
  <2> QED
    BY <2>3 DEF Promise!Next
<1>3. CASE SendFromISR
  <2>1. PICK o \in IsrOps \cap Sends, x \in Item : Possible(o) /\ prvCopyDataToQueue(x, o)
    BY <1>3 DEF SendFromISR
  <2>2. Copy(o, x) /\ o \in Sends \cup Receives /\ (o = "overwrite" => Length = 1)
    BY <2>1, QueueAssumption DEF Copy, Sends
  <2> QED
    BY <1>t, <2>1, <2>2, CopyPromised
<1>4. CASE ReceiveFromISR
  <2>1. PICK x \in Item : TRUE
    BY QueueAssumption
  <2>2. Possible("receive") /\ Copy("receive", x) /\ "receive" \in Sends \cup Receives
    BY <1>4 DEF ReceiveFromISR, Copy, Sends, Receives
  <2> QED
    BY <1>t, <2>2, CopyPromised
<1>5. CASE PeekFromISR
  <2>1. PICK x \in Item : TRUE
    BY QueueAssumption
  <2>2. Possible("peek") /\ Copy("peek", x) /\ "peek" \in Sends \cup Receives
    BY <1>5 DEF PeekFromISR, Copy, Sends, Receives
  <2> QED
    BY <1>t, <2>2, CopyPromised
<1>6. ASSUME NEW t \in Task,
             \/ Call(t) \/ Refused(t) \/ SetTimeOutState(t) \/ prvLockQueue(t) \/ xTaskCheckForTimeOut(t)
             \/ TestAgain(t) \/ vTaskPlaceOnEventList(t) \/ UnlockTx(t) \/ UnlockRx(t)
      PROVE  UNCHANGED ring
  BY <1>6 DEF Call, Refused, SetTimeOutState, prvLockQueue, xTaskCheckForTimeOut, TestAgain,
              vTaskPlaceOnEventList, UnlockTx, UnlockRx
<1>7. CASE IncrementTick \/ UNCHANGED vars
  <2>1. UNCHANGED ring
    BY <1>7 DEF IncrementTick, vars
  <2> QED
    BY <2>1, RestPromised
<1>8. ASSUME NEW t \in Task, Call(t) \/ xQueueReset(t) \/ Step(t)
      PROVE  [Promise!Next]_(Promise!vars)
  BY <1>1, <1>2, <1>6, <1>8, RestPromised DEF Step
<1> QED
  BY <1>3, <1>4, <1>5, <1>7, <1>8 DEF Next

\* A queue of any length, used by any tasks and interrupts, is a sequence of at
\* most uxLength items on which every operation is atomic, although it lies in
\* a storage area that wraps and the calls of tasks take many steps.
THEOREM QueueIsBounded == Spec => ImplementsQueue
<1>1. Init => Promise!Init
  <2> SUFFICES ASSUME Init PROVE Promise!Init
    OBVIOUS
  <2>1. count = 0 /\ out \in Item
    BY DEF Init
  <2>2. Contents = <<>>
    BY <2>1 DEF Contents
  <2> QED
    BY <2>1, <2>2 DEF Promise!Init
<1>2. Inv /\ [Next]_vars => [Promise!Next]_(Promise!vars)
  BY PromisedStep
<1> QED
  BY <1>1, <1>2, QueueInvariant, PTL DEF Spec, ImplementsQueue, Promise!Spec
=============================================================================
