---------------------------- MODULE PeriodicTask ----------------------------
(***************************************************************************)
(* The use vTaskDelayUntil is made for: a task keeps the tick it was last  *)
(* due in a variable of its own, which it sets once with xTaskGetTickCount *)
(* and then leaves to vTaskDelayUntil.  The kernel underneath is Scheduler *)
(* with all its calls, so the task may also be delayed, block, be locked   *)
(* out, suspended or deleted.                                              *)
(***************************************************************************)
EXTENDS Scheduler

VARIABLES
    previous,   \* *pxPreviousWakeTime of each task
    since       \* history: ticks counted since previous, negative while it
                \* is still to come; OutOfStep once the call lost track

Periodic == Task \ {Idle}

\* The wake time is more than one round of the tick count behind, or a task
\* was suspended and resumed in its delay and called again too early.
OutOfStep == MaxTick + 1

Aged == [t \in Periodic |-> IF since[t] = OutOfStep THEN OutOfStep ELSE since[t] + 1]

PeriodicInit ==
    /\ Init
    /\ previous = [t \in Periodic |-> 0]
    /\ since = [t \in Periodic |-> OutOfStep]

\* xLastWakeTime = xTaskGetTickCount()
xTaskGetTickCount ==
    /\ At("app") /\ current \in Periodic
    /\ previous' = [previous EXCEPT ![current] = tick]
    /\ since' = [since EXCEPT ![current] = 0]
    /\ UNCHANGED vars

DelayUntil(increment) ==
    /\ current \in Periodic
    /\ vTaskDelayUntil(previous[current], increment)
    /\ previous' = [previous EXCEPT ![current] = WakeTime(@, increment)]
    /\ since' = [since EXCEPT ![current] =
                    IF @ \in 0 .. MaxTick THEN @ - increment ELSE OutOfStep]

\* Every other step of the kernel.
Kernel ==
    /\ Next
    /\ since' = IF tick' = tick THEN since ELSE Aged
    /\ UNCHANGED previous

PeriodicNext ==
    \/ xTaskGetTickCount
    \/ \E increment \in 1 .. MaxTick : DelayUntil(increment)
    \/ Kernel

PeriodicSpec ==
    PeriodicInit /\ [][PeriodicNext]_<<vars, previous, since>> /\ Fairness
-----------------------------------------------------------------------------
\* A periodic task is never off its schedule: it sleeps exactly when its next
\* wake time is still to come, and for exactly the ticks that are missing,
\* wherever the tick count, the last wake time or the next one have wrapped.
\* With DelayIsExact it wakes on that tick, so that delays do not add up.
OnSchedule ==
    [][\A increment \in 1 .. MaxTick :
          DelayUntil(increment) /\ since[current] \in 0 .. MaxTick =>
              IF since[current] < increment
              THEN Delayed(current)' /\ left'[current] = increment - since[current]
              ELSE UNCHANGED <<container, left>>]_<<vars, previous, since>>
=============================================================================
