------------------------------ MODULE Scheduler ------------------------------
(***************************************************************************)
(* The FreeRTOS scheduler the firmware runs on: freertos/Source/tasks.c    *)
(* with list.c, portable/GCC/ARM_CM3 and user_config/FreeRTOSConfig.h      *)
(* (preemptive, time-sliced, port-optimised task selection).               *)
(*                                                                         *)
(* A kernel call is one step per critical section, with interrupts, and    *)
(* the other tasks they switch to, between the steps.  PendSV has the      *)
(* lowest exception priority: once it is pending the running task executes *)
(* nothing more, other interrupts still do.  A task's pc says how far it   *)
(* is in a kernel call:                                                    *)
(*   app          application code                                         *)
(*   locked       application code between vTaskSuspendAll and             *)
(*                xTaskResumeAll                                           *)
(*   block        in a blocking call, scheduler suspended, not listed yet  *)
(*   blockResume  the same call, before its xTaskResumeAll                 *)
(*   blockUnwind, lockUnwind   in the critical section of xTaskResumeAll,  *)
(*                with pended ticks to process                             *)
(*   yield        a call about to request a context switch                 *)
(*   reset        a call about to run prvResetNextTaskUnblockTime          *)
(*                                                                         *)
(* The kernel's lists are kept by membership: which list holds a task's    *)
(* xGenericListItem (container) and its xEventListItem (event).  The order *)
(* inside a list is the subject of module KernelList; here the choice      *)
(* among tasks of one ready list, and of one event list, is left open.     *)
(***************************************************************************)
EXTENDS Integers, FiniteSets

CONSTANTS
    Task,           \* the task control blocks, the idle task among them
    Idle,
    MaxPriority,    \* configMAX_PRIORITIES - 1
    MaxEvent,       \* event lists 1 .. MaxEvent: the waiting lists of queues
    MaxTick,        \* portMAX_DELAY: the tick count is modulo MaxTick + 1
    MaxPended,      \* bound: ticks that arrive while the scheduler is suspended
    MaxNesting      \* bound: nested vTaskSuspendAll of the application

ASSUME SchedulerAssumption ==
    /\ IsFiniteSet(Task) /\ Idle \in Task
    /\ MaxPriority \in Nat /\ MaxEvent \in Nat
    /\ MaxTick \in Nat \ {0}
    /\ MaxPended \in Nat /\ MaxNesting \in Nat

Priority == 0 .. MaxPriority
Event == 1 .. MaxEvent
Tick == 0 .. MaxTick

\* Addresses of the lists a task's xGenericListItem can be in: ready list p is
\* p itself; and of those its xEventListItem can be in, besides Event.
DelayedList == -1
OverflowList == -2
SuspendedList == -3
TerminationList == -4
NotCreated == -5
Container == Priority \cup {DelayedList, OverflowList, SuspendedList, TerminationList, NotCreated}
NoEvent == 0
PendingReadyList == -1

VARIABLES
    container,      \* list holding xGenericListItem of each task
    event,          \* list holding xEventListItem of each task
    wake,           \* value of xGenericListItem: the tick to wake at
    prio,           \* uxPriority
    topReady,       \* uxTopReadyPriority, as the set of bits that are 1
    current,        \* pxCurrentTCB
    pc,
    tick, pended, nextUnblock,      \* xTickCount, uxPendedTicks, xNextTaskUnblockTime
    suspended, yieldPending,        \* uxSchedulerSuspended, xYieldPending
    pendSV,
    left            \* history: ticks still to be counted before the task's
                    \* timeout, counted down from what the task asked for

lists == <<container, event, wake, prio, topReady>>
clock == <<tick, pended, nextUnblock>>
vars == <<lists, current, pc, clock, suspended, yieldPending, pendSV, left>>

Least(S) == CHOOSE x \in S : \A y \in S : x <= y
Most(S) == CHOOSE x \in S : \A y \in S : x >= y

Members(c, l) == {t \in Task : c[t] = l}
Ready(t) == container[t] \in Priority
Delayed(t) == container[t] \in {DelayedList, OverflowList}

Init ==
    /\ prio \in [Task -> Priority] /\ prio[Idle] = 0
    /\ container = prio
    /\ topReady = {prio[t] : t \in Task}
    /\ current \in {t \in Task : \A u \in Task : prio[u] <= prio[t]}
    /\ event = [t \in Task |-> NoEvent]
    /\ wake = [t \in Task |-> 0]
    /\ pc = [t \in Task |-> "app"]
    /\ tick = 0 /\ pended = 0 /\ nextUnblock = MaxTick
    /\ suspended = 0 /\ yieldPending = FALSE /\ pendSV = FALSE
    /\ left = [t \in Task |-> 0]
-----------------------------------------------------------------------------
(* List operations and the bitmap of ready priorities *)

\* Mutant: the bit is cleared whatever is left in the list.
AfterRemoval_always(t, bits) == IF Ready(t) THEN bits \ {container[t]} ELSE bits

\* portRESET_READY_PRIORITY: uxListRemove left the ready list l empty.
AfterRemoval(t, bits) ==
    IF Ready(t) /\ Members(container, container[t]) = {t} THEN bits \ {container[t]} ELSE bits

\* uxListRemove from whatever list holds t, then vListInsert into l.
MoveTo(t, l) ==
    /\ container' = [container EXCEPT ![t] = l]
    /\ topReady' = AfterRemoval(t, topReady)

\* prvAddTaskToReadyList after a removal, with the priority the task has by then.
MoveToReady(t, p) ==
    /\ container' = [container EXCEPT ![t] = p]
    /\ topReady' = AfterRemoval(t, topReady) \cup {p}

\* Item value at the head of the delayed list.
FirstWake(c) ==
    IF Members(c, DelayedList) = {} THEN MaxTick
    ELSE Least({wake[t] : t \in Members(c, DelayedList)})

prvResetNextTaskUnblockTime == nextUnblock' = FirstWake(container)

\* prvAddCurrentTaskToDelayedList, the current task being in its ready list.
prvAddCurrentTaskToDelayedList(d) ==
    LET w == (tick + d) % (MaxTick + 1) IN
    /\ wake' = [wake EXCEPT ![current] = w]
    /\ left' = [left EXCEPT ![current] = d]
    /\ IF w < tick
       THEN MoveTo(current, OverflowList) /\ UNCHANGED nextUnblock
       ELSE /\ MoveTo(current, DelayedList)
            /\ nextUnblock' = IF w < nextUnblock THEN w ELSE nextUnblock
-----------------------------------------------------------------------------
(* The tick *)

\* Mutant: the lists are not exchanged when the tick count wraps.
Switched_not(c) == c

\* taskSWITCH_DELAYED_LISTS exchanges the two list pointers.
Switched(c) ==
    [t \in Task |-> CASE c[t] = DelayedList -> OverflowList
                      [] c[t] = OverflowList -> DelayedList
                      [] OTHER -> c[t]]

\* Body of xTaskIncrementTick with the scheduler running: the new tick, the
\* containers after a possible exchange, the unblock time then, the tasks due.
NewTick == (tick + 1) % (MaxTick + 1)
NewLists == IF NewTick = 0 THEN Switched(container) ELSE container
\* Mutant: the unblock time is not computed again for the exchanged lists.
NewUnblock_stale == nextUnblock

NewUnblock == IF NewTick = 0 THEN FirstWake(NewLists) ELSE nextUnblock
Due == IF NewTick >= NewUnblock
       THEN {t \in Members(NewLists, DelayedList) : wake[t] <= NewTick} ELSE {}
Woken(c) == [t \in Task |-> IF t \in Due THEN prio[t] ELSE c[t]]

IncrementTick ==
    /\ tick' = NewTick
    /\ container' = Woken(NewLists)
    /\ event' = [t \in Task |-> IF t \in Due THEN NoEvent ELSE event[t]]
    /\ topReady' = topReady \cup {prio[t] : t \in Due}
    /\ nextUnblock' = IF NewTick >= NewUnblock THEN FirstWake(Woken(NewLists)) ELSE NewUnblock
    /\ left' = [t \in Task |-> IF left[t] > 0 THEN left[t] - 1 ELSE 0]
    /\ UNCHANGED <<wake, prio>>

\* What xTaskIncrementTick returns.
SwitchRequired ==
    \/ \E t \in Due : prio[t] >= prio[current]
    \/ Cardinality(Members(Woken(NewLists), prio[current])) > 1
    \/ yieldPending

InterruptsEnabled == pc[current] \notin {"blockUnwind", "lockUnwind"}

\* xPortSysTickHandler
SysTick ==
    /\ InterruptsEnabled
    /\ IF suspended = 0
       THEN /\ IncrementTick
            /\ pendSV' = (pendSV \/ SwitchRequired)
            /\ UNCHANGED pended
       ELSE /\ pended < MaxPended
            /\ pended' = pended + 1
            /\ pendSV' = (pendSV \/ yieldPending)
            /\ UNCHANGED <<lists, tick, nextUnblock, left>>
    /\ UNCHANGED <<current, pc, suspended, yieldPending>>

\* xPortPendSVHandler and vTaskSwitchContext.  clz of the bitmap selects a
\* ready list, its round robin a task.
vTaskSwitchContext ==
    /\ pendSV /\ InterruptsEnabled
    /\ pendSV' = FALSE
    /\ IF suspended > 0
       THEN yieldPending' = TRUE /\ UNCHANGED current
       ELSE yieldPending' = FALSE /\ current' \in Members(container, Most(topReady))
    /\ UNCHANGED <<lists, pc, clock, suspended, left>>
-----------------------------------------------------------------------------
(* Waking a task that waits on an event list *)

\* xTaskRemoveFromEventList for the waiter t at the head of a list, and what
\* it returns.
RemoveFromEventList(t) ==
    /\ IF suspended = 0
       THEN MoveToReady(t, prio[t]) /\ event' = [event EXCEPT ![t] = NoEvent]
       ELSE event' = [event EXCEPT ![t] = PendingReadyList] /\ UNCHANGED <<container, topReady>>
    /\ yieldPending' = (yieldPending \/ prio[t] > prio[current])
    /\ left' = [left EXCEPT ![t] = IF suspended = 0 THEN 0 ELSE @]
    /\ UNCHANGED <<wake, prio>>

Wakes(t) == prio[t] > prio[current]

\* An interrupt signals an event: xQueueGenericSendFromISR and its likes, with
\* portEND_SWITCHING_ISR of the result.
SignalFromISR ==
    /\ InterruptsEnabled
    /\ \E t \in Task :
        /\ event[t] \in Event
        /\ RemoveFromEventList(t)
        /\ pendSV' = (pendSV \/ Wakes(t))
    /\ UNCHANGED <<current, pc, clock, suspended>>

\* prvTaskIsTaskSuspended
IsTaskSuspended(t) == container[t] = SuspendedList /\ event[t] = NoEvent

\* Mutant: the task is left pending although the scheduler runs.
xTaskResumeFromISR_pending ==
    /\ InterruptsEnabled
    /\ \E t \in Task :
        /\ IsTaskSuspended(t)
        /\ event' = [event EXCEPT ![t] = PendingReadyList]
    /\ UNCHANGED <<container, topReady, wake, prio, current, pc, clock, suspended,
                   yieldPending, pendSV, left>>

xTaskResumeFromISR ==
    /\ InterruptsEnabled
    /\ \E t \in Task :
        /\ IsTaskSuspended(t)
        /\ IF suspended = 0
           THEN /\ MoveToReady(t, prio[t])
                /\ pendSV' = (pendSV \/ prio[t] >= prio[current])
                /\ UNCHANGED event
           ELSE /\ event' = [event EXCEPT ![t] = PendingReadyList]
                /\ UNCHANGED <<container, topReady, pendSV>>
    /\ UNCHANGED <<wake, prio, current, pc, clock, suspended, yieldPending, left>>
-----------------------------------------------------------------------------
(* Calls of the running task *)

At(l) == ~pendSV /\ pc[current] = l
Goto(l) == pc' = [pc EXCEPT ![current] = l]
Calling == At("app") \/ At("locked")
Return == Goto(IF suspended > 0 THEN "locked" ELSE "app")

\* taskYIELD, vTaskDelay(0), and the last step of the calls that must switch.
Yield ==
    /\ Calling \/ At("yield")
    /\ pendSV' = TRUE
    /\ Return
    /\ UNCHANGED <<lists, current, clock, suspended, yieldPending, left>>

\* vTaskSuspendAll of the application, and of pvPortMalloc and vPortFree.
vTaskSuspendAll ==
    /\ Calling /\ suspended < MaxNesting
    /\ suspended' = suspended + 1
    /\ Goto("locked")
    /\ UNCHANGED <<lists, current, clock, yieldPending, pendSV, left>>

\* The delays and the blocking path of the queue functions start alike.  The
\* idle task may not block.
BlockStart ==
    /\ At("app") /\ current /= Idle
    /\ suspended' = suspended + 1
    /\ Goto("block")
    /\ UNCHANGED <<lists, current, clock, yieldPending, pendSV, left>>

vTaskDelay(d) ==
    /\ At("block")
    /\ prvAddCurrentTaskToDelayedList(d)
    /\ Goto("blockResume")
    /\ UNCHANGED <<event, prio, current, tick, pended, suspended, yieldPending, pendSV>>

\* A wait of portMAX_DELAY ticks has no timeout.
vTaskPlaceOnEventList(e, d) ==
    /\ At("block")
    /\ event' = [event EXCEPT ![current] = e]
    /\ IF d = MaxTick
       THEN MoveTo(current, SuspendedList) /\ UNCHANGED <<wake, nextUnblock, left>>
       ELSE prvAddCurrentTaskToDelayedList(d)
    /\ Goto("blockResume")
    /\ UNCHANGED <<prio, current, tick, pended, suspended, yieldPending, pendSV>>

\* vTaskDelayUntil for a wake time that has passed, and a queue function that
\* finds, once the scheduler is suspended, that it need not wait.
NotListed ==
    /\ At("block")
    /\ Goto("blockResume")
    /\ UNCHANGED <<lists, current, clock, suspended, yieldPending, pendSV, left>>

\* Mutant: the tick count is taken not to have wrapped since the last call.
ShouldDelay_plain(previous, w) == w < previous \/ w > tick

\* xShouldDelay: is w, increment ticks after previous, still to come?  If the
\* tick count has wrapped since previous, w must have wrapped as well.
ShouldDelay(previous, w) ==
    IF tick < previous
    THEN w < previous /\ w > tick
    ELSE w < previous \/ w > tick

WakeTime(previous, increment) == (previous + increment) % (MaxTick + 1)

vTaskDelayUntil(previous, increment) ==
    LET w == WakeTime(previous, increment) IN
    IF ShouldDelay(previous, w) THEN vTaskDelay((w - tick) % (MaxTick + 1)) ELSE NotListed

Block ==
    \E d \in 1 .. MaxTick :
        \/ vTaskDelay(d)
        \/ \E e \in Event : vTaskPlaceOnEventList(e, d)
        \/ \E previous \in Tick : vTaskDelayUntil(previous, d)

\* xTaskResumeAll: the pending ready tasks are moved when the nesting ends ...
PendingReady == {t \in Task : event[t] = PendingReadyList}

\* Mutant: no switch is recorded for the tasks that become ready here.
xTaskResumeAll_unyielding ==
    /\ At("blockResume") \/ At("locked")
    /\ suspended' = suspended - 1
    /\ IF suspended = 1
       THEN /\ container' = [t \in Task |-> IF t \in PendingReady THEN prio[t] ELSE container[t]]
            /\ event' = [t \in Task |-> IF t \in PendingReady THEN NoEvent ELSE event[t]]
            /\ topReady' = topReady \cup {prio[t] : t \in PendingReady}
            /\ left' = [t \in Task |-> IF t \in PendingReady THEN 0 ELSE left[t]]
            /\ Goto(IF pc[current] = "locked" THEN "lockUnwind" ELSE "blockUnwind")
       ELSE UNCHANGED <<container, event, topReady, left, pc>>
    /\ UNCHANGED <<wake, prio, current, clock, yieldPending, pendSV>>

xTaskResumeAll ==
    /\ At("blockResume") \/ At("locked")
    /\ suspended' = suspended - 1
    /\ IF suspended = 1
       THEN /\ container' = [t \in Task |-> IF t \in PendingReady THEN prio[t] ELSE container[t]]
            /\ event' = [t \in Task |-> IF t \in PendingReady THEN NoEvent ELSE event[t]]
            /\ topReady' = topReady \cup {prio[t] : t \in PendingReady}
            /\ yieldPending' = (yieldPending \/ \E t \in PendingReady : prio[t] >= prio[current])
            /\ left' = [t \in Task |-> IF t \in PendingReady THEN 0 ELSE left[t]]
            /\ Goto(IF pc[current] = "locked" THEN "lockUnwind" ELSE "blockUnwind")
       ELSE UNCHANGED <<container, event, topReady, yieldPending, left, pc>>
    /\ UNCHANGED <<wake, prio, current, clock, pendSV>>

\* ... then the pended ticks are processed one by one ...
UnwindTick ==
    /\ At("blockUnwind") \/ At("lockUnwind")
    /\ pended > 0
    /\ pended' = pended - 1
    /\ IncrementTick
    /\ yieldPending' = SwitchRequired
    /\ UNCHANGED <<current, pc, suspended, pendSV>>

\* ... and a switch that is due by then is requested before interrupts are
\* enabled.  A blocking call that has not yielded this way does so itself.
ResumeDone ==
    /\ At("blockUnwind") \/ At("lockUnwind")
    /\ pended = 0
    /\ pendSV' = yieldPending
    /\ Goto(IF pc[current] = "blockUnwind" /\ ~yieldPending THEN "yield" ELSE "app")
    /\ UNCHANGED <<lists, current, clock, suspended, yieldPending, left>>

\* The yield comes after the critical section.
xTaskGenericCreate(t, p) ==
    /\ Calling
    /\ t /= current /\ container[t] = NotCreated
    /\ prio' = [prio EXCEPT ![t] = p]
    /\ container' = [container EXCEPT ![t] = p]
    /\ topReady' = topReady \cup {p}
    /\ event' = [event EXCEPT ![t] = NoEvent]
    /\ wake' = [wake EXCEPT ![t] = 0]
    /\ pc' = [pc EXCEPT ![t] = "app",
                       ![current] = IF prio[current] < p THEN "yield" ELSE @]
    /\ UNCHANGED <<current, clock, suspended, yieldPending, pendSV, left>>

\* vTaskSuspend and vTaskDelete take the task off both its lists; the current
\* task then yields, for another one the unblock time is computed again, in
\* a critical section of its own.  Nothing in the code keeps an application
\* from doing this to the idle task; the kernel's contract does (one task is
\* always ready), as it keeps the idle task at priority 0.
TakeOff(t, l) ==
    /\ Calling
    /\ t /= Idle /\ container[t] \notin {NotCreated, TerminationList}
    /\ t = current => At("app")
    /\ MoveTo(t, l)
    /\ event' = [event EXCEPT ![t] = NoEvent]
    /\ left' = [left EXCEPT ![t] = 0]
    /\ UNCHANGED <<wake, prio, current, clock, suspended, yieldPending, pendSV>>

vTaskSuspend(t) == TakeOff(t, SuspendedList) /\ Goto(IF t = current THEN "yield" ELSE "reset")

vTaskDelete(t) == TakeOff(t, TerminationList) /\ Goto(IF t = current THEN "yield" ELSE "reset")

ResetUnblockTime ==
    /\ At("reset")
    /\ prvResetNextTaskUnblockTime
    /\ Return
    /\ UNCHANGED <<lists, current, tick, pended, suspended, yieldPending, pendSV, left>>

vTaskResume(t) ==
    /\ Calling /\ t /= current
    /\ IsTaskSuspended(t)
    /\ MoveToReady(t, prio[t])
    /\ pendSV' = (prio[t] >= prio[current])
    /\ UNCHANGED <<event, wake, prio, current, pc, clock, suspended, yieldPending, left>>

\* Without a mutex held the base priority is the priority.
vTaskPrioritySet(t, p) ==
    /\ Calling
    /\ t /= Idle /\ container[t] \notin {NotCreated, TerminationList}
    /\ p /= prio[t]
    /\ prio' = [prio EXCEPT ![t] = p]
    /\ IF container[t] = prio[t] THEN MoveToReady(t, p) ELSE UNCHANGED <<container, topReady>>
    /\ pendSV' = IF p > prio[t] THEN t /= current /\ p >= prio[current] ELSE t = current
    /\ UNCHANGED <<event, wake, current, pc, clock, suspended, yieldPending, left>>

\* The running task signals an event: xQueueGenericSend and its likes.
Signal ==
    /\ Calling
    /\ \E t \in Task :
        /\ event[t] \in Event
        /\ RemoveFromEventList(t)
        /\ pendSV' = Wakes(t)
    /\ UNCHANGED <<current, pc, clock, suspended>>

\* prvUnlockQueue in a blocking call, after the task has listed itself: what
\* an interrupt posted to the locked queue wakes a waiter now, the caller
\* itself perhaps, and vTaskMissedYield records the switch.
UnlockQueue ==
    /\ At("blockResume")
    /\ \E t \in Task : event[t] \in Event /\ RemoveFromEventList(t)
    /\ UNCHANGED <<current, pc, clock, suspended, pendSV>>

\* prvCheckTasksWaitingTermination: the idle task frees a deleted task.
IdleReap ==
    /\ At("app") /\ current = Idle
    /\ \E t \in Members(container, TerminationList) :
        container' = [container EXCEPT ![t] = NotCreated]
    /\ UNCHANGED <<event, wake, prio, topReady, current, pc, clock, suspended,
                   yieldPending, pendSV, left>>

Manage ==
    \E t \in Task :
        \/ vTaskSuspend(t) \/ vTaskDelete(t) \/ vTaskResume(t)
        \/ \E p \in Priority : xTaskGenericCreate(t, p) \/ vTaskPrioritySet(t, p)

Resume == xTaskResumeAll \/ UnwindTick \/ ResumeDone

Next ==
    \/ SysTick \/ vTaskSwitchContext \/ SignalFromISR \/ xTaskResumeFromISR
    \/ Yield \/ vTaskSuspendAll \/ BlockStart \/ Block \/ Resume
    \/ ResetUnblockTime \/ Manage \/ Signal \/ UnlockQueue \/ IdleReap

Spec == Init /\ [][Next]_vars

\* The tick interrupt keeps coming and stays pending while a critical section
\* masks it (strong fairness), the switch it or a call requests is taken, a
\* call goes on to its end, and the application leaves what it locked, although
\* it may yield in between (strong fairness again).
Fairness ==
    /\ SF_vars(SysTick)
    /\ WF_vars(vTaskSwitchContext)
    /\ WF_vars(Block \/ UnwindTick \/ ResumeDone \/ ResetUnblockTime \/ (At("yield") /\ Yield))
    /\ SF_vars(xTaskResumeAll)
    /\ SF_vars(xTaskResumeAll /\ suspended = 1)

FairSpec == Spec /\ Fairness
-----------------------------------------------------------------------------
TypeOK ==
    /\ container \in [Task -> Container]
    /\ event \in [Task -> Event \cup {NoEvent, PendingReadyList}]
    /\ wake \in [Task -> Tick]
    /\ prio \in [Task -> Priority]
    /\ topReady \subseteq Priority
    /\ current \in Task
    /\ pc \in [Task -> {"app", "locked", "block", "blockResume", "blockUnwind",
                      "lockUnwind", "yield", "reset"}]
    /\ tick \in Tick /\ pended \in Nat /\ nextUnblock \in Tick
    /\ suspended \in Nat
    /\ yieldPending \in BOOLEAN /\ pendSV \in BOOLEAN
    /\ left \in [Task -> Tick]

\* The bitmap the port selects from has exactly the bits of the ready lists
\* that are not empty, every ready task is in the list of the priority it has
\* now and in no event list, and the idle task is ready: vTaskSwitchContext
\* (tasks.c:2160) always finds a task.
ReadyListsAgree ==
    /\ topReady = {p \in Priority : Members(container, p) /= {}}
    /\ \A t \in Task : Ready(t) => container[t] = prio[t] /\ event[t] = NoEvent
    /\ Ready(Idle)

\* Whenever the running task executes application code with the scheduler
\* running and no switch pending, it is ready and no ready task has a higher
\* priority: no path that readies, blocks or reorders tasks forgets to switch.
HighestPriorityRuns ==
    ~pendSV /\ pc[current] = "app" =>
        Ready(current) /\ \A t \in Task : Ready(t) => prio[t] <= prio[current]

\* Outside xTaskResumeAll a running scheduler has no task left in the pending
\* ready list and no tick left unprocessed (tasks.c:1606, 1629).
NothingLeftPending ==
    suspended = 0 =>
        /\ PendingReady = {}
        /\ pended > 0 => pc[current] \in {"blockUnwind", "lockUnwind"}

\* A tick readies exactly the delayed tasks whose time has run out, whatever
\* lists they moved through: no timeout is early, and none is late, not when
\* the tick count wraps either (tasks.c:1864-1960, 2884-2911).
DelayIsExact ==
    [][tick' /= tick => \A t \in Task : Delayed(t) => (Delayed(t)' <=> left[t] > 1)]_vars

\* Every delay ends (vTaskDelay, and the timeout of a blocking call), although
\* the application locks the scheduler again and again.
DelaysEnd == \A t \in Task : Delayed(t) ~> ~Delayed(t)
=============================================================================
