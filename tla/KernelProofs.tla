----------------------------- MODULE KernelProofs -----------------------------
(***************************************************************************)
(* Theorems of the kernel: of Scheduler, of PeriodicTask, which adds the   *)
(* caller of vTaskDelayUntil to it, and of KernelList, the lists both are  *)
(* built on; for every set of tasks, number of priorities, width of the    *)
(* tick count and use of the kernel, any set of list items, any            *)
(* portMAX_DELAY and any order of the calls.                               *)
(***************************************************************************)
EXTENDS PeriodicTask, KernelList, SequenceTheorems, FiniteSetTheorems,
        WellFoundedInduction, TLAPS

\* A set of natural numbers that is not empty has a least element: what Least
\* chooses is one of its elements.
LEMMA LeastExists ==
    ASSUME NEW S \in SUBSET Nat, S /= {}
    PROVE  Least(S) \in S /\ \A y \in S : Least(S) <= y
<1>1. PICK x \in S : \A y \in S : ~ (<<y, x>> \in OpToRel(<, Nat))
  BY NatLessThanWellFounded, WFMin
<1>2. \A y \in S : ~ (y < x)
  BY <1>1 DEF OpToRel
<1>3. \A y \in S : x <= y
  BY <1>2
<1> QED
  BY <1>3 DEF Least
-----------------------------------------------------------------------------
(* The inductive invariant *)

\* Only the running task is in a call that suspended the scheduler or that
\* masks interrupts, and no switch is pending while it masks them.
CallState ==
    /\ \A t \in Task : pc[t] \in {"locked", "block", "blockResume"} => t = current /\ suspended > 0
    /\ \A t \in Task : pc[t] \in {"blockUnwind", "lockUnwind"} =>
                            t = current /\ suspended = 0 /\ ~pendSV
    /\ pc[Idle] \notin {"block", "blockResume", "blockUnwind"}
    /\ suspended > 0 => pc[current] \in {"locked", "block", "blockResume", "yield", "reset"}

\* A switch that is due is pending in PendSV, or in xYieldPending while the
\* scheduler is suspended and until xTaskResumeAll has looked at it.
SwitchIsDue ==
    \/ pendSV
    \/ yieldPending /\ (suspended > 0 \/ pc[current] = "lockUnwind")
    \/ pc[current] \in {"block", "blockResume", "blockUnwind", "yield"}
    \/ Ready(current) /\ \A t \in Task : Ready(t) => prio[t] <= prio[current]

\* Where a delayed task is, and the tick it wakes at, agree with the ticks it
\* still has to wait, and the unblock time is not beyond any of them.
DelaysAgree ==
    \A t \in Task : Delayed(t) =>
        /\ left[t] >= 1
        /\ IF container[t] = DelayedList
           THEN wake[t] = tick + left[t] /\ nextUnblock <= wake[t]
           ELSE wake[t] = tick + left[t] - (MaxTick + 1)

IInv ==
    /\ TypeOK /\ CallState /\ ReadyListsAgree /\ NothingLeftPending
    /\ SwitchIsDue /\ DelaysAgree
-----------------------------------------------------------------------------
(* Lemmas about the operations *)

\* The item value at the head of the delayed list is a tick, and no task in
\* that list is to be woken before it.
LEMMA FirstWakeIsLeast ==
    ASSUME TypeOK, NEW c \in [Task -> Container]
    PROVE  /\ FirstWake(c) \in Tick
           /\ \A t \in Task : c[t] = DelayedList => FirstWake(c) <= wake[t]
<1> DEFINE W == {wake[t] : t \in Members(c, DelayedList)}
<1>1. W \subseteq Tick /\ W \in SUBSET Nat
  BY SchedulerAssumption DEF TypeOK, Members, Tick
<1>2. CASE Members(c, DelayedList) = {}
  BY <1>2, SchedulerAssumption DEF FirstWake, Members, Tick
<1>3. CASE Members(c, DelayedList) /= {}
  <2>1. W /= {}
    BY <1>3
  <2>2. Least(W) \in W /\ \A y \in W : Least(W) <= y
    <3> HIDE DEF W
    <3> QED
      BY <1>1, <2>1, LeastExists
  <2>3. FirstWake(c) = Least(W)
    BY <1>3 DEF FirstWake
  <2> QED
    BY <1>1, <2>2, <2>3 DEF Members
<1> QED
  BY <1>2, <1>3

\* What clz of the bitmap selects: the highest of the priorities in it.
LEMMA MostExists ==
    ASSUME NEW S \in SUBSET Priority, S /= {}
    PROVE  Most(S) \in S /\ \A y \in S : y <= Most(S)
<1> DEFINE D == {MaxPriority - x : x \in S}
<1>1. D \in SUBSET Nat /\ D /= {}
  BY SchedulerAssumption DEF Priority
<1>2. Least(D) \in D /\ \A y \in D : Least(D) <= y
  <2> HIDE DEF D
  <2> QED
    BY <1>1, LeastExists
<1>3. PICK x \in S : Least(D) = MaxPriority - x
  BY <1>2
<1>4. \A y \in S : MaxPriority - x <= MaxPriority - y
  BY <1>2, <1>3
<1>5. \A y \in S : y <= x
  BY <1>4, SchedulerAssumption DEF Priority
<1> QED
  BY <1>5 DEF Most

\* The lists after a tick: tasks only move between the two delayed lists and
\* from there to the ready list of their priority.
LEMMA TickTypes ==
    ASSUME TypeOK
    PROVE  /\ NewTick \in Tick /\ NewUnblock \in Tick
           /\ NewLists \in [Task -> Container]
           /\ Woken(NewLists) \in [Task -> Container]
           /\ Due \subseteq {t \in Task : Delayed(t)}
<1>1. NewTick \in Tick
  BY SchedulerAssumption DEF TypeOK, NewTick, Tick
<1>2. Switched(container) \in [Task -> Container]
  BY DEF TypeOK, Switched, Container
<1>3. NewLists \in [Task -> Container]
  BY <1>2 DEF TypeOK, NewLists
<1>4. NewUnblock \in Tick
  BY <1>3, FirstWakeIsLeast DEF NewUnblock, TypeOK
<1>5. Woken(NewLists) \in [Task -> Container]
  BY <1>3 DEF Woken, TypeOK, Container
<1>6. Due \subseteq {t \in Task : Delayed(t)}
  BY SchedulerAssumption DEF Due, NewLists, Members, Delayed, Switched, DelayedList, OverflowList
<1> QED
  BY <1>1, <1>3, <1>4, <1>5, <1>6

\* vTaskDelayUntil is a delay of one tick at least, or none at all: a wake
\* time that xShouldDelay holds for is not the present tick.
LEMMA UntilCases ==
    ASSUME TypeOK, NEW p \in Tick, NEW n \in 1 .. MaxTick, vTaskDelayUntil(p, n)
    PROVE  (\E d \in 1 .. MaxTick : vTaskDelay(d)) \/ NotListed
<1> DEFINE w == WakeTime(p, n)
<1>1. w \in Tick /\ tick \in Tick
  BY SchedulerAssumption DEF WakeTime, Tick, TypeOK
<1>2. ASSUME ShouldDelay(p, w) PROVE (w - tick) % (MaxTick + 1) \in 1 .. MaxTick
  <2>1. w /= tick
    BY <1>1, <1>2, SchedulerAssumption DEF ShouldDelay, Tick
  <2> HIDE DEF w
  <2> QED
    BY <1>1, <2>1, SchedulerAssumption DEF Tick
<1>3. CASE ShouldDelay(p, w)
  BY <1>2, <1>3 DEF vTaskDelayUntil
<1>4. CASE ~ShouldDelay(p, w)
  BY <1>4 DEF vTaskDelayUntil
<1> QED
  BY <1>3, <1>4
-----------------------------------------------------------------------------
(* Type correctness *)

\* Every step keeps the types.
LEMMA TypeStep ==
    ASSUME TypeOK, CallState, [Next]_vars
    PROVE  TypeOK'
<1>a. \A t \in Task : AfterRemoval(t, topReady) \subseteq Priority
  BY DEF TypeOK, AfterRemoval
<1>b. ASSUME NEW t \in Task, RemoveFromEventList(t)
      PROVE  /\ container' \in [Task -> Container]
             /\ event' \in [Task -> Event \cup {NoEvent, PendingReadyList}]
             /\ topReady' \subseteq Priority
             /\ yieldPending' \in BOOLEAN
             /\ left' \in [Task -> Tick]
             /\ UNCHANGED <<wake, prio>>
  BY <1>a, <1>b, SchedulerAssumption DEF TypeOK, RemoveFromEventList, MoveToReady, Container, Tick
<1>c. [t \in Task |-> IF left[t] > 0 THEN left[t] - 1 ELSE 0] \in [Task -> Tick]
  BY SchedulerAssumption DEF TypeOK, Tick
<1>d. ASSUME NEW d \in 1 .. MaxTick, prvAddCurrentTaskToDelayedList(d)
      PROVE  /\ container' \in [Task -> Container] /\ topReady' \subseteq Priority
             /\ wake' \in [Task -> Tick] /\ left' \in [Task -> Tick]
             /\ nextUnblock' \in Tick
  <2>1. (tick + d) % (MaxTick + 1) \in Tick
    BY SchedulerAssumption DEF TypeOK, Tick
  <2> QED
    BY <1>a, <1>d, <2>1, SchedulerAssumption
    DEF TypeOK, prvAddCurrentTaskToDelayedList, MoveTo, Container, Tick
<1>e. ASSUME IncrementTick
      PROVE  /\ container' \in [Task -> Container] /\ topReady' \subseteq Priority
             /\ event' \in [Task -> Event \cup {NoEvent, PendingReadyList}]
             /\ tick' \in Tick /\ nextUnblock' \in Tick /\ left' \in [Task -> Tick]
             /\ UNCHANGED <<wake, prio>>
  <2>1. Due \subseteq Task
    BY TickTypes
  <2>2. topReady' \subseteq Priority
    BY <1>e, <2>1 DEF TypeOK, IncrementTick
  <2>3. nextUnblock' \in Tick
    BY <1>e, TickTypes, FirstWakeIsLeast DEF IncrementTick
  <2>4. event' \in [Task -> Event \cup {NoEvent, PendingReadyList}]
    BY <1>e DEF TypeOK, IncrementTick
  <2> QED
    BY <1>c, <1>e, <2>2, <2>3, <2>4, TickTypes DEF IncrementTick
<1>1. CASE SysTick
  <2>1. CASE suspended = 0
    BY <1>1, <2>1, <1>e DEF TypeOK, SysTick
  <2>2. CASE suspended /= 0
    BY <1>1, <2>2 DEF TypeOK, SysTick, lists
  <2> QED
    BY <2>1, <2>2
<1>2. CASE vTaskSwitchContext
  BY <1>2 DEF TypeOK, vTaskSwitchContext, Members, lists, clock
<1>3. CASE SignalFromISR
  BY <1>3, <1>b DEF TypeOK, SignalFromISR, clock
<1>4. CASE xTaskResumeFromISR
  BY <1>4, <1>a, ZenonT(30) DEF TypeOK, xTaskResumeFromISR, clock, MoveToReady, Container
<1>5. CASE Yield
  BY <1>5 DEF TypeOK, Yield, Goto, Return, lists, clock
<1>6. CASE vTaskSuspendAll
  BY <1>6 DEF TypeOK, vTaskSuspendAll, Goto, Return, lists, clock
<1>7. CASE BlockStart
  BY <1>7 DEF TypeOK, BlockStart, Goto, Return, lists, clock
<1>8. ASSUME NEW d \in 1 .. MaxTick, vTaskDelay(d) PROVE TypeOK'
  BY <1>8, <1>d DEF TypeOK, vTaskDelay, Goto
<1>9. ASSUME NEW d \in 1 .. MaxTick, NEW e \in Event, vTaskPlaceOnEventList(e, d) PROVE TypeOK'
  <2>1. CASE d = MaxTick
    BY <1>9, <2>1, <1>a DEF TypeOK, vTaskPlaceOnEventList, Goto, MoveTo, Container
  <2>2. CASE d /= MaxTick
    BY <1>9, <2>2, <1>d DEF TypeOK, vTaskPlaceOnEventList, Goto
  <2> QED
    BY <2>1, <2>2
<1>10. CASE xTaskResumeAll
  <2>1. suspended' \in Nat
    BY <1>10 DEF TypeOK, CallState, xTaskResumeAll, At
  <2>2. CASE suspended = 1
    <3>1. container' \in [Task -> Container] /\ topReady' \subseteq Priority
      BY <1>10, <2>2 DEF TypeOK, xTaskResumeAll, PendingReady, Container
    <3>2. event' \in [Task -> Event \cup {NoEvent, PendingReadyList}]
      BY <1>10, <2>2 DEF TypeOK, xTaskResumeAll
    <3>3. left' \in [Task -> Tick]
      BY <1>10, <2>2, SchedulerAssumption DEF TypeOK, xTaskResumeAll, Tick
    <3>4. yieldPending' \in BOOLEAN
      BY <1>10, <2>2 DEF TypeOK, xTaskResumeAll
    <3> QED
      BY <1>10, <2>1, <2>2, <3>1, <3>2, <3>3, <3>4 DEF TypeOK, xTaskResumeAll, Goto, clock
  <2>3. CASE suspended /= 1
    BY <1>10, <2>1, <2>3 DEF TypeOK, xTaskResumeAll, clock
  <2> QED
    BY <2>2, <2>3
<1>11. CASE UnwindTick
  BY <1>11, <1>e DEF TypeOK, UnwindTick, SwitchRequired
<1>12. CASE ResumeDone
  BY <1>12 DEF TypeOK, ResumeDone, Goto, Return, lists, clock
<1>13. CASE ResetUnblockTime
  BY <1>13, FirstWakeIsLeast DEF TypeOK, ResetUnblockTime, Goto, Return, lists, prvResetNextTaskUnblockTime
<1>14. ASSUME NEW t \in Task, vTaskSuspend(t) PROVE TypeOK'
  BY <1>14, <1>a, SchedulerAssumption DEF TypeOK, vTaskSuspend, TakeOff, MoveTo, Goto, Container, clock, Tick
<1>15. ASSUME NEW t \in Task, vTaskDelete(t) PROVE TypeOK'
  BY <1>15, <1>a, SchedulerAssumption DEF TypeOK, vTaskDelete, TakeOff, MoveTo, Goto, Container, clock, Tick
<1>16. ASSUME NEW t \in Task, vTaskResume(t) PROVE TypeOK'
  BY <1>16, <1>a DEF TypeOK, vTaskResume, MoveToReady, Container, clock
<1>17. ASSUME NEW t \in Task, NEW p \in Priority, xTaskGenericCreate(t, p) PROVE TypeOK'
  BY <1>17, SchedulerAssumption DEF TypeOK, xTaskGenericCreate, Container, clock, Tick
<1>18. ASSUME NEW t \in Task, NEW p \in Priority, vTaskPrioritySet(t, p) PROVE TypeOK'
  BY <1>18, <1>a DEF TypeOK, vTaskPrioritySet, MoveToReady, Container, clock
<1>19. CASE Signal
  BY <1>19, <1>b DEF TypeOK, Signal, clock, Wakes
<1>20. CASE UnlockQueue
  BY <1>20, <1>b DEF TypeOK, UnlockQueue, clock
<1>21. CASE IdleReap
  BY <1>21 DEF TypeOK, IdleReap, Members, Container, clock
<1>22. CASE UNCHANGED vars
  BY <1>22 DEF TypeOK, vars, Goto, Return, lists, clock
<1>23. CASE NotListed
  BY <1>23 DEF TypeOK, NotListed, Goto, lists, clock
<1> QED
  BY <1>1, <1>2, <1>3, <1>4, <1>5, <1>6, <1>7, <1>8, <1>9, <1>10, <1>11, <1>12, <1>13, <1>14, <1>15, <1>16, <1>17, <1>18, <1>19, <1>20, <1>21, <1>22, <1>23, UntilCases DEF Next, Block, Resume, Manage

\* Every step keeps track of who suspended the scheduler.
LEMMA CallStep ==
    ASSUME TypeOK, CallState, [Next]_vars
    PROVE  CallState'
<1>1. CASE SysTick
  BY <1>1 DEF TypeOK, CallState, SysTick, InterruptsEnabled
<1>2. CASE vTaskSwitchContext
  BY <1>2 DEF TypeOK, CallState, vTaskSwitchContext, InterruptsEnabled
<1>3. CASE SignalFromISR
  BY <1>3 DEF TypeOK, CallState, SignalFromISR, InterruptsEnabled
<1>4. CASE xTaskResumeFromISR
  BY <1>4 DEF TypeOK, CallState, xTaskResumeFromISR, InterruptsEnabled
<1>5. CASE Yield
  BY <1>5 DEF TypeOK, CallState, Yield, TakeOff, Goto, Return, At, Calling, clock
<1>6. CASE vTaskSuspendAll
  BY <1>6 DEF TypeOK, CallState, vTaskSuspendAll, TakeOff, Goto, Return, At, Calling, clock
<1>7. CASE BlockStart
  BY <1>7 DEF TypeOK, CallState, BlockStart, TakeOff, Goto, Return, At, Calling, clock
<1>8. ASSUME NEW d \in 1 .. MaxTick, vTaskDelay(d) PROVE CallState'
  BY <1>8 DEF TypeOK, CallState, vTaskDelay, TakeOff, Goto, Return, At, Calling, clock
<1>9. ASSUME NEW d \in 1 .. MaxTick, NEW e \in Event, vTaskPlaceOnEventList(e, d) PROVE CallState'
  BY <1>9 DEF TypeOK, CallState, vTaskPlaceOnEventList, TakeOff, Goto, Return, At, Calling, clock
<1>10. CASE xTaskResumeAll
  <2>1. CASE suspended = 1
    <3>1. suspended' = 0 /\ UNCHANGED <<current, pendSV>> /\ ~pendSV
      BY <1>10, <2>1 DEF xTaskResumeAll, At
    <3>2. /\ \A t \in Task \ {current} : pc'[t] = pc[t]
          /\ pc'[current] = IF pc[current] = "locked" THEN "lockUnwind" ELSE "blockUnwind"
          /\ pc[current] \in {"locked", "blockResume"}
      BY <1>10, <2>1 DEF TypeOK, xTaskResumeAll, Goto, At
    <3> QED
      BY <3>1, <3>2, SchedulerAssumption DEF TypeOK, CallState
  <2>2. CASE suspended /= 1
    BY <1>10, <2>2 DEF TypeOK, CallState, xTaskResumeAll, Goto, At
  <2> QED
    BY <2>1, <2>2
<1>11. CASE UnwindTick
  BY <1>11 DEF TypeOK, CallState, UnwindTick, TakeOff, Goto, Return, At, Calling, clock
<1>12. CASE ResumeDone
  BY <1>12 DEF TypeOK, CallState, ResumeDone, TakeOff, Goto, Return, At, Calling, clock
<1>13. CASE ResetUnblockTime
  BY <1>13 DEF TypeOK, CallState, ResetUnblockTime, TakeOff, Goto, Return, At, Calling, clock
<1>14. ASSUME NEW t \in Task, vTaskSuspend(t) PROVE CallState'
  BY <1>14 DEF TypeOK, CallState, vTaskSuspend, TakeOff, Goto, Return, At, Calling, clock
<1>15. ASSUME NEW t \in Task, vTaskDelete(t) PROVE CallState'
  BY <1>15 DEF TypeOK, CallState, vTaskDelete, TakeOff, Goto, Return, At, Calling, clock
<1>16. ASSUME NEW t \in Task, vTaskResume(t) PROVE CallState'
  BY <1>16 DEF TypeOK, CallState, vTaskResume, TakeOff, Goto, Return, At, Calling, clock
<1>17. ASSUME NEW t \in Task, NEW p \in Priority, xTaskGenericCreate(t, p) PROVE CallState'
  <2>1. \A u \in Task : pc'[u] \in {pc[u], "app", "yield"}
    BY <1>17 DEF TypeOK, xTaskGenericCreate
  <2>3. pc'[current] \in {pc[current], "yield"}
    BY <1>17 DEF TypeOK, xTaskGenericCreate
  <2>2. UNCHANGED <<current, suspended, pendSV>>
    BY <1>17 DEF xTaskGenericCreate
  <2> QED
    BY <2>1, <2>2, <2>3, SchedulerAssumption DEF TypeOK, CallState
<1>18. ASSUME NEW t \in Task, NEW p \in Priority, vTaskPrioritySet(t, p) PROVE CallState'
  BY <1>18 DEF TypeOK, CallState, vTaskPrioritySet, TakeOff, Goto, Return, At, Calling, clock
<1>19. CASE Signal
  BY <1>19 DEF TypeOK, CallState, Signal, TakeOff, Goto, Return, At, Calling, clock
<1>20. CASE UnlockQueue
  BY <1>20 DEF TypeOK, CallState, UnlockQueue, TakeOff, Goto, Return, At, Calling, clock
<1>21. CASE IdleReap
  BY <1>21 DEF TypeOK, CallState, IdleReap, TakeOff, Goto, Return, At, Calling, clock
<1>22. CASE UNCHANGED vars
  BY <1>22 DEF CallState, vars
<1>23. CASE NotListed
  BY <1>23 DEF TypeOK, CallState, NotListed, Goto, At, clock
<1> QED
  BY <1>1, <1>2, <1>3, <1>4, <1>5, <1>6, <1>7, <1>8, <1>9, <1>10, <1>11, <1>12, <1>13, <1>14, <1>15, <1>16, <1>17, <1>18, <1>19, <1>20, <1>21, <1>22, <1>23, UntilCases DEF Next, Block, Resume, Manage

\* In the initial state everybody is in application code.
LEMMA InitTypes == Init => TypeOK /\ CallState
<1> SUFFICES ASSUME Init PROVE TypeOK /\ CallState
  OBVIOUS
<1>1. container \in [Task -> Container] /\ topReady \subseteq Priority
  BY DEF Init, Container
<1>2. 0 \in Tick /\ MaxTick \in Tick
  BY SchedulerAssumption DEF Tick
<1> QED
  <2>1. TypeOK
    BY <1>1, <1>2, SchedulerAssumption DEF Init, TypeOK
  <2>2. CallState
    BY SchedulerAssumption DEF Init, CallState
  <2> QED
    BY <2>1, <2>2
-----------------------------------------------------------------------------
(* The ready lists and their bitmap *)

\* Taking a task off its list, into one that is not a ready list.
LEMMA MoveKeepsReady ==
    ASSUME TypeOK, ReadyListsAgree, NEW t \in Task, t /= Idle,
           NEW l \in Container, l \notin Priority, MoveTo(t, l),
           prio' = prio, \A u \in Task \ {t} : event'[u] = event[u]
    PROVE  ReadyListsAgree'
<1>1. \A u \in Task : container'[u] = IF u = t THEN l ELSE container[u]
  BY DEF MoveTo, TypeOK
<1>2. \A q \in Priority : q \in topReady' <=> \E u \in Task : container'[u] = q
  <2>1. CASE Ready(t) /\ Members(container, container[t]) = {t}
    BY <1>1, <2>1 DEF MoveTo, AfterRemoval, ReadyListsAgree, Members, Ready
  <2>2. CASE Ready(t) /\ Members(container, container[t]) /= {t}
    <3>1. PICK w \in Task \ {t} : container[w] = container[t]
      BY <2>2 DEF Members
    <3> QED
      BY <1>1, <2>2, <3>1 DEF MoveTo, AfterRemoval, ReadyListsAgree, Members, Ready
  <2>3. CASE ~Ready(t)
    BY <1>1, <2>3 DEF MoveTo, AfterRemoval, ReadyListsAgree, Members, Ready
  <2> QED
    BY <2>1, <2>2, <2>3
<1>3. topReady' \subseteq Priority
  BY DEF MoveTo, AfterRemoval, TypeOK
<1>4. topReady' = {q \in Priority : Members(container, q)' /= {}}
  BY <1>2, <1>3 DEF Members
<1> QED
  BY <1>1, <1>4, SchedulerAssumption DEF ReadyListsAgree, Ready

\* Moving a task to the ready list of the priority it has then.
LEMMA MoveToReadyKeepsReady ==
    ASSUME TypeOK, ReadyListsAgree, NEW t \in Task, NEW p \in Priority, MoveToReady(t, p),
           prio'[t] = p, \A u \in Task \ {t} : prio'[u] = prio[u],
           event'[t] = NoEvent, \A u \in Task \ {t} : event'[u] = event[u]
    PROVE  ReadyListsAgree'
<1>1. \A u \in Task : container'[u] = IF u = t THEN p ELSE container[u]
  BY DEF MoveToReady, TypeOK
<1>2. \A q \in Priority : q \in topReady' <=> \E u \in Task : container'[u] = q
  <2>1. CASE Ready(t) /\ Members(container, container[t]) = {t}
    BY <1>1, <2>1 DEF MoveToReady, AfterRemoval, ReadyListsAgree, Members, Ready
  <2>2. CASE Ready(t) /\ Members(container, container[t]) /= {t}
    <3>1. PICK w \in Task \ {t} : container[w] = container[t]
      BY <2>2 DEF Members
    <3> QED
      BY <1>1, <2>2, <3>1 DEF MoveToReady, AfterRemoval, ReadyListsAgree, Members, Ready
  <2>3. CASE ~Ready(t)
    BY <1>1, <2>3 DEF MoveToReady, AfterRemoval, ReadyListsAgree, Members, Ready
  <2> QED
    BY <2>1, <2>2, <2>3
<1>3. topReady' \subseteq Priority
  BY DEF MoveToReady, AfterRemoval, TypeOK
<1>4. topReady' = {q \in Priority : Members(container, q)' /= {}}
  BY <1>2, <1>3 DEF Members
<1> QED
  BY <1>1, <1>4, SchedulerAssumption DEF ReadyListsAgree, Ready

\* A tick readies only tasks that were delayed.
LEMMA TickKeepsReady ==
    ASSUME TypeOK, ReadyListsAgree, IncrementTick
    PROVE  ReadyListsAgree'
<1>1. Due \subseteq Task /\ \A t \in Due : container[t] \notin Priority
  BY TickTypes, SchedulerAssumption DEF Delayed, DelayedList, OverflowList, Priority
<1>2. \A t \in Task, q \in Priority : NewLists[t] = q <=> container[t] = q
  BY SchedulerAssumption DEF NewLists, Switched, DelayedList, OverflowList, Priority, TypeOK
<1>3. \A t \in Task : container'[t] = IF t \in Due THEN prio[t] ELSE NewLists[t]
  BY DEF IncrementTick, Woken
<1>4. \A t \in Task : event'[t] = IF t \in Due THEN NoEvent ELSE event[t]
  BY DEF IncrementTick
<1>5. topReady' = topReady \cup {prio[t] : t \in Due} /\ prio' = prio
  BY DEF IncrementTick
<1>6. topReady' = {q \in Priority : \E t \in Task : container'[t] = q}
  BY <1>1, <1>2, <1>3, <1>5 DEF ReadyListsAgree, Members, TypeOK
<1> QED
  BY <1>1, <1>2, <1>3, <1>4, <1>5, <1>6, SchedulerAssumption
  DEF ReadyListsAgree, Members, Ready, TypeOK

\* A task taken from an event list was blocked.
LEMMA RemovalKeepsReady ==
    ASSUME TypeOK, ReadyListsAgree, NEW t \in Task, event[t] \in Event, RemoveFromEventList(t)
    PROVE  ReadyListsAgree'
<1>1. ~Ready(t)
  BY DEF ReadyListsAgree, Event, NoEvent
<1>2. \A u \in Task \ {t} : event'[u] = event[u]
  BY DEF RemoveFromEventList, TypeOK
<1>3. prio' = prio
  BY DEF RemoveFromEventList
<1>4. CASE suspended = 0
  BY <1>2, <1>3, <1>4, MoveToReadyKeepsReady DEF RemoveFromEventList, TypeOK
<1>5. CASE suspended /= 0
  BY <1>1, <1>2, <1>3, <1>5 DEF RemoveFromEventList, ReadyListsAgree, Ready, Members
<1> QED
  BY <1>4, <1>5

\* Every step keeps the ready lists and their bitmap together.
LEMMA ReadyStep ==
    ASSUME TypeOK, CallState, ReadyListsAgree, [Next]_vars
    PROVE  ReadyListsAgree'
<1>u. ASSUME UNCHANGED <<container, topReady, prio, event>> PROVE ReadyListsAgree'
  BY <1>u DEF ReadyListsAgree, Ready, Members
<1>l. /\ {DelayedList, OverflowList, SuspendedList, TerminationList} \subseteq Container
      /\ \A l \in {DelayedList, OverflowList, SuspendedList, TerminationList} : l \notin Priority
  BY SchedulerAssumption DEF Container, Priority, DelayedList, OverflowList, SuspendedList,
     TerminationList
<1>1. CASE SysTick
  <2>1. CASE suspended = 0
    BY <1>1, <2>1, TickKeepsReady DEF SysTick
  <2>2. CASE suspended /= 0
    BY <1>1, <2>2, <1>u DEF SysTick, lists
  <2> QED
    BY <2>1, <2>2
<1>2. CASE vTaskSwitchContext
  BY <1>2, <1>u DEF vTaskSwitchContext, lists, vars
<1>3. CASE SignalFromISR
  BY <1>3, RemovalKeepsReady DEF SignalFromISR
<1>4. CASE xTaskResumeFromISR
  <2>1. PICK t \in Task : xTaskResumeFromISR!2!(t)
    BY <1>4 DEF xTaskResumeFromISR
  <2>2. event[t] = NoEvent /\ ~Ready(t)
    BY <2>1, SchedulerAssumption DEF IsTaskSuspended, Ready, Priority, SuspendedList
  <2>3. CASE suspended = 0
    BY <1>4, <2>1, <2>2, <2>3, MoveToReadyKeepsReady DEF xTaskResumeFromISR, TypeOK
  <2>4. CASE suspended /= 0
    <3>1. UNCHANGED <<container, topReady, prio>> /\ \A u \in Task \ {t} : event'[u] = event[u]
      BY <1>4, <2>1, <2>4 DEF xTaskResumeFromISR, TypeOK
    <3> QED
      BY <2>2, <3>1 DEF ReadyListsAgree, Ready, Members
  <2> QED
    BY <2>3, <2>4
<1>5. CASE Yield
  BY <1>5, <1>u DEF Yield, lists, vars
<1>6. CASE vTaskSuspendAll
  BY <1>6, <1>u DEF vTaskSuspendAll, lists, vars
<1>7. CASE BlockStart
  BY <1>7, <1>u DEF BlockStart, lists, vars
<1>8. ASSUME NEW d \in 1 .. MaxTick, vTaskDelay(d) PROVE ReadyListsAgree'
  <2>1. current /= Idle /\ current \in Task
    BY <1>8 DEF vTaskDelay, CallState, At, TypeOK
  <2>2. MoveTo(current, OverflowList) \/ MoveTo(current, DelayedList)
    BY <1>8 DEF vTaskDelay, prvAddCurrentTaskToDelayedList
  <2> QED
    BY <1>8, <2>1, <2>2, <1>l, MoveKeepsReady DEF vTaskDelay
<1>9. ASSUME NEW d \in 1 .. MaxTick, NEW e \in Event, vTaskPlaceOnEventList(e, d) PROVE ReadyListsAgree'
  <2>1. current /= Idle /\ current \in Task
    BY <1>9 DEF vTaskPlaceOnEventList, CallState, At, TypeOK
  <2>2. MoveTo(current, OverflowList) \/ MoveTo(current, DelayedList) \/ MoveTo(current, SuspendedList)
    BY <1>9 DEF vTaskPlaceOnEventList, prvAddCurrentTaskToDelayedList
  <2>3. \A u \in Task \ {current} : event'[u] = event[u]
    BY <1>9 DEF vTaskPlaceOnEventList, TypeOK
  <2> QED
    BY <1>9, <2>1, <2>2, <2>3, <1>l, MoveKeepsReady DEF vTaskPlaceOnEventList
<1>10. CASE xTaskResumeAll
  <2>1. CASE suspended = 1
    <3>1. /\ \A u \in Task : container'[u] = IF u \in PendingReady THEN prio[u] ELSE container[u]
          /\ \A u \in Task : event'[u] = IF u \in PendingReady THEN NoEvent ELSE event[u]
          /\ topReady' = topReady \cup {prio[u] : u \in PendingReady}
          /\ prio' = prio
      BY <1>10, <2>1 DEF xTaskResumeAll
    <3>2. \A u \in PendingReady : u \in Task /\ ~Ready(u)
      BY DEF PendingReady, ReadyListsAgree, NoEvent, PendingReadyList
    <3>3. topReady' = {p \in Priority : \E u \in Task : container'[u] = p}
      BY <3>1, <3>2 DEF ReadyListsAgree, Members, TypeOK, Ready
    <3> QED
      BY <3>1, <3>2, <3>3, SchedulerAssumption DEF ReadyListsAgree, Members, Ready, TypeOK
  <2>2. CASE suspended /= 1
    BY <1>10, <2>2, <1>u DEF xTaskResumeAll
  <2> QED
    BY <2>1, <2>2
<1>11. CASE UnwindTick
  BY <1>11, TickKeepsReady DEF UnwindTick
<1>12. CASE ResumeDone
  BY <1>12, <1>u DEF ResumeDone, lists, vars
<1>13. CASE ResetUnblockTime
  BY <1>13, <1>u DEF ResetUnblockTime, lists, vars
<1>14. ASSUME NEW t \in Task, vTaskSuspend(t) PROVE ReadyListsAgree'
  <2>1. \A u \in Task \ {t} : event'[u] = event[u]
    BY <1>14 DEF vTaskSuspend, TakeOff, TypeOK
  <2> QED
    BY <1>14, <2>1, <1>l, MoveKeepsReady DEF vTaskSuspend, TakeOff
<1>15. ASSUME NEW t \in Task, vTaskDelete(t) PROVE ReadyListsAgree'
  <2>1. \A u \in Task \ {t} : event'[u] = event[u]
    BY <1>15 DEF vTaskDelete, TakeOff, TypeOK
  <2> QED
    BY <1>15, <2>1, <1>l, MoveKeepsReady DEF vTaskDelete, TakeOff
<1>16. ASSUME NEW t \in Task, vTaskResume(t) PROVE ReadyListsAgree'
  BY <1>16, MoveToReadyKeepsReady DEF vTaskResume, TypeOK, IsTaskSuspended
<1>17. ASSUME NEW t \in Task, NEW p \in Priority, xTaskGenericCreate(t, p) PROVE ReadyListsAgree'
  <2>1. /\ \A u \in Task : container'[u] = IF u = t THEN p ELSE container[u]
        /\ \A u \in Task : prio'[u] = IF u = t THEN p ELSE prio[u]
        /\ \A u \in Task : event'[u] = IF u = t THEN NoEvent ELSE event[u]
        /\ topReady' = topReady \cup {p}
        /\ container[t] \notin Priority
    BY <1>17, SchedulerAssumption DEF xTaskGenericCreate, TypeOK, Priority, NotCreated
  <2>2. topReady' = {q \in Priority : \E u \in Task : container'[u] = q}
    BY <2>1 DEF ReadyListsAgree, Members, TypeOK
  <2> QED
    BY <2>1, <2>2, SchedulerAssumption DEF ReadyListsAgree, Members, Ready
<1>18. ASSUME NEW t \in Task, NEW p \in Priority, vTaskPrioritySet(t, p) PROVE ReadyListsAgree'
  <2>1. prio'[t] = p /\ \A u \in Task \ {t} : prio'[u] = prio[u]
    BY <1>18 DEF vTaskPrioritySet, TypeOK
  <2>2. event' = event
    BY <1>18 DEF vTaskPrioritySet
  <2>3. CASE container[t] = prio[t]
    <3>1. MoveToReady(t, p) /\ event[t] = NoEvent
      BY <1>18, <2>3 DEF vTaskPrioritySet, ReadyListsAgree, Ready, TypeOK
    <3> QED
      BY <2>1, <2>2, <3>1, MoveToReadyKeepsReady
  <2>4. CASE container[t] /= prio[t]
    <3>1. UNCHANGED <<container, topReady>> /\ ~Ready(t)
      BY <1>18, <2>4 DEF vTaskPrioritySet, ReadyListsAgree
    <3> QED
      BY <2>1, <2>2, <3>1 DEF ReadyListsAgree, Ready, Members
  <2> QED
    BY <2>3, <2>4
<1>19. CASE Signal
  BY <1>19, RemovalKeepsReady DEF Signal
<1>20. CASE UnlockQueue
  BY <1>20, RemovalKeepsReady DEF UnlockQueue
<1>21. CASE IdleReap
  <2>1. PICK t \in Members(container, TerminationList) : container' = [container EXCEPT ![t] = NotCreated]
    BY <1>21 DEF IdleReap
  <2>2. t \in Task /\ container[t] \notin Priority /\ NotCreated \notin Priority
    BY <2>1, SchedulerAssumption DEF Members, TerminationList, Priority, NotCreated
  <2>3. \A u \in Task : container'[u] = IF u = t THEN NotCreated ELSE container[u]
    BY <2>1, <2>2 DEF TypeOK
  <2>4. UNCHANGED <<topReady, prio, event>>
    BY <1>21 DEF IdleReap
  <2>5. \A q \in Priority : Members(container', q) = Members(container, q)
    BY <2>2, <2>3 DEF Members
  <2> QED
    BY <2>2, <2>3, <2>4, <2>5, SchedulerAssumption DEF ReadyListsAgree, Ready
<1>22. CASE UNCHANGED vars
  BY <1>22, <1>u DEF vars, lists, vars
<1>23. CASE NotListed
  BY <1>23, <1>u DEF NotListed, lists, vars
<1> QED
  BY <1>1, <1>2, <1>3, <1>4, <1>5, <1>6, <1>7, <1>8, <1>9, <1>10, <1>11, <1>12, <1>13, <1>14, <1>15, <1>16, <1>17, <1>18, <1>19, <1>20, <1>21, <1>22, <1>23, UntilCases DEF Next, Block, Resume, Manage
-----------------------------------------------------------------------------
(* Pending ticks, pending tasks and pending switches *)

\* Whatever is pending is taken by xTaskResumeAll before the scheduler runs.
LEMMA PendingStep ==
    ASSUME TypeOK, CallState, NothingLeftPending, [Next]_vars
    PROVE  NothingLeftPending'
<1>r. ASSUME NEW t \in Task, RemoveFromEventList(t), suspended = 0
      PROVE  PendingReady' \subseteq PendingReady
  BY <1>r DEF RemoveFromEventList, PendingReady, PendingReadyList, NoEvent, TypeOK
<1>1. CASE SysTick
  BY <1>1 DEF NothingLeftPending, PendingReady, PendingReadyList, NoEvent, TypeOK, SysTick, IncrementTick, lists
<1>2. CASE vTaskSwitchContext
  BY <1>2 DEF NothingLeftPending, PendingReady, TypeOK, vTaskSwitchContext, InterruptsEnabled, lists, clock
<1>3. CASE SignalFromISR
  BY <1>3, <1>r DEF SignalFromISR, NothingLeftPending, clock
<1>4. CASE xTaskResumeFromISR
  BY <1>4 DEF NothingLeftPending, PendingReady, xTaskResumeFromISR, clock
<1>5. CASE Yield
  BY <1>5 DEF NothingLeftPending, PendingReady, PendingReadyList, NoEvent, TypeOK, Yield, TakeOff, Goto, Return, At, Calling, clock, lists
<1>6. CASE vTaskSuspendAll
  BY <1>6 DEF NothingLeftPending, TypeOK, vTaskSuspendAll
<1>7. CASE BlockStart
  BY <1>7 DEF NothingLeftPending, TypeOK, BlockStart
<1>8. ASSUME NEW d \in 1 .. MaxTick, vTaskDelay(d) PROVE NothingLeftPending'
  BY <1>8 DEF NothingLeftPending, CallState, TypeOK, vTaskDelay, At
<1>9. ASSUME NEW d \in 1 .. MaxTick, NEW e \in Event, vTaskPlaceOnEventList(e, d) PROVE NothingLeftPending'
  BY <1>9 DEF NothingLeftPending, CallState, TypeOK, vTaskPlaceOnEventList, At
<1>10. CASE xTaskResumeAll
  <2>1. CASE suspended = 1
    <3>1. PendingReady' = {}
      BY <1>10, <2>1 DEF xTaskResumeAll, PendingReady, PendingReadyList, NoEvent
    <3>2. pc'[current] \in {"blockUnwind", "lockUnwind"} /\ current' = current
      BY <1>10, <2>1 DEF xTaskResumeAll, Goto, TypeOK
    <3> QED
      BY <3>1, <3>2 DEF NothingLeftPending
  <2>2. CASE suspended /= 1
    <3>1. suspended > 0 /\ suspended' = suspended - 1
      BY <1>10 DEF xTaskResumeAll, At, CallState, TypeOK
    <3> QED
      BY <2>2, <3>1 DEF NothingLeftPending, TypeOK
  <2> QED
    BY <2>1, <2>2
<1>11. CASE UnwindTick
  BY <1>11 DEF NothingLeftPending, PendingReady, PendingReadyList, NoEvent, TypeOK, UnwindTick, IncrementTick, At
<1>12. CASE ResumeDone
  BY <1>12 DEF NothingLeftPending, PendingReady, TypeOK, ResumeDone, lists, clock
<1>13. CASE ResetUnblockTime
  BY <1>13 DEF NothingLeftPending, PendingReady, PendingReadyList, NoEvent, TypeOK, ResetUnblockTime, TakeOff, Goto, Return, At, Calling, clock, lists
<1>14. ASSUME NEW t \in Task, vTaskSuspend(t) PROVE NothingLeftPending'
  BY <1>14 DEF NothingLeftPending, PendingReady, PendingReadyList, NoEvent, TypeOK, vTaskSuspend, TakeOff, Goto, Return, At, Calling, clock, lists
<1>15. ASSUME NEW t \in Task, vTaskDelete(t) PROVE NothingLeftPending'
  BY <1>15 DEF NothingLeftPending, PendingReady, PendingReadyList, NoEvent, TypeOK, vTaskDelete, TakeOff, Goto, Return, At, Calling, clock, lists
<1>16. ASSUME NEW t \in Task, vTaskResume(t) PROVE NothingLeftPending'
  BY <1>16 DEF NothingLeftPending, PendingReady, PendingReadyList, NoEvent, TypeOK, vTaskResume, TakeOff, Goto, Return, At, Calling, clock, lists
<1>17. ASSUME NEW t \in Task, NEW p \in Priority, xTaskGenericCreate(t, p) PROVE NothingLeftPending'
  <2>1. pended' = pended /\ suspended' = suspended /\ current' = current
    BY <1>17 DEF xTaskGenericCreate, clock
  <2>2. PendingReady' \subseteq PendingReady
    BY <1>17 DEF xTaskGenericCreate, PendingReady, PendingReadyList, NoEvent, TypeOK
  <2>3. pc[current] \notin {"blockUnwind", "lockUnwind"}
    BY <1>17 DEF xTaskGenericCreate, Calling, At
  <2> QED
    BY <2>1, <2>2, <2>3 DEF NothingLeftPending, TypeOK
<1>18. ASSUME NEW t \in Task, NEW p \in Priority, vTaskPrioritySet(t, p) PROVE NothingLeftPending'
  BY <1>18 DEF NothingLeftPending, PendingReady, PendingReadyList, NoEvent, TypeOK, vTaskPrioritySet, TakeOff, Goto, Return, At, Calling, clock, lists
<1>19. CASE Signal
  BY <1>19, <1>r DEF Signal, NothingLeftPending, clock
<1>20. CASE UnlockQueue
  BY <1>20, <1>r DEF UnlockQueue, NothingLeftPending, clock
<1>21. CASE IdleReap
  BY <1>21 DEF NothingLeftPending, PendingReady, PendingReadyList, NoEvent, TypeOK, IdleReap, TakeOff, Goto, Return, At, Calling, clock, lists
<1>22. CASE UNCHANGED vars
  BY <1>22 DEF NothingLeftPending, PendingReady, vars, lists, clock
<1>23. CASE NotListed
  BY <1>23 DEF NothingLeftPending, CallState, TypeOK, NotListed, At, lists, clock
<1> QED
  BY <1>1, <1>2, <1>3, <1>4, <1>5, <1>6, <1>7, <1>8, <1>9, <1>10, <1>11, <1>12, <1>13, <1>14, <1>15, <1>16, <1>17, <1>18, <1>19, <1>20, <1>21, <1>22, <1>23, UntilCases DEF Next, Block, Resume, Manage

\* No step lets the running task go on in application code while a task of
\* higher priority is ready.
LEMMA SwitchStep ==
    ASSUME TypeOK, CallState, ReadyListsAgree, SwitchIsDue, [Next]_vars
    PROVE  SwitchIsDue'
<1>t. ASSUME IncrementTick, UNCHANGED current, ~SwitchRequired
      PROVE  /\ Ready(current) => Ready(current)'
             /\ \A t \in Task : Ready(t)' => Ready(t) \/ prio[t] <= prio[current]
             /\ prio' = prio
  <2>1. Due \subseteq Task /\ \A t \in Due : ~(prio[t] >= prio[current])
    BY <1>t, TickTypes DEF SwitchRequired
  <2>2. \A t \in Task, q \in Priority : NewLists[t] = q <=> container[t] = q
    BY SchedulerAssumption DEF NewLists, Switched, DelayedList, OverflowList, Priority, TypeOK
  <2>3. \A t \in Task : container'[t] = IF t \in Due THEN prio[t] ELSE NewLists[t]
    BY <1>t DEF IncrementTick, Woken
  <2>4. prio' = prio
    BY <1>t DEF IncrementTick
  <2> QED
    BY <1>t, <2>1, <2>2, <2>3, <2>4 DEF Ready, TypeOK, Priority
<1>r. ASSUME NEW t \in Task, RemoveFromEventList(t), UNCHANGED current
      PROVE  /\ yieldPending => yieldPending'
             /\ prio' = prio
             /\ Ready(current) => Ready(current)'
             /\ \A u \in Task : Ready(u)' => Ready(u) \/ prio[u] <= prio[current] \/ prio[t] > prio[current]
  <2>1. \A u \in Task : container'[u] \in {container[u], prio[u]} /\ (u /= t => container'[u] = container[u])
    BY <1>r DEF RemoveFromEventList, MoveToReady, TypeOK
  <2> QED
    BY <1>r, <2>1 DEF RemoveFromEventList, Ready, TypeOK, Priority
<1>1. CASE SysTick
  <2>1. CASE suspended = 0
    BY <1>1, <2>1, <1>t DEF SysTick, SwitchIsDue, TypeOK, SwitchRequired
  <2>2. CASE suspended /= 0
    BY <1>1, <2>2 DEF SysTick, SwitchIsDue, Ready, lists
  <2> QED
    BY <2>1, <2>2
<1>2. CASE vTaskSwitchContext
  <2>1. CASE suspended > 0
    BY <1>2, <2>1 DEF vTaskSwitchContext, SwitchIsDue
  <2>2. CASE suspended = 0
    <3>1. topReady /= {} /\ topReady \in SUBSET Priority
      BY SchedulerAssumption DEF ReadyListsAgree, Ready, Members, TypeOK
    <3>2. Most(topReady) \in topReady /\ \A q \in topReady : q <= Most(topReady)
      BY <3>1, MostExists
    <3>3. current' \in Task /\ container[current'] = Most(topReady)
      BY <1>2, <2>2 DEF vTaskSwitchContext, Members
    <3>4. UNCHANGED <<container, prio>>
      BY <1>2 DEF vTaskSwitchContext, lists
    <3>5. Ready(current)' /\ prio[current'] = Most(topReady)
      BY <3>1, <3>2, <3>3, <3>4 DEF Ready, ReadyListsAgree
    <3>6. \A t \in Task : Ready(t) => prio[t] \in topReady
      BY DEF Ready, ReadyListsAgree, Members
    <3> QED
      BY <3>2, <3>4, <3>5, <3>6 DEF SwitchIsDue, Ready
  <2> QED
    BY <2>1, <2>2 DEF TypeOK
<1>3. CASE SignalFromISR
  <2>1. PICK t \in Task : event[t] \in Event /\ RemoveFromEventList(t) /\ pendSV' = (pendSV \/ Wakes(t))
    BY <1>3 DEF SignalFromISR
  <2>2. UNCHANGED <<current, pc, suspended>>
    BY <1>3 DEF SignalFromISR
  <2> QED
    BY <2>1, <2>2, <1>r DEF SwitchIsDue, Wakes
<1>4. CASE xTaskResumeFromISR
  <2>1. PICK t \in Task : xTaskResumeFromISR!2!(t)
    BY <1>4 DEF xTaskResumeFromISR
  <2>2. UNCHANGED <<current, pc, suspended, yieldPending, prio>>
    BY <1>4 DEF xTaskResumeFromISR
  <2>3. CASE suspended = 0
    <3>1. \A u \in Task : container'[u] = IF u = t THEN prio[t] ELSE container[u]
      BY <2>1, <2>3 DEF MoveToReady, TypeOK
    <3>2. pendSV' = (pendSV \/ prio[t] >= prio[current])
      BY <2>1, <2>3
    <3>3. CASE prio[t] >= prio[current]
      BY <3>2, <3>3 DEF SwitchIsDue
    <3>4. CASE ~(prio[t] >= prio[current])
      <4>1. Ready(current) => Ready(current)'
        BY <2>2, <3>1 DEF Ready, TypeOK
      <4>2. \A u \in Task : Ready(u)' => Ready(u) \/ prio[u] <= prio[current]
        BY <3>1, <3>4 DEF Ready, TypeOK, Priority
      <4>3. pendSV => pendSV'
        BY <3>2
      <4> QED
        BY <2>2, <4>1, <4>2, <4>3 DEF SwitchIsDue
    <3> QED
      BY <3>3, <3>4
  <2>4. CASE suspended /= 0
    BY <2>1, <2>2, <2>4 DEF SwitchIsDue, Ready
  <2> QED
    BY <2>3, <2>4
<1>5. CASE Yield
  BY <1>5 DEF Yield, SwitchIsDue
<1>6. CASE vTaskSuspendAll
  BY <1>6 DEF vTaskSuspendAll, SwitchIsDue, Calling, At, Goto, Ready, lists, TypeOK
<1>7. CASE BlockStart
  BY <1>7 DEF BlockStart, SwitchIsDue, Goto, TypeOK
<1>8. ASSUME NEW d \in 1 .. MaxTick, vTaskDelay(d) PROVE SwitchIsDue'
  BY <1>8 DEF vTaskDelay, SwitchIsDue, Goto, TypeOK
<1>9. ASSUME NEW d \in 1 .. MaxTick, NEW e \in Event, vTaskPlaceOnEventList(e, d) PROVE SwitchIsDue'
  BY <1>9 DEF vTaskPlaceOnEventList, SwitchIsDue, Goto, TypeOK
<1>10. CASE xTaskResumeAll
  <2>1. UNCHANGED <<current, prio, pendSV>> /\ ~pendSV
    BY <1>10 DEF xTaskResumeAll, At
  <2>2. CASE suspended = 1 /\ pc[current] = "blockResume"
    BY <1>10, <2>2 DEF xTaskResumeAll, SwitchIsDue, Goto, TypeOK
  <2>3. CASE suspended = 1 /\ pc[current] = "locked"
    <3>1. pc'[current] = "lockUnwind"
      BY <1>10, <2>3 DEF xTaskResumeAll, Goto, TypeOK
    <3>2. yieldPending' = (yieldPending \/ \E t \in PendingReady : prio[t] >= prio[current])
      BY <1>10, <2>3 DEF xTaskResumeAll
    <3>3. \A t \in Task : container'[t] = IF t \in PendingReady THEN prio[t] ELSE container[t]
      BY <1>10, <2>3 DEF xTaskResumeAll
    <3>4. Ready(current) => Ready(current)'
      BY <2>1, <3>3 DEF TypeOK, Ready
    <3>5. CASE yieldPending \/ \E t \in PendingReady : prio[t] >= prio[current]
      BY <2>1, <3>1, <3>2, <3>5 DEF SwitchIsDue
    <3>6. CASE ~yieldPending /\ \A t \in PendingReady : ~(prio[t] >= prio[current])
      <4>1. Ready(current) /\ \A t \in Task : Ready(t) => prio[t] <= prio[current]
        BY <2>1, <2>3, <3>6 DEF SwitchIsDue
      <4>2. \A t \in Task : Ready(t)' => prio[t] <= prio[current]
        BY <3>3, <3>6, <4>1 DEF Ready, TypeOK, Priority
      <4> QED
        BY <2>1, <3>4, <4>1, <4>2 DEF SwitchIsDue
    <3> QED
      BY <3>5, <3>6
  <2>4. CASE suspended /= 1
    <3>1. suspended' > 0
      BY <1>10, <2>4 DEF xTaskResumeAll, At, CallState, TypeOK
    <3>2. UNCHANGED <<container, yieldPending, pc>>
      BY <1>10, <2>4 DEF xTaskResumeAll
    <3> QED
      BY <2>1, <3>1, <3>2 DEF SwitchIsDue, Ready
  <2> QED
    BY <1>10, <2>2, <2>3, <2>4 DEF xTaskResumeAll, At
<1>11. CASE UnwindTick
  BY <1>11, <1>t DEF UnwindTick, SwitchIsDue, At, SwitchRequired
<1>12. CASE ResumeDone
  BY <1>12 DEF ResumeDone, SwitchIsDue, CallState, Goto, At, Ready, lists, TypeOK
<1>13. CASE ResetUnblockTime
  BY <1>13 DEF ResetUnblockTime, SwitchIsDue, Goto, Return, At, Ready, lists, TypeOK
<1>14. ASSUME NEW t \in Task, vTaskSuspend(t) PROVE SwitchIsDue'
  <2>1. CASE t = current
    BY <1>14, <2>1 DEF vTaskSuspend, TakeOff, SwitchIsDue, Goto, TypeOK
  <2>2. CASE t /= current
    BY <1>14, <2>2, SchedulerAssumption
    DEF vTaskSuspend, TakeOff, SwitchIsDue, Goto, TypeOK, MoveTo, Calling, At, Ready, SuspendedList, Priority
  <2> QED
    BY <2>1, <2>2
<1>15. ASSUME NEW t \in Task, vTaskDelete(t) PROVE SwitchIsDue'
  <2>1. CASE t = current
    BY <1>15, <2>1 DEF vTaskDelete, TakeOff, SwitchIsDue, Goto, TypeOK
  <2>2. CASE t /= current
    BY <1>15, <2>2, SchedulerAssumption
    DEF vTaskDelete, TakeOff, SwitchIsDue, Goto, TypeOK, MoveTo, Calling, At, Ready, TerminationList, Priority
  <2> QED
    BY <2>1, <2>2
<1>16. ASSUME NEW t \in Task, vTaskResume(t) PROVE SwitchIsDue'
  <2>1. \A u \in Task : container'[u] = IF u = t THEN prio[t] ELSE container[u]
    BY <1>16 DEF vTaskResume, MoveToReady, TypeOK
  <2>2. /\ pendSV' = (prio[t] >= prio[current]) /\ ~pendSV
        /\ pc[current] \in {"app", "locked"}
        /\ UNCHANGED <<current, prio, pc, suspended, yieldPending>>
    BY <1>16 DEF vTaskResume, Calling, At
  <2>3. CASE prio[t] >= prio[current]
    BY <2>2, <2>3 DEF SwitchIsDue
  <2>4. CASE ~(prio[t] >= prio[current])
    <3>1. Ready(current) => Ready(current)'
      BY <2>1, <2>2 DEF Ready, TypeOK
    <3>2. \A u \in Task : Ready(u)' => Ready(u) \/ prio[u] <= prio[current]
      BY <2>1, <2>4 DEF Ready, TypeOK, Priority
    <3> QED
      BY <2>2, <3>1, <3>2 DEF SwitchIsDue
  <2> QED
    BY <2>3, <2>4
<1>17. ASSUME NEW t \in Task, NEW p \in Priority, xTaskGenericCreate(t, p) PROVE SwitchIsDue'
  <2>1. /\ \A u \in Task : container'[u] = IF u = t THEN p ELSE container[u]
        /\ \A u \in Task : prio'[u] = IF u = t THEN p ELSE prio[u]
        /\ container[t] \notin Priority
        /\ ~pendSV /\ pc[current] \in {"app", "locked"}
        /\ UNCHANGED <<current, suspended, yieldPending, pendSV>>
    BY <1>17, SchedulerAssumption DEF xTaskGenericCreate, TypeOK, Priority, NotCreated, Calling, At
  <2>2. CASE yieldPending /\ suspended > 0
    BY <2>1, <2>2 DEF SwitchIsDue
  <2>3. CASE ~(yieldPending /\ suspended > 0) /\ prio[current] < p
    <3>1. pc'[current] = "yield"
      BY <1>17, <2>3 DEF xTaskGenericCreate, TypeOK
    <3> QED
      BY <2>1, <3>1 DEF SwitchIsDue
  <2>4. CASE ~(yieldPending /\ suspended > 0) /\ ~(prio[current] < p)
    <3>1. Ready(current) /\ \A u \in Task : Ready(u) => prio[u] <= prio[current]
      BY <2>1, <2>4 DEF SwitchIsDue
    <3> QED
      BY <2>1, <2>4, <3>1 DEF SwitchIsDue, Ready, TypeOK, Priority
  <2> QED
    BY <2>2, <2>3, <2>4
<1>18. ASSUME NEW t \in Task, NEW p \in Priority, vTaskPrioritySet(t, p) PROVE SwitchIsDue'
  <2>1. /\ \A u \in Task : prio'[u] = IF u = t THEN p ELSE prio[u]
        /\ ~pendSV /\ pc[current] \in {"app", "locked"}
        /\ UNCHANGED <<current, pc, suspended, yieldPending>>
    BY <1>18 DEF vTaskPrioritySet, TypeOK, Calling, At
  <2>2. \A u \in Task : Ready(u)' <=> Ready(u)
    BY <1>18 DEF vTaskPrioritySet, TypeOK, MoveToReady, Ready
  <2>3. CASE pendSV'
    BY <2>3 DEF SwitchIsDue
  <2>4. CASE yieldPending /\ suspended > 0
    BY <2>1, <2>4 DEF SwitchIsDue
  <2>5. CASE ~pendSV' /\ ~(yieldPending /\ suspended > 0)
    <3>1. Ready(current) /\ \A u \in Task : Ready(u) => prio[u] <= prio[current]
      BY <2>1, <2>5 DEF SwitchIsDue
    <3>2. IF p > prio[t] THEN ~(t /= current /\ p >= prio[current]) ELSE t /= current
      BY <1>18, <2>5 DEF vTaskPrioritySet
    <3> QED
      BY <2>1, <2>2, <3>1, <3>2 DEF SwitchIsDue, TypeOK, Priority
  <2> QED
    BY <2>3, <2>4, <2>5
<1>19. CASE Signal
  <2>1. PICK t \in Task : event[t] \in Event /\ RemoveFromEventList(t) /\ pendSV' = Wakes(t)
    BY <1>19 DEF Signal
  <2>2. UNCHANGED <<current, pc, suspended>> /\ ~pendSV
    BY <1>19 DEF Signal, Calling, At
  <2> QED
    BY <2>1, <2>2, <1>r DEF SwitchIsDue, Wakes
<1>20. CASE UnlockQueue
  BY <1>20 DEF UnlockQueue, SwitchIsDue, At
<1>21. CASE IdleReap
  BY <1>21, SchedulerAssumption DEF IdleReap, SwitchIsDue, TypeOK, Members, Ready, NotCreated, TerminationList, Priority
<1>22. CASE UNCHANGED vars
  BY <1>22 DEF SwitchIsDue, Ready, vars, lists
<1>23. CASE NotListed
  BY <1>23 DEF NotListed, SwitchIsDue, Goto, TypeOK, At, lists
<1> QED
  BY <1>1, <1>2, <1>3, <1>4, <1>5, <1>6, <1>7, <1>8, <1>9, <1>10, <1>11, <1>12, <1>13, <1>14, <1>15, <1>16, <1>17, <1>18, <1>19, <1>20, <1>21, <1>22, <1>23, UntilCases DEF Next, Block, Resume, Manage
-----------------------------------------------------------------------------
(* Delays *)

\* A tick readies the delayed tasks whose time has run out and no others, and
\* keeps the rest in step with the tick count, when it wraps as well.
LEMMA TickDelays ==
    ASSUME TypeOK, DelaysAgree, IncrementTick
    PROVE  /\ DelaysAgree'
           /\ \A t \in Task : Delayed(t) => (Delayed(t)' <=> left[t] > 1)
<1>1. /\ tick' = NewTick /\ wake' = wake
      /\ \A t \in Task : container'[t] = IF t \in Due THEN prio[t] ELSE NewLists[t]
      /\ \A t \in Task : left[t] >= 1 => left'[t] = left[t] - 1
      /\ nextUnblock' = IF NewTick >= NewUnblock THEN FirstWake(Woken(NewLists)) ELSE NewUnblock
      /\ container' = Woken(NewLists)
  BY DEF IncrementTick, Woken, TypeOK, Tick
<1>2. NewTick = IF tick = MaxTick THEN 0 ELSE tick + 1
  BY SchedulerAssumption DEF TypeOK, NewTick, Tick
<1>3. \A t \in Task : container'[t] = DelayedList => FirstWake(Woken(NewLists)) <= wake[t]
  BY <1>1, TickTypes, FirstWakeIsLeast
<1>4. \A t \in Task : NewLists[t] =
        IF NewTick /= 0 THEN container[t]
        ELSE IF container[t] = DelayedList THEN OverflowList
        ELSE IF container[t] = OverflowList THEN DelayedList ELSE container[t]
  BY DEF NewLists, Switched
<1>5. NewTick = 0 => \A t \in Task : NewLists[t] = DelayedList => NewUnblock <= wake[t]
  BY TickTypes, FirstWakeIsLeast DEF NewUnblock
<1>6. NewTick /= 0 => NewUnblock = nextUnblock
  BY DEF NewUnblock
<1>7. \A t \in Task : t \in Due <=> /\ NewTick >= NewUnblock
                                    /\ NewLists[t] = DelayedList /\ wake[t] <= NewTick
  BY DEF Due, Members
<1>8. \A t \in Task : prio[t] /= DelayedList /\ prio[t] /= OverflowList
  BY SchedulerAssumption DEF TypeOK, Priority, DelayedList, OverflowList
<1>9. ASSUME NEW t \in Task, Delayed(t)
      PROVE  /\ Delayed(t)' <=> left[t] > 1
             /\ Delayed(t)' =>
                  /\ left'[t] >= 1
                  /\ IF container'[t] = DelayedList
                     THEN wake'[t] = tick' + left'[t] /\ nextUnblock' <= wake'[t]
                     ELSE wake'[t] = tick' + left'[t] - (MaxTick + 1)
  <2>0. /\ tick \in 0 .. MaxTick /\ wake[t] \in 0 .. MaxTick /\ left[t] \in 0 .. MaxTick
        /\ nextUnblock \in 0 .. MaxTick /\ NewUnblock \in 0 .. MaxTick /\ MaxTick \in Nat \ {0}
    BY TickTypes, SchedulerAssumption DEF TypeOK, Tick
  <2>1. CASE container[t] = DelayedList
    <3>1. left[t] >= 1 /\ wake[t] = tick + left[t] /\ nextUnblock <= wake[t]
      BY <1>9, <2>1 DEF DelaysAgree
    <3>2. NewTick = tick + 1
      BY <1>2, <2>0, <3>1
    <3>3. NewLists[t] = DelayedList /\ NewUnblock = nextUnblock
      BY <1>4, <1>6, <2>0, <2>1, <3>2
    <3>4. CASE left[t] = 1
      <4>1. t \in Due
        BY <1>7, <2>0, <3>1, <3>2, <3>3, <3>4
      <4> QED
        BY <1>1, <1>8, <3>4, <4>1 DEF Delayed
    <3>5. CASE left[t] > 1
      <4>1. t \notin Due
        BY <1>7, <2>0, <3>1, <3>2, <3>5
      <4>2. container'[t] = DelayedList
        BY <1>1, <3>3, <4>1
      <4>3. nextUnblock' <= wake[t]
        BY <1>1, <1>3, <3>1, <3>3, <4>2
      <4> QED
        BY <1>1, <2>0, <3>1, <3>2, <3>5, <4>2, <4>3 DEF Delayed
    <3> QED
      BY <2>0, <3>1, <3>4, <3>5
  <2>2. CASE container[t] = OverflowList
    <3>1. left[t] >= 1 /\ wake[t] = tick + left[t] - (MaxTick + 1)
      BY <1>9, <2>2 DEF DelaysAgree, DelayedList, OverflowList
    <3>2. CASE tick = MaxTick
      <4>1. NewTick = 0 /\ wake[t] = left[t] - 1
        BY <1>2, <2>0, <3>1, <3>2
      <4>2. NewLists[t] = DelayedList /\ NewUnblock <= wake[t]
        BY <1>4, <1>5, <2>2, <4>1 DEF DelayedList, OverflowList
      <4>3. CASE left[t] = 1
        <5>1. t \in Due
          BY <1>7, <2>0, <4>1, <4>2, <4>3
        <5> QED
          BY <1>1, <1>8, <4>3, <5>1 DEF Delayed
      <4>4. CASE left[t] > 1
        <5>1. t \notin Due
          BY <1>7, <2>0, <4>1, <4>4
        <5>2. container'[t] = DelayedList
          BY <1>1, <4>2, <5>1
        <5>3. nextUnblock' <= wake[t]
          BY <1>1, <1>3, <4>2, <5>2
        <5> QED
          BY <1>1, <2>0, <4>1, <4>4, <5>2, <5>3 DEF Delayed
      <4> QED
        BY <2>0, <3>1, <4>3, <4>4
    <3>3. CASE tick /= MaxTick
      <4>1. NewTick = tick + 1 /\ left[t] > 1
        BY <1>2, <2>0, <3>1, <3>3
      <4>2. NewLists[t] = OverflowList
        BY <1>4, <2>0, <2>2, <4>1
      <4>3. container'[t] = OverflowList
        BY <1>1, <1>7, <4>2 DEF DelayedList, OverflowList
      <4> QED
        BY <1>1, <2>0, <3>1, <4>1, <4>3 DEF Delayed, DelayedList, OverflowList
    <3> QED
      BY <3>2, <3>3
  <2> QED
    BY <1>9, <2>1, <2>2 DEF Delayed
<1>10. ASSUME NEW t \in Task, ~Delayed(t) PROVE ~Delayed(t)'
  BY <1>1, <1>4, <1>8, <1>10 DEF Delayed
<1> QED
  BY <1>9, <1>10 DEF DelaysAgree

\* Every step keeps the delayed lists in step with the tick count.
LEMMA DelayStep ==
    ASSUME TypeOK, DelaysAgree, [Next]_vars
    PROVE  DelaysAgree'
<1>u. ASSUME UNCHANGED <<container, wake, left, tick, nextUnblock>> PROVE DelaysAgree'
  BY <1>u DEF DelaysAgree, Delayed
<1>p. ASSUME UNCHANGED <<tick, nextUnblock>>,
             \A u \in Task :
               \/ container'[u] = container[u] /\ wake'[u] = wake[u] /\ left'[u] = left[u]
               \/ container'[u] \in Priority \cup {SuspendedList, TerminationList, NotCreated}
      PROVE  DelaysAgree'
  <2>1. \A u \in Task : Delayed(u)' =>
          Delayed(u) /\ container'[u] = container[u] /\ wake'[u] = wake[u] /\ left'[u] = left[u]
    BY <1>p, SchedulerAssumption DEF Delayed, DelayedList, OverflowList, SuspendedList,
       TerminationList, NotCreated, Priority
  <2> QED
    BY <1>p, <2>1 DEF DelaysAgree
<1>r. ASSUME NEW t \in Task, RemoveFromEventList(t), UNCHANGED <<tick, nextUnblock>>
      PROVE  DelaysAgree'
  <2>1. \A u \in Task : \/ container'[u] = container[u] /\ left'[u] = left[u]
                        \/ container'[u] \in Priority
    BY <1>r DEF RemoveFromEventList, MoveToReady, TypeOK
  <2> QED
    BY <1>p, <1>r, <2>1 DEF RemoveFromEventList
<1>d. ASSUME NEW k \in 1 .. MaxTick, prvAddCurrentTaskToDelayedList(k), UNCHANGED tick
      PROVE  DelaysAgree'
  <2> DEFINE w == (tick + k) % (MaxTick + 1)
  <2>1. w = IF tick + k <= MaxTick THEN tick + k ELSE tick + k - (MaxTick + 1)
    BY SchedulerAssumption DEF TypeOK, Tick
  <2>2. /\ wake' = [wake EXCEPT ![current] = w] /\ left' = [left EXCEPT ![current] = k]
        /\ IF w < tick
           THEN MoveTo(current, OverflowList) /\ UNCHANGED nextUnblock
           ELSE /\ MoveTo(current, DelayedList)
                /\ nextUnblock' = IF w < nextUnblock THEN w ELSE nextUnblock
    BY <1>d DEF prvAddCurrentTaskToDelayedList
  <2>3. tick \in 0 .. MaxTick /\ nextUnblock \in 0 .. MaxTick /\ MaxTick \in Nat \ {0} /\ current \in Task
    BY SchedulerAssumption DEF TypeOK, Tick
  <2> HIDE DEF w
  <2>4. w < tick <=> tick + k > MaxTick
    BY <2>1, <2>3
  <2>5. /\ \A u \in Task \ {current} :
             container'[u] = container[u] /\ wake'[u] = wake[u] /\ left'[u] = left[u]
        /\ container'[current] = IF w < tick THEN OverflowList ELSE DelayedList
        /\ wake'[current] = w /\ left'[current] = k
        /\ nextUnblock' <= nextUnblock
        /\ ~(w < tick) => nextUnblock' <= w
        /\ w \in 0 .. MaxTick /\ nextUnblock' \in 0 .. MaxTick
    BY <2>1, <2>2, <2>3 DEF TypeOK, MoveTo
  <2>6. ASSUME NEW u \in Task, u /= current, Delayed(u)'
        PROVE  /\ left'[u] >= 1
               /\ IF container'[u] = DelayedList
                  THEN wake'[u] = tick' + left'[u] /\ nextUnblock' <= wake'[u]
                  ELSE wake'[u] = tick' + left'[u] - (MaxTick + 1)
    BY <1>d, <2>3, <2>5, <2>6 DEF DelaysAgree, Delayed, TypeOK, Tick
  <2>7. /\ left'[current] >= 1
        /\ IF container'[current] = DelayedList
           THEN wake'[current] = tick' + left'[current] /\ nextUnblock' <= wake'[current]
           ELSE wake'[current] = tick' + left'[current] - (MaxTick + 1)
    BY <1>d, <2>1, <2>3, <2>4, <2>5 DEF DelayedList, OverflowList
  <2> QED
    BY <2>6, <2>7 DEF DelaysAgree
<1>1. CASE SysTick
  <2>1. CASE suspended = 0
    BY <1>1, <2>1, TickDelays DEF SysTick
  <2>2. CASE suspended /= 0
    BY <1>1, <2>2, <1>u DEF SysTick, lists
  <2> QED
    BY <2>1, <2>2
<1>2. CASE vTaskSwitchContext
  BY <1>2, <1>u DEF vTaskSwitchContext, lists, clock, vars
<1>3. CASE SignalFromISR
  BY <1>3, <1>r DEF SignalFromISR, clock
<1>4. CASE xTaskResumeFromISR
  <2>1. \A u \in Task : container'[u] = container[u] \/ container'[u] \in Priority
    BY <1>4 DEF xTaskResumeFromISR, MoveToReady, TypeOK
  <2> QED
    BY <1>4, <2>1, <1>p DEF xTaskResumeFromISR, clock
<1>5. CASE Yield
  BY <1>5, <1>u DEF Yield, lists, clock, vars
<1>6. CASE vTaskSuspendAll
  BY <1>6, <1>u DEF vTaskSuspendAll, lists, clock, vars
<1>7. CASE BlockStart
  BY <1>7, <1>u DEF BlockStart, lists, clock, vars
<1>8. ASSUME NEW d \in 1 .. MaxTick, vTaskDelay(d) PROVE DelaysAgree'
  BY <1>8, <1>d DEF vTaskDelay
<1>9. ASSUME NEW d \in 1 .. MaxTick, NEW e \in Event, vTaskPlaceOnEventList(e, d) PROVE DelaysAgree'
  <2>1. CASE d = MaxTick
    <3>1. \A u \in Task : container'[u] = container[u] \/ container'[u] = SuspendedList
      BY <1>9, <2>1 DEF vTaskPlaceOnEventList, MoveTo, TypeOK
    <3> QED
      BY <1>9, <2>1, <3>1, <1>p DEF vTaskPlaceOnEventList
  <2>2. CASE d /= MaxTick
    BY <1>9, <2>2, <1>d DEF vTaskPlaceOnEventList
  <2> QED
    BY <2>1, <2>2
<1>10. CASE xTaskResumeAll
  <2>1. CASE suspended = 1
    <3>1. \A u \in Task : \/ container'[u] = container[u] /\ left'[u] = left[u]
                         \/ container'[u] \in Priority
      BY <1>10, <2>1 DEF xTaskResumeAll, TypeOK
    <3> QED
      BY <1>10, <3>1, <1>p DEF xTaskResumeAll, clock
  <2>2. CASE suspended /= 1
    BY <1>10, <2>2, <1>u DEF xTaskResumeAll, clock
  <2> QED
    BY <2>1, <2>2
<1>11. CASE UnwindTick
  BY <1>11, TickDelays DEF UnwindTick
<1>12. CASE ResumeDone
  BY <1>12, <1>u DEF ResumeDone, lists, clock, vars
<1>13. CASE ResetUnblockTime
  <2>1. UNCHANGED <<container, wake, tick, left>> /\ nextUnblock' = FirstWake(container)
    BY <1>13 DEF ResetUnblockTime, lists, prvResetNextTaskUnblockTime
  <2>2. \A t \in Task : container[t] = DelayedList => nextUnblock' <= wake[t]
    BY <2>1, FirstWakeIsLeast DEF TypeOK
  <2> QED
    BY <2>1, <2>2 DEF DelaysAgree, Delayed
<1>14. ASSUME NEW t \in Task, vTaskSuspend(t) PROVE DelaysAgree'
  <2>1. \A u \in Task : \/ container'[u] = container[u] /\ left'[u] = left[u]
                       \/ container'[u] = SuspendedList
    BY <1>14 DEF vTaskSuspend, TakeOff, MoveTo, TypeOK
  <2> QED
    BY <1>14, <2>1, <1>p DEF vTaskSuspend, TakeOff, clock
<1>15. ASSUME NEW t \in Task, vTaskDelete(t) PROVE DelaysAgree'
  <2>1. \A u \in Task : \/ container'[u] = container[u] /\ left'[u] = left[u]
                       \/ container'[u] = TerminationList
    BY <1>15 DEF vTaskDelete, TakeOff, MoveTo, TypeOK
  <2> QED
    BY <1>15, <2>1, <1>p DEF vTaskDelete, TakeOff, clock
<1>16. ASSUME NEW t \in Task, vTaskResume(t) PROVE DelaysAgree'
  <2>1. \A u \in Task : container'[u] = container[u] \/ container'[u] \in Priority
    BY <1>16 DEF vTaskResume, MoveToReady, TypeOK
  <2> QED
    BY <1>16, <2>1, <1>p DEF vTaskResume, clock
<1>17. ASSUME NEW t \in Task, NEW p \in Priority, xTaskGenericCreate(t, p) PROVE DelaysAgree'
  <2>1. \A u \in Task : \/ container'[u] = container[u] /\ wake'[u] = wake[u] /\ left'[u] = left[u]
                       \/ container'[u] \in Priority
    BY <1>17 DEF xTaskGenericCreate, TypeOK
  <2> QED
    BY <1>17, <2>1, <1>p DEF xTaskGenericCreate, clock
<1>18. ASSUME NEW t \in Task, NEW p \in Priority, vTaskPrioritySet(t, p) PROVE DelaysAgree'
  <2>1. \A u \in Task : container'[u] = container[u] \/ container'[u] \in Priority
    BY <1>18 DEF vTaskPrioritySet, MoveToReady, TypeOK
  <2> QED
    BY <1>18, <2>1, <1>p DEF vTaskPrioritySet, clock
<1>19. CASE Signal
  BY <1>19, <1>r DEF Signal, clock
<1>20. CASE UnlockQueue
  BY <1>20, <1>r DEF UnlockQueue, clock
<1>21. CASE IdleReap
  <2>1. \A u \in Task : container'[u] = container[u] \/ container'[u] = NotCreated
    BY <1>21 DEF IdleReap, TypeOK
  <2> QED
    BY <1>21, <2>1, <1>p DEF IdleReap, clock
<1>22. CASE UNCHANGED vars
  BY <1>22, <1>u DEF vars, lists, clock, vars
<1>23. CASE NotListed
  BY <1>23, <1>u DEF NotListed, lists, clock, vars
<1> QED
  BY <1>1, <1>2, <1>3, <1>4, <1>5, <1>6, <1>7, <1>8, <1>9, <1>10, <1>11, <1>12, <1>13, <1>14, <1>15, <1>16, <1>17, <1>18, <1>19, <1>20, <1>21, <1>22, <1>23, UntilCases DEF Next, Block, Resume, Manage
-----------------------------------------------------------------------------
(* The theorems *)

\* The invariant holds initially.
LEMMA InitInv == Init => IInv
<1> SUFFICES ASSUME Init PROVE IInv
  OBVIOUS
<1>1. TypeOK /\ CallState
  BY InitTypes
<1>2. ReadyListsAgree
  BY <1>1, SchedulerAssumption DEF Init, TypeOK, ReadyListsAgree, Members, Ready
<1>3. NothingLeftPending
  BY DEF Init, NothingLeftPending, PendingReady, PendingReadyList, NoEvent
<1>4. SwitchIsDue
  BY <1>1 DEF Init, TypeOK, SwitchIsDue, Ready
<1>5. DelaysAgree
  BY SchedulerAssumption DEF Init, DelaysAgree, Delayed, DelayedList, OverflowList, Priority
<1> QED
  BY <1>1, <1>2, <1>3, <1>4, <1>5 DEF IInv

\* The inductive invariant of the kernel.
THEOREM KernelInvariant == Spec => []IInv
<1>1. IInv /\ [Next]_vars => IInv'
  BY TypeStep, CallStep, ReadyStep, PendingStep, SwitchStep, DelayStep DEF IInv
<1> QED
  BY InitInv, <1>1, PTL DEF Spec

\* The variables keep the types the C declarations give them, the 32-bit tick
\* count and the priorities below configMAX_PRIORITIES included.
THEOREM TypeCorrect == Spec => []TypeOK
  BY KernelInvariant, PTL DEF IInv

\* uxTopReadyPriority, the ready lists and the priorities of the tasks agree in
\* every state, so that vTaskSwitchContext always finds a task to run.
THEOREM ReadyListsCorrect == Spec => []ReadyListsAgree
  BY KernelInvariant, PTL DEF IInv

\* Preemption: application code runs only in a ready task of the highest ready
\* priority, unless the scheduler is suspended or a switch is pending.
THEOREM HighestPriority == Spec => []HighestPriorityRuns
<1>1. IInv => HighestPriorityRuns
  BY DEF IInv, TypeOK, CallState, SwitchIsDue, HighestPriorityRuns
<1> QED
  BY KernelInvariant, <1>1, PTL

\* xTaskResumeAll leaves no task and no tick behind.
THEOREM PendingDrained == Spec => []NothingLeftPending
  BY KernelInvariant, PTL DEF IInv

\* Every delay and timeout ends at its tick, wherever the tick count wraps and
\* however long the scheduler was suspended.
THEOREM DelaysExact == Spec => DelayIsExact
<1>1. IInv /\ [Next]_vars =>
        [tick' /= tick => \A t \in Task : Delayed(t) => (Delayed(t)' <=> left[t] > 1)]_vars
  <2> SUFFICES ASSUME IInv, [Next]_vars, tick' /= tick
               PROVE  \A t \in Task : Delayed(t) => (Delayed(t)' <=> left[t] > 1)
    OBVIOUS
  <2>1. IncrementTick
    BY DEF Next, Block, Resume, Manage, SysTick, vTaskSwitchContext, SignalFromISR,
       xTaskResumeFromISR, Yield, vTaskSuspendAll, BlockStart, vTaskDelay, vTaskPlaceOnEventList,
       vTaskDelayUntil, NotListed, lists,
       xTaskResumeAll, UnwindTick, ResumeDone, ResetUnblockTime, vTaskSuspend, vTaskDelete, TakeOff,
       vTaskResume, xTaskGenericCreate, vTaskPrioritySet, Signal, UnlockQueue, IdleReap, clock, vars
  <2> QED
    BY <2>1, TickDelays DEF IInv
<1> QED
  BY KernelInvariant, <1>1, PTL DEF Spec, DelayIsExact

-------------------------------------------------------------------------------
(* vTaskDelayUntil keeps a task on its schedule *)

periodicVars == <<vars, previous, since>>
Round == MaxTick + 1

\* The last wake time and the ticks counted since then lead to the present
\* tick, up to one round of the tick count in either direction.
InStep ==
    /\ previous \in [Periodic -> Tick]
    /\ since \in [Periodic -> -MaxTick .. OutOfStep]
    /\ \A t \in Periodic : since[t] /= OutOfStep =>
          previous[t] + since[t] \in {tick, tick + Round, tick - Round}

PeriodicInv == IInv /\ InStep

\* A periodic task uses the kernel of Scheduler and adds nothing to it.
LEMMA KernelStep ==
    ASSUME InStep, [PeriodicNext]_periodicVars
    PROVE  [Next]_vars
<1>1. ASSUME NEW n \in 1 .. MaxTick, DelayUntil(n) PROVE Next
  <2>1. previous[current] \in Tick
    BY <1>1 DEF DelayUntil, InStep
  <2> QED
    BY <1>1, <2>1 DEF DelayUntil, Next, Block
<1>2. CASE xTaskGetTickCount
  BY <1>2 DEF xTaskGetTickCount
<1>3. CASE Kernel
  BY <1>3 DEF Kernel
<1>4. CASE UNCHANGED periodicVars
  BY <1>4 DEF periodicVars
<1> QED
  BY <1>1, <1>2, <1>3, <1>4 DEF PeriodicNext

\* The tick count stands still or moves on by one, with its wrap.
LEMMA TickMoves ==
    ASSUME Next
    PROVE  tick' = tick \/ tick' = NewTick
  BY DEF Next, Block, Resume, Manage, SysTick, vTaskSwitchContext, SignalFromISR,
     xTaskResumeFromISR, Yield, vTaskSuspendAll, BlockStart, vTaskDelay, vTaskPlaceOnEventList,
     vTaskDelayUntil, NotListed, xTaskResumeAll, UnwindTick, ResumeDone, ResetUnblockTime,
     vTaskSuspend, vTaskDelete, TakeOff, vTaskResume, xTaskGenericCreate, vTaskPrioritySet,
     Signal, UnlockQueue, IdleReap, IncrementTick, clock

\* One tick wraps at most once, and so does one increment.
LEMMA Wraps ==
    ASSUME NEW a \in Tick, NEW n \in 1 .. MaxTick
    PROVE  /\ (a + n) % Round = IF a + n <= MaxTick THEN a + n ELSE a + n - Round
           /\ (a + n) % Round \in Tick
  BY SchedulerAssumption, SMT DEF Tick, Round

LEMMA Ahead ==
    ASSUME NEW d \in 1 .. MaxTick, NEW x \in {d, d - Round}
    PROVE  x % Round = d
  BY SchedulerAssumption, SMT DEF Round
-----------------------------------------------------------------------------
LEMMA InStepKept ==
    ASSUME TypeOK, InStep, [PeriodicNext]_periodicVars
    PROVE  InStep'
<1> USE SchedulerAssumption DEF OutOfStep
<1>t. tick \in Tick
  BY DEF TypeOK
<1>1. CASE xTaskGetTickCount
  <2>1. previous' = [previous EXCEPT ![current] = tick] /\ since' = [since EXCEPT ![current] = 0]
        /\ tick' = tick
    BY <1>1 DEF xTaskGetTickCount, vars, clock
  <2>2. previous' \in [Periodic -> Tick] /\ since' \in [Periodic -> -MaxTick .. OutOfStep]
    <3>1. 0 \in -MaxTick .. OutOfStep
      OBVIOUS
    <3> QED
      BY <1>t, <2>1, <3>1 DEF InStep
  <2>3. ASSUME NEW t \in Periodic, since'[t] /= OutOfStep
        PROVE  previous'[t] + since'[t] \in {tick', tick' + Round, tick' - Round}
    <3>1. CASE t = current
      <4>1. previous'[t] = tick /\ since'[t] = 0
        BY <2>1, <3>1 DEF InStep
      <4> QED
        BY <1>t, <2>1, <4>1 DEF Tick
    <3>2. CASE t /= current
      BY <2>1, <2>3, <3>2 DEF InStep
    <3> QED
      BY <3>1, <3>2
  <2> QED
    BY <2>2, <2>3 DEF InStep
<1>2. ASSUME NEW n \in 1 .. MaxTick, DelayUntil(n) PROVE InStep'
  <2>1. /\ current \in Periodic
        /\ previous' = [previous EXCEPT ![current] = WakeTime(@, n)]
        /\ since' = [since EXCEPT ![current] = IF @ \in 0 .. MaxTick THEN @ - n ELSE OutOfStep]
    BY <1>2 DEF DelayUntil
  <2>2. tick' = tick
    BY <1>2 DEF DelayUntil, vTaskDelayUntil, vTaskDelay, NotListed, clock
  <2> DEFINE p == previous[current]
  <2> DEFINE s == since[current]
  <2>3. p \in Tick /\ s \in -MaxTick .. OutOfStep
    BY <2>1 DEF InStep
  <2>4. WakeTime(p, n) \in Tick /\ WakeTime(p, n) \in {p + n, p + n - Round}
    BY <2>3, Wraps DEF WakeTime, Round, Tick
  <2>5. previous' \in [Periodic -> Tick]
    BY <2>1, <2>4 DEF InStep
  <2>6. since' \in [Periodic -> -MaxTick .. OutOfStep]
    BY <2>1, <2>3 DEF InStep
  <2>7. ASSUME s \in 0 .. MaxTick
        PROVE  WakeTime(p, n) + (s - n) \in {tick, tick + Round, tick - Round}
    <3>1. p + s \in {tick, tick + Round}
      BY <1>t, <2>1, <2>3, <2>7 DEF InStep, Round, Tick
    <3> HIDE DEF p, s
    <3> QED
      BY <1>t, <2>3, <2>4, <2>7, <3>1 DEF Round, Tick
  <2>8. ASSUME NEW t \in Periodic, since'[t] /= OutOfStep
        PROVE  previous'[t] + since'[t] \in {tick', tick' + Round, tick' - Round}
    <3>1. CASE t = current
      BY <2>1, <2>2, <2>7, <2>8, <3>1 DEF InStep
    <3>2. CASE t /= current
      BY <2>1, <2>2, <2>8, <3>2 DEF InStep
    <3> QED
      BY <3>1, <3>2
  <2> QED
    BY <2>5, <2>6, <2>8 DEF InStep
<1>3. CASE Kernel
  <2>1. CASE tick' = tick
    BY <1>3, <2>1 DEF Kernel, InStep
  <2>2. CASE tick' /= tick
    <3>1. previous' = previous /\ since' = Aged
      BY <1>3, <2>2 DEF Kernel
    <3>2. tick' \in {tick + 1, tick + 1 - Round} /\ tick' \in Tick
      <4>1. tick' = NewTick
        BY <1>3, <2>2, TickMoves DEF Kernel
      <4>2. 1 \in 1 .. MaxTick
        OBVIOUS
      <4>3. NewTick \in {tick + 1, tick + 1 - Round} /\ NewTick \in Tick
        BY <1>t, <4>2, Wraps DEF NewTick, Round, Tick
      <4> QED
        BY <4>1, <4>3
    <3>3. since' \in [Periodic -> -MaxTick .. OutOfStep]
      BY <3>1 DEF InStep, Aged
    <3>4. ASSUME NEW t \in Periodic, since'[t] /= OutOfStep
          PROVE  previous'[t] + since'[t] \in {tick', tick' + Round, tick' - Round}
      <4>1. since[t] \in -MaxTick .. MaxTick /\ since'[t] = since[t] + 1 /\ since'[t] <= MaxTick
        BY <3>1, <3>4 DEF InStep, Aged
      <4>2. previous[t] \in Tick /\ previous[t] + since[t] \in {tick, tick + Round, tick - Round}
        BY <4>1 DEF InStep
      <4> QED
        BY <1>t, <3>1, <3>2, <4>1, <4>2 DEF Round, Tick
    <3> QED
      BY <3>1, <3>3, <3>4 DEF InStep
  <2> QED
    BY <2>1, <2>2
<1>4. CASE UNCHANGED periodicVars
  BY <1>4 DEF periodicVars, vars, clock, InStep
<1> QED
  BY <1>1, <1>2, <1>3, <1>4 DEF PeriodicNext

LEMMA PeriodicInitInv == PeriodicInit => PeriodicInv
<1> SUFFICES ASSUME PeriodicInit PROVE PeriodicInv
  OBVIOUS
<1>1. IInv
  BY InitInv DEF PeriodicInit
<1>2. InStep
  BY SchedulerAssumption DEF PeriodicInit, InStep, OutOfStep, Tick
<1> QED
  BY <1>1, <1>2 DEF PeriodicInv

\* The invariant of the kernel, and the arithmetic of the last wake times.
THEOREM PeriodicInvariant == PeriodicSpec => []PeriodicInv
<1>1. PeriodicInv /\ [PeriodicNext]_periodicVars => PeriodicInv'
  <2> SUFFICES ASSUME PeriodicInv, [PeriodicNext]_periodicVars PROVE PeriodicInv'
    OBVIOUS
  <2>1. [Next]_vars
    BY KernelStep DEF PeriodicInv
  <2>2. IInv'
    BY <2>1, TypeStep, CallStep, ReadyStep, PendingStep, SwitchStep, DelayStep DEF PeriodicInv, IInv
  <2>3. InStep'
    BY InStepKept DEF PeriodicInv, IInv
  <2> QED
    BY <2>2, <2>3 DEF PeriodicInv
<1> QED
  BY PeriodicInitInv, <1>1, PTL DEF PeriodicSpec, periodicVars

\* vTaskDelayUntil sleeps exactly when the next wake time is still to come, and
\* for exactly the ticks that are missing, for every width of the tick count.
THEOREM Punctual == PeriodicSpec => OnSchedule
<1>1. ASSUME PeriodicInv, NEW n \in 1 .. MaxTick, DelayUntil(n), since[current] \in 0 .. MaxTick
      PROVE  IF since[current] < n
             THEN Delayed(current)' /\ left'[current] = n - since[current]
             ELSE UNCHANGED <<container, left>>
  <2> DEFINE p == previous[current]
  <2> DEFINE s == since[current]
  <2> DEFINE w == WakeTime(p, n)
  <2>1. /\ p \in Tick /\ tick \in Tick /\ current \in Task /\ s \in 0 .. MaxTick
        /\ p + s \in {tick, tick + Round}
    BY <1>1, SchedulerAssumption
    DEF PeriodicInv, InStep, IInv, TypeOK, DelayUntil, OutOfStep, Round, Tick
  <2>2. w = IF p + n <= MaxTick THEN p + n ELSE p + n - Round
    BY <2>1, Wraps DEF WakeTime, Round
  <2>3. vTaskDelayUntil(p, n)
    BY <1>1 DEF DelayUntil
  <2>4. ShouldDelay(p, w) <=> s < n
    <3> HIDE DEF p, s, w
    <3> QED
      BY <2>1, <2>2, SchedulerAssumption DEF ShouldDelay, Round, Tick
  <2>5. CASE s < n
    <3>1. n - s \in 1 .. MaxTick /\ w - tick \in {n - s, n - s - Round}
      <4> HIDE DEF p, s, w
      <4> QED
        BY <2>1, <2>2, <2>5, SchedulerAssumption DEF Round, Tick
    <3>2. (w - tick) % Round = n - s
      <4> HIDE DEF p, s, w
      <4> QED
        BY <3>1, Ahead
    <3>3. vTaskDelay(n - s)
      BY <2>3, <2>4, <2>5, <3>2 DEF vTaskDelayUntil, Round
    <3>4. left' = [left EXCEPT ![current] = n - s] /\ current' = current
          /\ (MoveTo(current, OverflowList) \/ MoveTo(current, DelayedList))
      BY <3>3 DEF vTaskDelay, prvAddCurrentTaskToDelayedList
    <3> QED
      BY <1>1, <2>1, <2>5, <3>4 DEF PeriodicInv, IInv, TypeOK, MoveTo, Delayed
  <2>6. CASE ~(s < n)
    BY <2>3, <2>4, <2>6 DEF vTaskDelayUntil, NotListed, lists
  <2> QED
    BY <2>5, <2>6
<1>2. PeriodicInv /\ [PeriodicNext]_periodicVars =>
        [\A increment \in 1 .. MaxTick :
            DelayUntil(increment) /\ since[current] \in 0 .. MaxTick =>
                IF since[current] < increment
                THEN Delayed(current)' /\ left'[current] = increment - since[current]
                ELSE UNCHANGED <<container, left>>]_periodicVars
  BY <1>1
<1> QED
  BY PeriodicInvariant, <1>2, PTL DEF PeriodicSpec, OnSchedule, periodicVars

-----------------------------------------------------------------------------
(***************************************************************************)
(* The lists.  The pointers form one ring, and that ring, as a sequence    *)
(* that ends at pxIndex, does what ListRing promises.                      *)
(*                                                                         *)
(* The pointers have no sequence in them.  The invariant says that one     *)
(* exists: each operation turns the sequence that shows the list before    *)
(* into the one that shows it after.                                       *)
(***************************************************************************)

(***************************************************************************)
(* A ring of nodes as the sequence an observer writes down, from any node  *)
(* of it around to the one before.                                         *)
(***************************************************************************)
After(q, k) == IF k = Len(q) THEN 1 ELSE k + 1

Circle(succ, pred, items, q) ==
    /\ q \in Seq(Node) /\ Len(q) >= 1
    /\ \A j, k \in 1 .. Len(q) : q[j] = q[k] => j = k
    /\ \A k \in 1 .. Len(q) : q[k] \in items \cup {End}
    /\ \A n \in items \cup {End} : \E k \in 1 .. Len(q) : q[k] = n
    /\ \A k \in 1 .. Len(q) : succ[q[k]] = q[After(q, k)] /\ pred[q[After(q, k)]] = q[k]

\* The sequence with one more element, or with one less.
With(q, k, i) == [j \in 1 .. Len(q) + 1 |-> IF j <= k THEN q[j] ELSE IF j = k + 1 THEN i ELSE q[j - 1]]
Less(q, a) == [j \in 1 .. Len(q) - 1 |-> IF j < a THEN q[j] ELSE q[j + 1]]
Turned(q) == [j \in 1 .. Len(q) |-> IF j < Len(q) THEN q[j + 1] ELSE q[1]]

IsWith(r, q, k, i) ==
    /\ r \in Seq(Node) /\ Len(r) = Len(q) + 1
    /\ \A j \in 1 .. Len(q) + 1 : r[j] = IF j <= k THEN q[j] ELSE IF j = k + 1 THEN i ELSE q[j - 1]

LEMMA WithIs ==
    ASSUME NEW q \in Seq(Node), NEW k \in 0 .. Len(q), NEW i \in Node
    PROVE  IsWith(With(q, k, i), q, k, i)
<1>1. \A j \in 1 .. Len(q) + 1 :
         (IF j <= k THEN q[j] ELSE IF j = k + 1 THEN i ELSE q[j - 1]) \in Node
  OBVIOUS
<1> QED BY <1>1 DEF With, IsWith

LEMMA LessIs ==
    ASSUME NEW q \in Seq(Node), NEW a \in 1 .. Len(q)
    PROVE  /\ Less(q, a) \in Seq(Node) /\ Len(Less(q, a)) = Len(q) - 1
           /\ \A j \in 1 .. Len(q) - 1 : Less(q, a)[j] = IF j < a THEN q[j] ELSE q[j + 1]
<1>1. \A j \in 1 .. Len(q) - 1 : (IF j < a THEN q[j] ELSE q[j + 1]) \in Node
  OBVIOUS
<1>2. Len(q) - 1 \in Nat
  OBVIOUS
<1> QED BY <1>1, <1>2 DEF Less

LEMMA TurnedIs ==
    ASSUME NEW q \in Seq(Node), Len(q) >= 1
    PROVE  /\ Turned(q) \in Seq(Node) /\ Len(Turned(q)) = Len(q)
           /\ \A j \in 1 .. Len(q) : Turned(q)[j] = IF j < Len(q) THEN q[j + 1] ELSE q[1]
<1>1. \A j \in 1 .. Len(q) : (IF j < Len(q) THEN q[j + 1] ELSE q[1]) \in Node
  OBVIOUS
<1> QED BY <1>1 DEF Turned

\* A step further the same ring begins with its second node.
LEMMA TurnedCircle ==
    ASSUME NEW succ, NEW pred, NEW items, NEW q, Circle(succ, pred, items, q)
    PROVE  Circle(succ, pred, items, Turned(q))
<1> DEFINE r == Turned(q)
           L == Len(q)
<1>1. q \in Seq(Node) /\ L \in Nat /\ L >= 1
  BY DEF Circle
<1>2. r \in Seq(Node) /\ Len(r) = L /\ \A j \in 1 .. L : r[j] = q[After(q, j)]
  BY <1>1, TurnedIs DEF After
<1>3. \A j \in 1 .. L : After(q, j) \in 1 .. L /\ After(r, j) = After(q, j)
  BY <1>1, <1>2 DEF After
<1> HIDE DEF r, L
<1>4. ASSUME NEW j \in 1 .. L, NEW k \in 1 .. L, r[j] = r[k]
      PROVE  j = k
  <2>1. After(q, j) = After(q, k)
    BY <1>2, <1>3, <1>4 DEF Circle, L
  <2> QED BY <1>1, <2>1 DEF After, L
<1>5. \A k \in 1 .. L : r[k] \in items \cup {End}
  BY <1>2, <1>3 DEF Circle, L
<1>6. ASSUME NEW n \in items \cup {End}
      PROVE  \E k \in 1 .. L : r[k] = n
  <2>1. PICK k \in 1 .. L : q[k] = n
    BY DEF Circle, L
  <2>2. \E j \in 1 .. L : After(q, j) = k
    <3>1. CASE k = 1
      BY <1>1, <3>1 DEF After, L
    <3>2. CASE k /= 1
      <4>1. k - 1 \in 1 .. L /\ After(q, k - 1) = k
        BY <1>1, <3>2 DEF After, L
      <4> QED BY <4>1
    <3> QED BY <3>1, <3>2
  <2> QED BY <1>2, <2>1, <2>2
<1>7. ASSUME NEW k \in 1 .. L
      PROVE  succ[r[k]] = r[After(r, k)] /\ pred[r[After(r, k)]] = r[k]
  <2>1. r[k] = q[After(q, k)] /\ r[After(r, k)] = q[After(q, After(q, k))]
    BY <1>2, <1>3
  <2> QED BY <1>3, <2>1 DEF Circle, L
<1> QED BY <1>1, <1>2, <1>4, <1>5, <1>6, <1>7 DEF Circle, r

\* Link puts an item between a node and its successor.
LEMMA WithCircle ==
    ASSUME NEW succ \in [Node -> Node], NEW pred \in [Node -> Node], NEW items, NEW q,
           Circle(succ, pred, items, q), NEW k \in 0 .. Len(q) - 1, NEW i \in Item, i \notin items,
           NEW p, p = IF k = 0 THEN q[Len(q)] ELSE q[k]
    PROVE  Circle([succ EXCEPT ![i] = succ[p], ![p] = i], [pred EXCEPT ![i] = p, ![succ[p]] = i],
                  items \cup {i}, With(q, k, i))
<1> DEFINE r == With(q, k, i)
           L == Len(q)
           s == succ[p]
           succ2 == [succ EXCEPT ![i] = s, ![p] = i]
           pred2 == [pred EXCEPT ![i] = p, ![s] = i]
<1>1. q \in Seq(Node) /\ L \in Nat /\ L >= 1 /\ k \in 0 .. L - 1
  BY DEF Circle
<1>2. i \in Node /\ \A j \in 1 .. L : q[j] /= i /\ q[j] \in Node
  BY <1>1, ListAssumption DEF Circle, Node
<1>3. r \in Seq(Node) /\ Len(r) = L + 1
      /\ \A j \in 1 .. L + 1 : r[j] = IF j <= k THEN q[j] ELSE IF j = k + 1 THEN i ELSE q[j - 1]
  <2>1. q \in Seq(Node) /\ k \in 0 .. Len(q) /\ i \in Node
    BY <1>1, <1>2
  <2>2. IsWith(r, q, k, i)
    BY <2>1, WithIs
  <2> HIDE DEF r
  <2> QED BY <2>2 DEF IsWith
<1>4. s = q[k + 1] /\ p \in Node /\ s \in Node /\ p /= i /\ s /= i
  <2>1. CASE k = 0
    <3>1. L \in 1 .. L /\ After(q, L) = 1 /\ 1 \in 1 .. L
      BY <1>1 DEF After
    <3> QED BY <1>2, <2>1, <3>1 DEF Circle
  <2>2. CASE k /= 0
    <3>1. k \in 1 .. L /\ After(q, k) = k + 1 /\ k + 1 \in 1 .. L
      BY <1>1, <2>2 DEF After
    <3> QED BY <1>2, <2>2, <3>1 DEF Circle
  <2> QED BY <2>1, <2>2
<1> HIDE DEF s
<1>5. /\ succ2[i] = s /\ succ2[p] = i /\ \A n \in Node : n /= i /\ n /= p => succ2[n] = succ[n]
      /\ pred2[i] = p /\ pred2[s] = i /\ \A n \in Node : n /= i /\ n /= s => pred2[n] = pred[n]
  BY <1>2, <1>4
<1>6. \A j \in 1 .. L : /\ succ[q[j]] = q[IF j = L THEN 1 ELSE j + 1]
                        /\ pred[q[IF j = L THEN 1 ELSE j + 1]] = q[j]
  BY <1>1 DEF Circle, After
<1>7. \A j, l \in 1 .. L : q[j] = q[l] => j = l
  BY DEF Circle
<1> HIDE DEF r, succ2, pred2, L
<1>8. ASSUME NEW j \in 1 .. L + 1, NEW l \in 1 .. L + 1, r[j] = r[l]
      PROVE  j = l
  <2>1. /\ j <= k => j \in 1 .. L
        /\ j > k + 1 => j - 1 \in 1 .. L
        /\ l <= k => l \in 1 .. L
        /\ l > k + 1 => l - 1 \in 1 .. L
    BY <1>1
  <2>2. /\ j = k + 1 <=> r[j] = i
        /\ l = k + 1 <=> r[l] = i
    <3>1. ASSUME NEW m \in 1 .. L + 1
          PROVE  m = k + 1 <=> r[m] = i
      <4>1. CASE m = k + 1
        BY <1>1, <1>3, <4>1
      <4>2. CASE m <= k
        <5>1. m \in 1 .. L /\ r[m] = q[m] /\ m /= k + 1
          BY <1>1, <1>3, <4>2
        <5> QED BY <1>2, <5>1
      <4>3. CASE m > k + 1
        <5>1. m - 1 \in 1 .. L /\ r[m] = q[m - 1] /\ m /= k + 1
          BY <1>1, <1>3, <4>3
        <5> QED BY <1>2, <5>1
      <4> QED BY <1>1, <4>1, <4>2, <4>3
    <3> QED BY <3>1
  <2>3. CASE r[j] = i
    BY <1>8, <2>2, <2>3
  <2>4. CASE r[j] /= i /\ j <= k /\ l <= k
    BY <1>3, <1>7, <1>8, <2>1, <2>4
  <2>5. CASE r[j] /= i /\ j > k + 1 /\ l > k + 1
    <3>1. q[j - 1] = q[l - 1]
      BY <1>1, <1>3, <1>8, <2>5
    <3>2. j - 1 = l - 1
      BY <1>7, <2>1, <2>5, <3>1
    <3> QED BY <3>2
  <2>6. CASE r[j] /= i /\ j <= k /\ l > k + 1
    <3>1. q[j] = q[l - 1]
      BY <1>1, <1>3, <1>8, <2>6
    <3>2. j = l - 1
      BY <1>7, <2>1, <2>6, <3>1
    <3> QED BY <1>1, <2>6, <3>2
  <2>7. CASE r[j] /= i /\ j > k + 1 /\ l <= k
    <3>1. q[j - 1] = q[l]
      BY <1>1, <1>3, <1>8, <2>7
    <3>2. j - 1 = l
      BY <1>7, <2>1, <2>7, <3>1
    <3> QED BY <1>1, <2>7, <3>2
  <2>8. \/ j <= k \/ j = k + 1 \/ j > k + 1
        \/ r[j] = i
    BY <1>1
  <2> QED BY <1>1, <1>8, <2>2, <2>3, <2>4, <2>5, <2>6, <2>7, <2>8
<1>9. \A j \in 1 .. L + 1 : r[j] \in items \cup {i} \cup {End}
  <2>1. \A j \in 1 .. L : q[j] \in items \cup {End}
    BY DEF Circle, L
  <2> QED BY <1>1, <1>3, <2>1
<1>10. ASSUME NEW n \in (items \cup {i}) \cup {End}
       PROVE  \E j \in 1 .. L + 1 : r[j] = n
  <2>1. CASE n = i
    <3>1. k + 1 \in 1 .. L + 1 /\ r[k + 1] = i
      BY <1>1, <1>3
    <3> QED BY <2>1, <3>1
  <2>2. CASE n /= i
    <3>1. PICK l \in 1 .. L : q[l] = n
      BY <2>2 DEF Circle, L
    <3>2. CASE l <= k
      <4>1. l \in 1 .. L + 1 /\ r[l] = q[l]
        BY <1>1, <1>3, <3>2
      <4> QED BY <3>1, <4>1
    <3>3. CASE l > k
      <4>1. l + 1 \in 1 .. L + 1 /\ r[l + 1] = q[l]
        BY <1>1, <1>3, <3>3
      <4> QED BY <3>1, <4>1
    <3> QED BY <1>1, <3>2, <3>3
  <2> QED BY <2>1, <2>2
<1>11. ASSUME NEW j \in 1 .. L + 1
       PROVE  succ2[r[j]] = r[After(r, j)] /\ pred2[r[After(r, j)]] = r[j]
  <2>1. After(r, j) = IF j = L + 1 THEN 1 ELSE j + 1
    BY <1>3 DEF After
  <2>2. CASE j = k + 1
    <3>2. k + 1 \in 1 .. L + 1 /\ k + 2 \in 1 .. L + 1 /\ k + 1 /= L + 1 /\ ~ (k + 1 <= k)
      BY <1>1
    <3>3. ~ (k + 2 <= k) /\ k + 2 /= k + 1 /\ (k + 2) - 1 = k + 1 /\ (k + 1) + 1 = k + 2
      BY <1>1
    <3>4. r[k + 1] = i /\ r[k + 2] = q[k + 1]
      BY <1>3, <3>2, <3>3
    <3>1. r[j] = i /\ After(r, j) = k + 2 /\ r[k + 2] = q[k + 1]
      BY <2>1, <2>2, <3>2, <3>3, <3>4
    <3> QED BY <1>4, <1>5, <3>1
  <2>3. CASE j <= k
    <3>1. r[j] = q[j] /\ After(r, j) = j + 1 /\ j \in 1 .. L /\ j /= L /\ j + 1 \in 1 .. L
      BY <1>1, <1>3, <2>1, <2>3
    <3>2. CASE j = k
      <4>1. r[j + 1] = i /\ q[j] = p
        BY <1>1, <1>3, <3>1, <3>2 DEF L
      <4> QED BY <1>4, <1>5, <3>1, <4>1
    <3>3. CASE j < k
      <4>1. r[j + 1] = q[j + 1] /\ succ[q[j]] = q[j + 1] /\ pred[q[j + 1]] = q[j]
        BY <1>1, <1>3, <1>6, <3>1, <3>3
      <4>2. q[j] /= p
        BY <1>1, <1>7, <3>1, <3>3 DEF L
      <4>3. q[j + 1] /= s
        BY <1>1, <1>4, <1>7, <3>1, <3>3 DEF L
      <4> QED BY <1>2, <1>5, <3>1, <4>1, <4>2, <4>3
    <3> QED BY <1>1, <2>3, <3>2, <3>3
  <2>4. CASE j > k + 1 /\ j /= L + 1
    <3>5. j - 1 \in 1 .. L /\ j - 1 /= L /\ j \in 1 .. L /\ (j - 1) + 1 = j /\ After(r, j) = j + 1
      BY <1>1, <2>1, <2>4
    <3>6. /\ j + 1 \in 1 .. L + 1 /\ (j + 1) - 1 = j
          /\ ~ (j <= k) /\ j /= k + 1 /\ ~ (j + 1 <= k) /\ j + 1 /= k + 1
      BY <1>1, <2>4
    <3>7. r[j] = q[j - 1] /\ r[j + 1] = q[j]
      BY <1>3, <3>6
    <3>1. /\ r[j] = q[j - 1] /\ After(r, j) = j + 1 /\ j - 1 \in 1 .. L /\ j - 1 /= L /\ j \in 1 .. L
          /\ r[j + 1] = q[j] /\ (j - 1) + 1 = j
      BY <3>5, <3>7
    <3>2. succ[q[j - 1]] = q[j] /\ pred[q[j]] = q[j - 1]
      BY <1>6, <3>1
    <3>3. q[j - 1] /= p
      BY <1>1, <1>7, <2>4, <3>1 DEF L
    <3>4. q[j] /= s
      BY <1>1, <1>4, <1>7, <2>4, <3>1
    <3> QED BY <1>2, <1>5, <3>1, <3>2, <3>3, <3>4
  <2>5. CASE j > k + 1 /\ j = L + 1
    <3>1. r[j] = q[L] /\ After(r, j) = 1 /\ L \in 1 .. L /\ 1 \in 1 .. L
      BY <1>1, <1>3, <2>1, <2>5
    <3>2. CASE k = 0
      <4>1. r[1] = i /\ p = q[L]
        BY <1>1, <1>3, <3>2 DEF L
      <4> QED BY <1>4, <1>5, <3>1, <4>1
    <3>3. CASE k /= 0
      <4>0. 1 <= k /\ 1 \in 1 .. L + 1 /\ k + 1 \in 1 .. L /\ k + 1 /= 1
        BY <1>1, <3>3
      <4>1. r[1] = q[1] /\ succ[q[L]] = q[1] /\ pred[q[1]] = q[L]
        <5>1. r[1] = q[1]
          BY <1>3, <4>0
        <5> QED BY <1>6, <3>1, <5>1
      <4>2. q[L] /= p
        BY <1>1, <1>7, <3>1, <3>3 DEF L
      <4>3. q[1] /= s
        BY <1>4, <1>7, <3>1, <4>0
      <4> QED BY <1>2, <1>5, <3>1, <4>1, <4>2, <4>3
    <3> QED BY <3>2, <3>3
  <2> QED BY <1>1, <2>2, <2>3, <2>4, <2>5
<1>12. Circle(succ2, pred2, items \cup {i}, r)
  <2>1. Len(r) = L + 1 /\ Len(r) >= 1
    BY <1>1, <1>3
  <2> QED BY <1>3, <1>8, <1>9, <1>10, <1>11, <2>1 DEF Circle
<1> QED BY <1>12 DEF r, succ2, pred2, s

\* uxListRemove takes an item out from between its neighbours.
LEMMA LessCircle ==
    ASSUME NEW succ \in [Node -> Node], NEW pred \in [Node -> Node], NEW items, NEW q,
           Circle(succ, pred, items, q), NEW a \in 1 .. Len(q), q[a] /= End
    PROVE  Circle([succ EXCEPT ![pred[q[a]]] = succ[q[a]]], [pred EXCEPT ![succ[q[a]]] = pred[q[a]]],
                  items \ {q[a]}, Less(q, a))
<1> DEFINE r == Less(q, a)
           L == Len(q)
           i == q[a]
           s == succ[i]
           p == pred[i]
           succ2 == [succ EXCEPT ![p] = s]
           pred2 == [pred EXCEPT ![s] = p]
           b == IF a = 1 THEN L ELSE a - 1
           c == IF a = L THEN 1 ELSE a + 1
<1>1. q \in Seq(Node) /\ L \in Nat /\ L >= 1 /\ a \in 1 .. L
  BY DEF Circle
<1>2. \A j \in 1 .. L : q[j] \in Node
  BY <1>1
<1>3. r \in Seq(Node) /\ Len(r) = L - 1
      /\ \A j \in 1 .. L - 1 : r[j] = IF j < a THEN q[j] ELSE q[j + 1]
  BY <1>1, LessIs
<1>4. \A j \in 1 .. L : /\ succ[q[j]] = q[IF j = L THEN 1 ELSE j + 1]
                        /\ pred[q[IF j = L THEN 1 ELSE j + 1]] = q[j]
  BY <1>1 DEF Circle, After
<1>5. \A j, l \in 1 .. L : q[j] = q[l] => j = l
  BY DEF Circle
<1>6. L >= 2
  <2>1. PICK e \in 1 .. L : q[e] = End
    BY DEF Circle
  <2>2. e /= a
    BY <2>1
  <2> QED BY <1>1, <2>1, <2>2
<1>7. b \in 1 .. L /\ c \in 1 .. L /\ b /= a /\ c /= a /\ s = q[c] /\ p = q[b]
  <2>1. b \in 1 .. L /\ c \in 1 .. L /\ b /= a /\ c /= a
    BY <1>1, <1>6
  <2>2. s = q[c]
    BY <1>1, <1>4
  <2>3. a = IF b = L THEN 1 ELSE b + 1
    BY <1>1, <1>6
  <2>4. p = q[b]
    BY <1>4, <2>1, <2>3
  <2> QED BY <2>1, <2>2, <2>4
<1>8. /\ succ2[p] = s /\ \A n \in Node : n /= p => succ2[n] = succ[n]
      /\ pred2[s] = p /\ \A n \in Node : n /= s => pred2[n] = pred[n]
  BY <1>2, <1>7
<1> DEFINE old(j) == IF j < a THEN j ELSE j + 1
<1>9. \A j \in 1 .. L - 1 : old(j) \in 1 .. L /\ old(j) /= a /\ r[j] = q[old(j)]
  BY <1>1, <1>3
<1>10. \A j, l \in 1 .. L - 1 : old(j) = old(l) => j = l
  BY <1>1
<1>11. ASSUME NEW m \in 1 .. L, m /= a
       PROVE  \E j \in 1 .. L - 1 : old(j) = m
  <2>1. CASE m < a
    BY <1>1, <2>1
  <2>2. CASE m > a
    <3>1. m - 1 \in 1 .. L - 1 /\ old(m - 1) = m
      BY <1>1, <2>2
    <3> QED BY <3>1
  <2> QED BY <1>1, <1>11, <2>1, <2>2
<1>12. ASSUME NEW j \in 1 .. L - 1
       PROVE  \/ old(j) = b /\ old(After(r, j)) = c
              \/ /\ old(j) /= b /\ old(After(r, j)) /= c
                 /\ old(After(r, j)) = IF old(j) = L THEN 1 ELSE old(j) + 1
  <2>1. After(r, j) = IF j = L - 1 THEN 1 ELSE j + 1
    BY <1>3 DEF After
  <2> QED BY <1>1, <1>6, <2>1
<1>13. \A j \in 1 .. L - 1 : After(r, j) \in 1 .. L - 1
  BY <1>1, <1>3, <1>6 DEF After
<1> HIDE DEF r, i, s, p, succ2, pred2, L, b, c, old
<1>14. ASSUME NEW j \in 1 .. L - 1, NEW l \in 1 .. L - 1, r[j] = r[l]
       PROVE  j = l
  BY <1>5, <1>9, <1>10, <1>14
<1>15. ASSUME NEW j \in 1 .. L - 1
       PROVE  r[j] \in (items \ {i}) \cup {End}
  <2>1. q[old(j)] \in items \cup {End} /\ q[old(j)] /= i
    <3>1. q[old(j)] /= q[a]
      BY <1>1, <1>5, <1>9
    <3> QED BY <1>9, <3>1 DEF Circle, L, i
  <2> QED BY <1>9, <2>1
<1>16. ASSUME NEW n \in (items \ {i}) \cup {End}
       PROVE  \E j \in 1 .. L - 1 : r[j] = n
  <2>1. PICK m \in 1 .. L : q[m] = n
    BY DEF Circle, L
  <2>2. m /= a
    BY <2>1 DEF i
  <2>3. PICK j \in 1 .. L - 1 : old(j) = m
    BY <1>11, <2>2
  <2> QED BY <1>9, <2>1, <2>3
<1>17. ASSUME NEW j \in 1 .. L - 1
       PROVE  succ2[r[j]] = r[After(r, j)] /\ pred2[r[After(r, j)]] = r[j]
  <2>1. r[j] = q[old(j)] /\ r[After(r, j)] = q[old(After(r, j))]
    BY <1>9, <1>13
  <2>2. old(j) \in 1 .. L /\ old(After(r, j)) \in 1 .. L
    BY <1>9, <1>13
  <2>3. CASE old(j) = b /\ old(After(r, j)) = c
    BY <1>7, <1>8, <2>1, <2>3
  <2>4. CASE /\ old(j) /= b /\ old(After(r, j)) /= c
             /\ old(After(r, j)) = IF old(j) = L THEN 1 ELSE old(j) + 1
    <3>1. succ[q[old(j)]] = q[old(After(r, j))] /\ pred[q[old(After(r, j))]] = q[old(j)]
      BY <1>4, <2>2, <2>4
    <3>2. q[old(j)] /= p /\ q[old(After(r, j))] /= s
      BY <1>5, <1>7, <2>2, <2>4
    <3> QED BY <1>2, <1>8, <2>1, <2>2, <3>1, <3>2
  <2> QED BY <1>12, <2>3, <2>4
<1>18. Circle(succ2, pred2, items \ {i}, r)
  <2>1. Len(r) >= 1 /\ Len(r) = L - 1
    BY <1>1, <1>3, <1>6
  <2> QED BY <1>3, <1>14, <1>15, <1>16, <1>17, <2>1 DEF Circle
<1> QED BY <1>18 DEF r, i, s, p, succ2, pred2

(***************************************************************************)
(* Walking.  Induction is over the sets of numbers that satisfy a claim.   *)
(***************************************************************************)
LEMMA NatMinimum ==
    ASSUME NEW T, T \subseteq Nat, T /= {}
    PROVE  \E x \in T : \A y \in T : x <= y
<1> DEFINE R == OpToRel(<, Nat)
<1>1. IsWellFoundedOn(R, Nat)
  BY NatLessThanWellFounded
<1>2. \A x \in Nat, y \in Nat : y < x => <<y, x>> \in R
  BY DEF OpToRel
<1> HIDE DEF R
<1>3. \E x \in T : \A y \in T : ~ (<<y, x>> \in R)
  BY <1>1, WFMin
<1>4. PICK x \in T : \A y \in T : ~ (<<y, x>> \in R)
  BY <1>3
<1>5. ASSUME NEW y \in T
      PROVE  x <= y
  <2>1. x \in Nat /\ y \in Nat
    OBVIOUS
  <2>2. ~ (y < x)
    BY <1>2, <1>4, <2>1
  <2> QED BY <2>1, <2>2
<1> QED BY <1>5

LEMMA NatInduct ==
    ASSUME NEW P, 0 \in P, \A n \in Nat : n \in P => n + 1 \in P
    PROVE  Nat \subseteq P
<1> SUFFICES ASSUME Nat \ P /= {} PROVE FALSE
  OBVIOUS
<1>1. PICK x \in Nat \ P : \A y \in Nat \ P : x <= y
  BY NatMinimum
<1>2. x /= 0 /\ x - 1 \in Nat
  BY <1>1
<1>3. x - 1 \in P
  BY <1>1, <1>2
<1> QED BY <1>1, <1>2, <1>3

\* The steps from n along succ.
IsWalk(succ, n, c, w) == w = [k \in 0 .. c |-> IF k = 0 THEN n ELSE succ[w[k - 1]]]

LEMMA WalkLonger ==
    ASSUME NEW succ, NEW n, NEW c \in Nat, NEW w, IsWalk(succ, n, c, w)
    PROVE  \E v : IsWalk(succ, n, c + 1, v)
<1> DEFINE v == [k \in 0 .. c + 1 |-> IF k = 0 THEN n ELSE succ[w[k - 1]]]
<1>1. \A k \in 0 .. c : w[k] = IF k = 0 THEN n ELSE succ[w[k - 1]]
  BY Zenon DEF IsWalk
<1>2. \A k \in 0 .. c + 1 : v[k] = IF k = 0 THEN n ELSE succ[w[k - 1]]
  OBVIOUS
<1>3. \A k \in 0 .. c : k \in 0 .. c + 1
  OBVIOUS
<1>4. \A k \in 0 .. c : v[k] = w[k]
  BY <1>1, <1>2, <1>3, Zenon
<1>5. \A k \in 0 .. c + 1 : k /= 0 => k - 1 \in 0 .. c
  OBVIOUS
<1>6. \A k \in 0 .. c + 1 : k /= 0 => v[k - 1] = w[k - 1]
  BY <1>4, <1>5, Zenon
<1>7. v = [k \in 0 .. c + 1 |-> IF k = 0 THEN n ELSE succ[v[k - 1]]]
  <2>1. \A k \in 0 .. c + 1 : v[k] = IF k = 0 THEN n ELSE succ[v[k - 1]]
    BY <1>2, <1>6, Zenon
  <2> DEFINE u == [k \in 0 .. c + 1 |-> IF k = 0 THEN n ELSE succ[v[k - 1]]]
  <2>2. \A k \in 0 .. c + 1 : v[k] = u[k]
    BY <2>1, Zenon
  <2> QED BY <2>2, Zenon
<1> HIDE DEF v
<1> QED BY <1>7, Zenon DEF IsWalk

LEMMA WalkExists ==
    ASSUME NEW succ, NEW n, NEW c \in Nat
    PROVE  \E w : IsWalk(succ, n, c, w)
<1> DEFINE P == {k \in Nat : \E w : IsWalk(succ, n, k, w)}
<1>1. 0 \in P
  <2> DEFINE w == [k \in 0 .. 0 |-> n]
  <2>1. w = [k \in 0 .. 0 |-> IF k = 0 THEN n ELSE succ[w[k - 1]]]
    <3>1. \A k \in 0 .. 0 : k = 0
      OBVIOUS
    <3> QED BY <3>1, Zenon
  <2> HIDE DEF w
  <2> QED BY <2>1 DEF IsWalk
<1>2. \A k \in Nat : k \in P => k + 1 \in P
  BY WalkLonger
<1>3. c \in P
  <2> HIDE DEF P
  <2> QED BY <1>1, <1>2, NatInduct
<1> QED BY <1>3

\* Walk, of any links.
IsWalks(succ, W) ==
    W = [n \in Node |-> LET w[k \in 0 .. Cardinality(Item)] == IF k = 0 THEN n ELSE succ[w[k - 1]] IN w]

\* Walk does what it says.
LEMMA WalkIs ==
    ASSUME NEW succ, NEW W, IsWalks(succ, W)
    PROVE  \A n \in Node : W[n][0] = n /\ \A k \in 1 .. Cardinality(Item) : W[n][k] = succ[W[n][k - 1]]
<1> SUFFICES ASSUME NEW n \in Node
             PROVE  W[n][0] = n /\ \A k \in 1 .. Cardinality(Item) : W[n][k] = succ[W[n][k - 1]]
  OBVIOUS
<1>1. Cardinality(Item) \in Nat
  BY ListAssumption, FS_CardinalityType
<1>2. \E w : IsWalk(succ, n, Cardinality(Item), w)
  BY <1>1, WalkExists
<1>3. IsWalk(succ, n, Cardinality(Item), W[n])
  BY <1>2, Zenon DEF IsWalk, IsWalks
<1>4. \A k \in 0 .. Cardinality(Item) : W[n][k] = IF k = 0 THEN n ELSE succ[W[n][k - 1]]
  BY <1>3, Zenon DEF IsWalk
<1> QED BY <1>1, <1>4

\* From the first node of a ring Walk is the ring, and from the last one it is
\* the ring a step later.
LEMMA WalkOfCircle ==
    ASSUME NEW succ, NEW pred, NEW items, NEW q, Circle(succ, pred, items, q), NEW W, IsWalks(succ, W),
           Len(q) <= Cardinality(Item) + 1
    PROVE  /\ \A k \in 1 .. Len(q) : W[q[1]][k - 1] = q[k]
           /\ W[q[Len(q)]][0] = q[Len(q)]
           /\ \A k \in 1 .. Len(q) : k <= Cardinality(Item) => W[q[Len(q)]][k] = q[k]
<1> DEFINE L == Len(q)
           C == Cardinality(Item)
<1>1. q \in Seq(Node) /\ L \in Nat /\ L >= 1 /\ C \in Nat /\ L <= C + 1
  BY ListAssumption, FS_CardinalityType DEF Circle
<1>2. q[1] \in Node /\ q[L] \in Node
  BY <1>1
<1>3. \A n \in Node : W[n][0] = n /\ \A k \in 1 .. C : W[n][k] = succ[W[n][k - 1]]
  BY WalkIs
<1>4. \A k \in 1 .. L : succ[q[k]] = q[IF k = L THEN 1 ELSE k + 1]
  BY DEF Circle, After
<1> HIDE DEF L, C
<1>5. ASSUME NEW k \in 1 .. L
      PROVE  W[q[1]][k - 1] = q[k]
  <2> DEFINE P == {j \in Nat : j + 1 <= L => W[q[1]][j] = q[j + 1]}
  <2>1. 0 \in P
    BY <1>2, <1>3
  <2>2. ASSUME NEW j \in Nat, j \in P
        PROVE  j + 1 \in P
    <3>1. CASE j + 2 <= L
      <4>1. j + 1 \in 1 .. C /\ (j + 1) - 1 = j /\ j + 1 \in 1 .. L /\ j + 1 /= L /\ j + 1 <= L
        BY <1>1, <3>1
      <4>2. W[q[1]][j + 1] = succ[W[q[1]][(j + 1) - 1]]
        BY <1>2, <1>3, <4>1
      <4>3. W[q[1]][j] = q[j + 1]
        BY <2>2, <4>1
      <4>4. succ[q[j + 1]] = q[(j + 1) + 1]
        BY <1>4, <4>1
      <4>5. W[q[1]][j + 1] = q[(j + 1) + 1]
        BY <4>1, <4>2, <4>3, <4>4
      <4> QED BY <4>5
    <3>2. CASE ~(j + 2 <= L)
      <4>1. ~((j + 1) + 1 <= L) /\ j + 1 \in Nat
        BY <1>1, <3>2
      <4> QED BY <4>1
    <3> QED BY <3>1, <3>2
  <2>3. Nat \subseteq P
    <3> HIDE DEF P
    <3> QED BY <2>1, <2>2, NatInduct
  <2>4. k - 1 \in Nat /\ (k - 1) + 1 = k /\ k <= L
    BY <1>1
  <2>5. k - 1 \in P
    BY <2>3, <2>4
  <2> QED BY <2>4, <2>5
<1>6. ASSUME NEW k \in 1 .. L, k <= C
      PROVE  W[q[L]][k] = q[k]
  <2> DEFINE P == {j \in Nat : j + 1 <= L /\ j + 1 <= C => W[q[L]][j + 1] = q[j + 1]}
  <2>1. 0 \in P
    <3>1. CASE 1 <= C
      <4>1. 1 \in 1 .. C /\ L \in 1 .. L /\ 1 - 1 = 0 /\ 0 + 1 = 1
        BY <1>1, <3>1
      <4>2. W[q[L]][1] = succ[W[q[L]][1 - 1]]
        BY <1>2, <1>3, <4>1
      <4>3. W[q[L]][0] = q[L] /\ succ[q[L]] = q[1]
        BY <1>2, <1>3, <1>4, <4>1
      <4>4. W[q[L]][0 + 1] = q[0 + 1]
        BY <4>1, <4>2, <4>3
      <4> QED BY <4>4
    <3>2. CASE ~(1 <= C)
      BY <3>2
    <3> QED BY <3>1, <3>2
  <2>2. ASSUME NEW j \in Nat, j \in P
        PROVE  j + 1 \in P
    <3>1. CASE j + 2 <= L /\ j + 2 <= C
      <4>1. /\ j + 2 \in 1 .. C /\ (j + 2) - 1 = j + 1 /\ j + 1 \in 1 .. L /\ j + 1 /= L
            /\ j + 1 <= L /\ j + 1 <= C /\ (j + 1) + 1 = j + 2
        BY <1>1, <3>1
      <4>2. W[q[L]][j + 2] = succ[W[q[L]][(j + 2) - 1]]
        BY <1>2, <1>3, <4>1
      <4>3. W[q[L]][j + 1] = q[j + 1]
        BY <2>2, <4>1
      <4>4. succ[q[j + 1]] = q[(j + 1) + 1]
        BY <1>4, <4>1
      <4>5. W[q[L]][(j + 1) + 1] = q[(j + 1) + 1]
        BY <4>1, <4>2, <4>3, <4>4
      <4> QED BY <4>5
    <3>2. CASE ~(j + 2 <= L /\ j + 2 <= C)
      <4>1. ~((j + 1) + 1 <= L /\ (j + 1) + 1 <= C) /\ j + 1 \in Nat
        BY <1>1, <3>2
      <4> QED BY <4>1
    <3> QED BY <3>1, <3>2
  <2>3. Nat \subseteq P
    <3> HIDE DEF P
    <3> QED BY <2>1, <2>2, NatInduct
  <2>4. k - 1 \in Nat /\ (k - 1) + 1 = k /\ k <= L
    BY <1>1
  <2>5. k - 1 \in P
    BY <2>3, <2>4
  <2> QED BY <1>6, <2>4, <2>5
<1> QED BY <1>2, <1>3, <1>5, <1>6 DEF L, C


(***************************************************************************)
(* What With, Less and Turned are to ListRing.                             *)
(***************************************************************************)
LEMMA WithIsPut ==
    ASSUME NEW q \in Seq(Node), NEW k \in 0 .. Len(q), NEW i \in Node
    PROVE  With(q, k, i) = SubSeq(q, 1, (k + 1) - 1) \o <<i>> \o SubSeq(q, k + 1, Len(q))
<1> DEFINE L == Len(q)
           a == SubSeq(q, 1, (k + 1) - 1)
           b == SubSeq(q, k + 1, L)
<1>1. L \in Nat /\ k \in Nat /\ k <= L /\ (k + 1) - 1 = k
  OBVIOUS
<1>2. a \in Seq(Node) /\ Len(a) = k /\ \A j \in 1 .. k : a[j] = q[j]
  BY <1>1, SubSeqProperties
<1>3. b \in Seq(Node) /\ Len(b) = L - k /\ \A j \in 1 .. L - k : b[j] = q[k + j]
  BY <1>1, SubSeqProperties
<1>4. <<i>> \in Seq(Node) /\ Len(<<i>>) = 1 /\ <<i>>[1] = i
  OBVIOUS
<1> HIDE DEF a, b, L
<1>5. /\ a \o <<i>> \in Seq(Node) /\ Len(a \o <<i>>) = k + 1
      /\ \A j \in 1 .. k + 1 : (a \o <<i>>)[j] = IF j <= k THEN q[j] ELSE i
  <2>1. /\ a \o <<i>> \in Seq(Node) /\ Len(a \o <<i>>) = Len(a) + Len(<<i>>)
        /\ \A j \in 1 .. Len(a) + Len(<<i>>) :
              (a \o <<i>>)[j] = IF j <= Len(a) THEN a[j] ELSE <<i>>[j - Len(a)]
    BY <1>2, <1>4, ConcatProperties
  <2>2. ASSUME NEW j \in 1 .. k + 1
        PROVE  (a \o <<i>>)[j] = IF j <= k THEN q[j] ELSE i
    <3>1. CASE j <= k
      BY <1>1, <1>2, <1>4, <2>1, <3>1
    <3>2. CASE ~(j <= k)
      <4>1. j = k + 1 /\ j - k = 1
        BY <1>1, <3>2
      <4> QED BY <1>1, <1>2, <1>4, <2>1, <3>2, <4>1
    <3> QED BY <3>1, <3>2
  <2> QED BY <1>2, <1>4, <2>1, <2>2
<1> DEFINE c == a \o <<i>>
<1> HIDE DEF c
<1>6. /\ c \o b \in Seq(Node) /\ Len(c \o b) = L + 1
      /\ \A j \in 1 .. L + 1 : (c \o b)[j] = IF j <= k THEN q[j] ELSE IF j = k + 1 THEN i ELSE q[j - 1]
  <2>1. /\ c \o b \in Seq(Node) /\ Len(c \o b) = Len(c) + Len(b)
        /\ \A j \in 1 .. Len(c) + Len(b) : (c \o b)[j] = IF j <= Len(c) THEN c[j] ELSE b[j - Len(c)]
    BY <1>3, <1>5, ConcatProperties DEF c
  <2>2. ASSUME NEW j \in 1 .. L + 1
        PROVE  (c \o b)[j] = IF j <= k THEN q[j] ELSE IF j = k + 1 THEN i ELSE q[j - 1]
    <3>1. CASE j <= k + 1
      BY <1>1, <1>3, <1>5, <2>1, <3>1 DEF c
    <3>2. CASE ~(j <= k + 1)
      <4>1. j - (k + 1) \in 1 .. L - k /\ k + (j - (k + 1)) = j - 1
        BY <1>1, <3>2
      <4>2. b[j - (k + 1)] = q[j - 1]
        BY <1>3, <4>1
      <4> QED BY <1>1, <1>3, <1>5, <2>1, <3>2, <4>2 DEF c
    <3> QED BY <3>1, <3>2
  <2>3. Len(c) + Len(b) = L + 1
    BY <1>1, <1>3, <1>5 DEF c
  <2> QED BY <2>1, <2>2, <2>3
<1>7. With(q, k, i) = c \o b
  <2>1. /\ With(q, k, i) \in Seq(Node) /\ Len(With(q, k, i)) = L + 1
        /\ \A j \in 1 .. L + 1 :
              With(q, k, i)[j] = IF j <= k THEN q[j] ELSE IF j = k + 1 THEN i ELSE q[j - 1]
    <3>1. IsWith(With(q, k, i), q, k, i)
      BY WithIs
    <3> QED BY <3>1 DEF IsWith, L
  <2> QED BY <1>6, <2>1, SeqEqual
<1> QED BY <1>7 DEF a, b, c, L

LEMMA LessIsRemove ==
    ASSUME NEW q \in Seq(Node), NEW k \in 1 .. Len(q)
    PROVE  Less(q, k) = SubSeq(q, 1, k - 1) \o SubSeq(q, k + 1, Len(q))
<1> DEFINE L == Len(q)
           a == SubSeq(q, 1, k - 1)
           b == SubSeq(q, k + 1, L)
<1>1. L \in Nat /\ k \in Nat /\ k <= L /\ k >= 1 /\ k - 1 \in Nat
  OBVIOUS
<1>2. a \in Seq(Node) /\ Len(a) = k - 1 /\ \A j \in 1 .. k - 1 : a[j] = q[j]
  BY <1>1, SubSeqProperties
<1>3. b \in Seq(Node) /\ Len(b) = L - k /\ \A j \in 1 .. L - k : b[j] = q[k + j]
  BY <1>1, SubSeqProperties
<1> HIDE DEF a, b, L
<1>4. /\ a \o b \in Seq(Node) /\ Len(a \o b) = L - 1
      /\ \A j \in 1 .. L - 1 : (a \o b)[j] = IF j < k THEN q[j] ELSE q[j + 1]
  <2>1. /\ a \o b \in Seq(Node) /\ Len(a \o b) = Len(a) + Len(b)
        /\ \A j \in 1 .. Len(a) + Len(b) : (a \o b)[j] = IF j <= Len(a) THEN a[j] ELSE b[j - Len(a)]
    BY <1>2, <1>3, ConcatProperties
  <2>2. Len(a) + Len(b) = L - 1
    BY <1>1, <1>2, <1>3
  <2>3. ASSUME NEW j \in 1 .. L - 1
        PROVE  (a \o b)[j] = IF j < k THEN q[j] ELSE q[j + 1]
    <3>1. CASE j < k
      <4>1. j <= Len(a) /\ j \in 1 .. k - 1
        BY <1>1, <1>2, <3>1
      <4> QED BY <1>2, <2>1, <2>2, <3>1, <4>1
    <3>2. CASE ~(j < k)
      <4>1. j - (k - 1) \in 1 .. L - k /\ k + (j - (k - 1)) = j + 1 /\ ~(j <= Len(a))
        BY <1>1, <1>2, <3>2
      <4>2. b[j - (k - 1)] = q[j + 1]
        BY <1>3, <4>1
      <4> QED BY <1>2, <2>1, <2>2, <3>2, <4>1, <4>2
    <3> QED BY <3>1, <3>2
  <2> QED BY <2>1, <2>2, <2>3
<1>5. Less(q, k) = a \o b
  <2>1. /\ Less(q, k) \in Seq(Node) /\ Len(Less(q, k)) = L - 1
        /\ \A j \in 1 .. L - 1 : Less(q, k)[j] = IF j < k THEN q[j] ELSE q[j + 1]
    BY LessIs DEF L
  <2> QED BY <1>4, <2>1, SeqEqual
<1> QED BY <1>5 DEF a, b, L

LEMMA TurnedIsRotated ==
    ASSUME NEW q \in Seq(Node), Len(q) >= 1
    PROVE  Turned(q) = Tail(q) \o <<Head(q)>>
<1> DEFINE L == Len(q)
           a == Tail(q)
           b == <<Head(q)>>
<1>1. L \in Nat /\ L >= 1 /\ q /= <<>>
  OBVIOUS
<1>2. a \in Seq(Node) /\ Len(a) = L - 1 /\ \A j \in 1 .. L - 1 : a[j] = q[j + 1]
  BY <1>1, HeadTailProperties
<1>3. b \in Seq(Node) /\ Len(b) = 1 /\ b[1] = q[1]
  BY <1>1
<1> HIDE DEF a, b, L
<1>4. /\ a \o b \in Seq(Node) /\ Len(a \o b) = L
      /\ \A j \in 1 .. L : (a \o b)[j] = IF j < L THEN q[j + 1] ELSE q[1]
  <2>1. /\ a \o b \in Seq(Node) /\ Len(a \o b) = Len(a) + Len(b)
        /\ \A j \in 1 .. Len(a) + Len(b) : (a \o b)[j] = IF j <= Len(a) THEN a[j] ELSE b[j - Len(a)]
    BY <1>2, <1>3, ConcatProperties
  <2>2. Len(a) + Len(b) = L
    BY <1>1, <1>2, <1>3
  <2>3. ASSUME NEW j \in 1 .. L
        PROVE  (a \o b)[j] = IF j < L THEN q[j + 1] ELSE q[1]
    <3>1. CASE j < L
      BY <1>1, <1>2, <2>1, <2>2, <3>1
    <3>2. CASE ~(j < L)
      <4>1. j - (L - 1) = 1 /\ ~(j <= Len(a))
        BY <1>1, <1>2, <3>2
      <4> QED BY <1>2, <1>3, <2>1, <2>2, <3>2, <4>1
    <3> QED BY <3>1, <3>2
  <2> QED BY <2>1, <2>2, <2>3
<1>5. Turned(q) = a \o b
  <2>1. /\ Turned(q) \in Seq(Node) /\ Len(Turned(q)) = L
        /\ \A j \in 1 .. L : Turned(q)[j] = IF j < L THEN q[j + 1] ELSE q[1]
    BY TurnedIs DEF L
  <2> QED BY <1>4, <2>1, SeqEqual
<1> QED BY <1>5 DEF a, b

\* The ring of KernelList is any sequence that shows it and ends at pxIndex.
LEMMA RingIs ==
    ASSUME NEW succ, NEW pred, NEW items \in SUBSET Item, NEW q, Circle(succ, pred, items, q),
           NEW W, IsWalks(succ, W), Len(q) = Cardinality(items) + 1
    PROVE  [k \in 1 .. Cardinality(items) + 1 |-> W[succ[q[Len(q)]]][k - 1]] = q
<1>1. q \in Seq(Node) /\ Len(q) >= 1 /\ Len(q) \in Nat
  BY DEF Circle
<1>2. Len(q) <= Cardinality(Item) + 1
  <2>1. Cardinality(items) <= Cardinality(Item) /\ Cardinality(items) \in Nat /\ Cardinality(Item) \in Nat
    BY ListAssumption, FS_Subset, FS_CardinalityType
  <2> QED BY <2>1
<1>3. \A k \in 1 .. Len(q) : W[q[1]][k - 1] = q[k]
  BY <1>2, WalkOfCircle
<1>4. succ[q[Len(q)]] = q[1]
  BY <1>1 DEF Circle, After
<1>5. q = [k \in 1 .. Len(q) |-> q[k]]
  BY <1>1
<1> QED BY <1>3, <1>4, <1>5

(***************************************************************************)
(* The invariant: some sequence shows the list, from behind pxIndex to     *)
(* pxIndex, and the list is as long as uxNumberOfItems says.  Only a ready *)
(* list moves pxIndex off the marker, and a delayed list is sorted.        *)
(***************************************************************************)
Sorted(q, value) == \A j, k \in 1 .. Len(q) - 1 : j < k => value[q[j]] <= value[q[k]]

Shows(q) ==
    /\ Circle(pxNext, pxPrevious, listed, q)
    /\ Len(q) = uxNumberOfItems + 1
    /\ q[Len(q)] = pxIndex
    /\ use = "delayed" => Sorted(q, xItemValue)

ListInv ==
    /\ ListTypeOK
    /\ Cardinality(listed) = uxNumberOfItems
    /\ use /= "ready" => pxIndex = End
    /\ \E q : Shows(q)

LEMMA Shown ==
    ASSUME ListTypeOK, Cardinality(listed) = uxNumberOfItems, NEW q, Shows(q)
    PROVE  Ring = q
<1>1. IsWalks(pxNext, Walk)
  BY DEF IsWalks, Walk
<1>2. listed \in SUBSET Item
  BY DEF ListTypeOK
<1>3. [k \in 1 .. Cardinality(listed) + 1 |-> Walk[pxNext[q[Len(q)]]][k - 1]] = q
  BY <1>1, <1>2, RingIs DEF Shows
<1> QED BY <1>3 DEF Ring, Shows

\* The same after a step.
LEMMA ShownNext ==
    ASSUME ListTypeOK', Cardinality(listed') = uxNumberOfItems', NEW q, Shows(q)'
    PROVE  Ring' = q
<1>1. IsWalks(pxNext', Walk')
  BY DEF IsWalks, Walk
<1>2. listed' \in SUBSET Item
  BY DEF ListTypeOK
<1>3. [k \in 1 .. Cardinality(listed') + 1 |-> Walk'[pxNext'[q[Len(q)]]][k - 1]] = q
  BY <1>1, <1>2, RingIs DEF Shows
<1> QED BY <1>3 DEF Ring, Shows

LEMMA Typed ==
    ASSUME ListInv
    PROVE  /\ pxNext \in [Node -> Node] /\ pxPrevious \in [Node -> Node] /\ listed \in SUBSET Item
           /\ uxNumberOfItems \in Nat /\ IsFiniteSet(listed) /\ IsFiniteSet(Item)
           /\ Cardinality(listed) = uxNumberOfItems /\ Cardinality(Item) \in Nat
           /\ uxNumberOfItems <= Cardinality(Item)
           /\ \A i \in Item : i /= End /\ i \in Node
           /\ End \in Node
<1>1. listed \in SUBSET Item /\ IsFiniteSet(Item) /\ Cardinality(listed) = uxNumberOfItems
  BY ListAssumption DEF ListInv, ListTypeOK
<1>2. IsFiniteSet(listed) /\ Cardinality(listed) <= Cardinality(Item)
  BY <1>1, FS_Subset
<1> QED BY <1>1, <1>2, ListAssumption, FS_CardinalityType DEF ListInv, ListTypeOK, Node

\* What is known of the sequence that shows the list.
LEMMA ShownSeq ==
    ASSUME ListInv, NEW q, Shows(q)
    PROVE  /\ q \in Seq(Node) /\ Len(q) = uxNumberOfItems + 1 /\ Len(q) \in Nat /\ Len(q) >= 1
           /\ \A k \in 1 .. Len(q) : q[k] \in listed \cup {End}
           /\ \A n \in listed \cup {End} : \E k \in 1 .. Len(q) : q[k] = n
           /\ \A j, k \in 1 .. Len(q) : q[j] = q[k] => j = k
  BY DEF Shows, Circle

-----------------------------------------------------------------------------
(* The operations *)

LEMMA RemoveStep ==
    ASSUME ListInv, NEW i \in Item, uxListRemove(i)
    PROVE  ListInv' /\ Promise!Remove(i)
<1>1. PICK q : Shows(q)
  BY DEF ListInv
<1>2. /\ i \in listed
      /\ pxPrevious' = [pxPrevious EXCEPT ![pxNext[i]] = pxPrevious[i]]
      /\ pxNext' = [pxNext EXCEPT ![pxPrevious[i]] = pxNext[i]]
      /\ pxIndex' = IF pxIndex = i THEN pxPrevious[i] ELSE pxIndex
      /\ listed' = listed \ {i} /\ uxNumberOfItems' = uxNumberOfItems - 1
      /\ UNCHANGED <<use, xItemValue, served>>
  BY DEF uxListRemove
<1>3. i /= End /\ i \in Node /\ pxNext[i] \in Node /\ pxPrevious[i] \in Node
  BY Typed
<1>4. /\ q \in Seq(Node) /\ Len(q) = uxNumberOfItems + 1 /\ Len(q) \in Nat /\ Len(q) >= 1
      /\ \A k \in 1 .. Len(q) : q[k] \in listed \cup {End}
      /\ \A n \in listed \cup {End} : \E k \in 1 .. Len(q) : q[k] = n
      /\ \A j, k \in 1 .. Len(q) : q[j] = q[k] => j = k
  BY <1>1, ShownSeq
<1>5. PICK a \in 1 .. Len(q) : q[a] = i
  BY <1>2, <1>4
<1> DEFINE r == Less(q, a)
<1>6. /\ r \in Seq(Node) /\ Len(r) = Len(q) - 1
      /\ \A j \in 1 .. Len(q) - 1 : r[j] = IF j < a THEN q[j] ELSE q[j + 1]
  BY <1>4, LessIs
<1>7. uxNumberOfItems' \in Nat /\ Cardinality(listed') = uxNumberOfItems'
  <2>1. Cardinality(listed \ {i}) = Cardinality(listed) - 1 /\ Cardinality(listed \ {i}) \in Nat
    <3>1. IsFiniteSet(listed)
      BY Typed
    <3>2. IsFiniteSet(listed \ {i}) /\ Cardinality(listed \ {i}) = Cardinality(listed) - 1
      BY <1>2, <3>1, FS_RemoveElement
    <3> QED BY <3>2, FS_CardinalityType
  <2> QED BY <1>2, <2>1, Typed
<1>8. ListTypeOK'
  <2>1. pxNext' \in [Node -> Node] /\ pxPrevious' \in [Node -> Node]
    BY <1>2, <1>3, Typed
  <2>2. pxIndex' \in Node /\ listed' \subseteq Item
    BY <1>2, <1>3 DEF ListInv, ListTypeOK
  <2> QED BY <1>2, <1>7, <2>1, <2>2 DEF ListInv, ListTypeOK
<1>9. Circle(pxNext', pxPrevious', listed', r)
  <2>1. Circle(pxNext, pxPrevious, listed, q)
    BY <1>1 DEF Shows
  <2>2. q[a] /= End
    BY <1>3, <1>5
  <2>3. pxNext \in [Node -> Node] /\ pxPrevious \in [Node -> Node]
    BY Typed
  <2>4. Circle([pxNext EXCEPT ![pxPrevious[q[a]]] = pxNext[q[a]]],
               [pxPrevious EXCEPT ![pxNext[q[a]]] = pxPrevious[q[a]]], listed \ {q[a]}, r)
    BY <2>1, <2>2, <2>3, LessCircle
  <2> QED BY <1>2, <1>5, <2>4
<1>10. r[Len(r)] = pxIndex'
  <2> DEFINE L == Len(q)
  <2>1. L >= 2
    <3>1. PICK e \in 1 .. L : q[e] = End
      BY <1>4
    <3>2. e /= a
      BY <1>3, <1>5, <3>1
    <3> QED BY <1>4, <3>1, <3>2
  <2>2. q[L] = pxIndex
    BY <1>1 DEF Shows
  <2>3. CASE a = L
    <3>1. pxIndex' = pxPrevious[q[L]]
      BY <1>2, <1>5, <2>2, <2>3
    <3>2. L - 1 \in 1 .. L /\ After(q, L - 1) = L
      BY <1>4, <2>1 DEF After
    <3>3. pxPrevious[q[L]] = q[L - 1]
      BY <1>1, <3>2 DEF Shows, Circle
    <3>4. r[L - 1] = q[L - 1]
      BY <1>4, <1>6, <2>1, <2>3
    <3> QED BY <1>6, <3>1, <3>3, <3>4
  <2>4. CASE a /= L
    <3>1. L \in 1 .. L
      BY <1>4
    <3>2. pxIndex /= i
      BY <1>4, <1>5, <2>2, <2>4, <3>1
    <3>3. r[L - 1] = q[L]
      BY <1>4, <1>6, <2>1, <2>4
    <3> QED BY <1>2, <1>6, <2>2, <3>2, <3>3
  <2> QED BY <2>3, <2>4
<1>11. use' = "delayed" => Sorted(r, xItemValue')
  <2> SUFFICES ASSUME use = "delayed", NEW j \in 1 .. Len(r) - 1, NEW k \in 1 .. Len(r) - 1, j < k
               PROVE  xItemValue[r[j]] <= xItemValue[r[k]]
    BY <1>2 DEF Sorted
  <2> DEFINE old(m) == IF m < a THEN m ELSE m + 1
  <2>1. \A m \in 1 .. Len(r) - 1 : old(m) \in 1 .. Len(q) - 1 /\ r[m] = q[old(m)]
    BY <1>4, <1>6
  <2>2. old(j) < old(k)
    OBVIOUS
  <2>3. Sorted(q, xItemValue)
    BY <1>1 DEF Shows
  <2> HIDE DEF old, r
  <2> QED BY <2>1, <2>2, <2>3 DEF Sorted
<1>12. use' /= "ready" => pxIndex' = End
  BY <1>2, <1>3 DEF ListInv
<1> HIDE DEF r
<1>13. Shows(r)'
  BY <1>2, <1>4, <1>6, <1>9, <1>10, <1>11, Typed DEF Shows
<1>14. Ring = q /\ Ring' = r
  BY <1>1, <1>7, <1>8, <1>13, Shown, ShownNext DEF ListInv
<1>15. r = SubSeq(q, 1, a - 1) \o SubSeq(q, a + 1, Len(q))
  BY <1>4, LessIsRemove DEF r
<1>16. Promise!Remove(i)
  BY <1>2, <1>5, <1>14, <1>15 DEF Promise!Remove
<1> QED BY <1>7, <1>8, <1>12, <1>13, <1>16 DEF ListInv

LEMMA ServeStep ==
    ASSUME ListInv, use = "ready", NextEntry
    PROVE  ListInv' /\ Promise!Serve
<1>1. PICK q : Shows(q)
  BY DEF ListInv
<1>2. /\ uxNumberOfItems > 0 /\ pxIndex' = FirstItem(pxNext[pxIndex]) /\ served' = pxIndex'
      /\ UNCHANGED <<use, pxNext, pxPrevious, listed, uxNumberOfItems, xItemValue>>
  BY DEF NextEntry
<1>3. /\ q \in Seq(Node) /\ Len(q) = uxNumberOfItems + 1 /\ Len(q) \in Nat /\ Len(q) >= 2
      /\ \A k \in 1 .. Len(q) : q[k] \in listed \cup {End}
      /\ \A j, k \in 1 .. Len(q) : q[j] = q[k] => j = k
  BY <1>1, <1>2, ShownSeq, Typed
<1>4. /\ Circle(pxNext, pxPrevious, listed, q) /\ q[Len(q)] = pxIndex
  BY <1>1 DEF Shows
<1>5. pxNext[pxIndex] = q[1] /\ pxNext[q[1]] = q[2]
  <2>1. /\ Len(q) \in 1 .. Len(q) /\ After(q, Len(q)) = 1 /\ 1 \in 1 .. Len(q) /\ After(q, 1) = 2
    BY <1>3 DEF After
  <2> QED BY <1>4, <2>1 DEF Circle
<1> DEFINE r == Turned(q)
           t == Turned(r)
<1>6. /\ Circle(pxNext, pxPrevious, listed, r) /\ r \in Seq(Node) /\ Len(r) = Len(q)
      /\ r[Len(q)] = q[1] /\ r[1] = q[2] /\ r = Tail(q) \o <<Head(q)>>
  <2>1. Circle(pxNext, pxPrevious, listed, r)
    BY <1>4, TurnedCircle
  <2>2. /\ r \in Seq(Node) /\ Len(r) = Len(q)
        /\ \A j \in 1 .. Len(q) : r[j] = IF j < Len(q) THEN q[j + 1] ELSE q[1]
    BY <1>3, TurnedIs
  <2>3. r = Tail(q) \o <<Head(q)>>
    BY <1>3, TurnedIsRotated
  <2> HIDE DEF r
  <2> QED BY <1>3, <2>1, <2>2, <2>3
<1>7. /\ Circle(pxNext, pxPrevious, listed, t) /\ t \in Seq(Node) /\ Len(t) = Len(q)
      /\ t[Len(q)] = q[2] /\ t = Tail(r) \o <<Head(r)>>
  <2> HIDE DEF r
  <2>1. Circle(pxNext, pxPrevious, listed, t)
    BY <1>6, TurnedCircle
  <2>4. r \in Seq(Node) /\ Len(r) >= 1
    BY <1>3, <1>6
  <2>2. /\ t \in Seq(Node) /\ Len(t) = Len(r)
        /\ \A j \in 1 .. Len(r) : t[j] = IF j < Len(r) THEN r[j + 1] ELSE r[1]
    BY <2>4, TurnedIs
  <2>3. t = Tail(r) \o <<Head(r)>>
    BY <2>4, TurnedIsRotated
  <2> HIDE DEF t
  <2> QED BY <1>3, <1>6, <2>1, <2>2, <2>3
<1> DEFINE u == IF q[1] = End THEN t ELSE r
<1> HIDE DEF r, t
<1>8. /\ Circle(pxNext, pxPrevious, listed, u) /\ u \in Seq(Node) /\ Len(u) = Len(q) /\ u[Len(q)] = pxIndex'
  BY <1>2, <1>5, <1>6, <1>7 DEF FirstItem
<1>9. ListTypeOK'
  <2>1. pxIndex' \in Node
    <3>1. Len(q) \in 1 .. Len(q)
      BY <1>3
    <3> QED BY <1>8, <3>1
  <2> QED BY <1>2, <2>1 DEF ListInv, ListTypeOK
<1> HIDE DEF u
<1>10. Shows(u)'
  <2>1. use' /= "delayed" /\ Len(u) = uxNumberOfItems' + 1 /\ u[Len(u)] = pxIndex'
    BY <1>2, <1>3, <1>8
  <2> QED BY <1>2, <1>8, <2>1 DEF Shows
<1>11. Ring = q /\ Ring' = u
  <2>1. Cardinality(listed') = uxNumberOfItems'
    BY <1>2, Typed
  <2> QED BY <1>1, <1>9, <1>10, <2>1, Shown, ShownNext DEF ListInv
<1>12. Promise!Serve
  <2>1. Promise!Rotate(q) = r /\ Promise!Rotate(r) = t
    BY <1>6, <1>7 DEF Promise!Rotate
  <2>2. Head(q) = q[1] /\ Len(q) > 1
    BY <1>3
  <2>3. Ring' = IF Head(Ring) = End THEN Promise!Rotate(Promise!Rotate(Ring)) ELSE Promise!Rotate(Ring)
    BY <1>11, <2>1, <2>2 DEF u
  <2>4. served' = Ring'[Len(Ring)]
    BY <1>2, <1>8, <1>11
  <2>5. Len(Ring) > 1 /\ xItemValue' = xItemValue
    BY <1>2, <1>11, <2>2
  <2> QED BY <2>3, <2>4, <2>5, Zenon DEF Promise!Serve
<1> QED BY <1>2, <1>9, <1>10, <1>12 DEF ListInv

\* What both insertions share: the item stands before the element k + 1 of the
\* ring, and the ring still ends at pxIndex.
LEMMA LinkStep ==
    ASSUME ListInv, NEW q, Shows(q), NEW k \in 0 .. Len(q) - 1, NEW i \in Item, i \notin listed,
           NEW p, p = IF k = 0 THEN q[Len(q)] ELSE q[k],
           Link(i, p), use' = use, pxIndex' = pxIndex, xItemValue' \in [Item -> Value], served' = served,
           use = "delayed" => Sorted(With(q, k, i), xItemValue')
    PROVE  /\ ListInv' /\ Ring = q /\ ~Promise!In(i) /\ Promise!PutBefore(k + 1, i)
<1> DEFINE r == With(q, k, i)
<1>1. /\ pxNext' = [pxNext EXCEPT ![i] = pxNext[p], ![p] = i]
      /\ pxPrevious' = [pxPrevious EXCEPT ![i] = p, ![pxNext[p]] = i]
      /\ listed' = listed \cup {i} /\ uxNumberOfItems' = uxNumberOfItems + 1
  BY DEF Link
<1>2. /\ q \in Seq(Node) /\ Len(q) = uxNumberOfItems + 1 /\ Len(q) \in Nat /\ Len(q) >= 1
      /\ \A j \in 1 .. Len(q) : q[j] \in listed \cup {End}
  BY ShownSeq
<1>3. i \in Node /\ i /= End /\ p \in Node /\ pxNext[p] \in Node
  <2>1. p \in Node
    BY <1>2
  <2> QED BY <2>1, Typed
<1>4. r \in Seq(Node) /\ Len(r) = Len(q) + 1
      /\ \A j \in 1 .. Len(q) + 1 : r[j] = IF j <= k THEN q[j] ELSE IF j = k + 1 THEN i ELSE q[j - 1]
  <2>1. q \in Seq(Node) /\ k \in 0 .. Len(q) /\ i \in Node
    BY <1>2, <1>3
  <2>2. IsWith(r, q, k, i)
    BY <2>1, WithIs
  <2> HIDE DEF r
  <2> QED BY <2>2 DEF IsWith
<1>5. Circle(pxNext', pxPrevious', listed', r)
  <2>1. Circle(pxNext, pxPrevious, listed, q)
    BY DEF Shows
  <2>2. pxNext \in [Node -> Node] /\ pxPrevious \in [Node -> Node]
    BY Typed
  <2>3. Circle([pxNext EXCEPT ![i] = pxNext[p], ![p] = i], [pxPrevious EXCEPT ![i] = p, ![pxNext[p]] = i],
               listed \cup {i}, r)
    BY <2>1, <2>2, WithCircle
  <2> QED BY <1>1, <2>3
<1>6. uxNumberOfItems' \in Nat /\ Cardinality(listed') = uxNumberOfItems'
  <2>1. Cardinality(listed \cup {i}) = Cardinality(listed) + 1
    BY Typed, FS_AddElement
  <2> QED BY <1>1, <2>1, Typed
<1>7. ListTypeOK'
  <2>1. pxNext' \in [Node -> Node] /\ pxPrevious' \in [Node -> Node]
    BY <1>1, <1>3, Typed
  <2> QED BY <1>1, <1>6, <2>1 DEF ListInv, ListTypeOK
<1> HIDE DEF r
<1>8. Shows(r)'
  <2>1. r[Len(r)] = pxIndex'
    <3>1. r[Len(q) + 1] = q[Len(q)]
      BY <1>2, <1>4
    <3> QED BY <1>4, <3>1 DEF Shows
  <2>2. Len(r) = uxNumberOfItems' + 1
    BY <1>1, <1>2, <1>4
  <2> QED BY <1>5, <2>1, <2>2 DEF Shows, r
<1>9. Ring = q /\ Ring' = r
  BY <1>6, <1>7, <1>8, Shown, ShownNext DEF ListInv
<1>10. ~Promise!In(i)
  BY <1>2, <1>3, <1>9 DEF Promise!In
<1>11. Promise!PutBefore(k + 1, i)
  <2>1. r = SubSeq(q, 1, (k + 1) - 1) \o <<i>> \o SubSeq(q, k + 1, Len(q))
    <3>1. k \in 0 .. Len(q)
      BY <1>2
    <3> QED BY <1>2, <1>3, <3>1, WithIsPut DEF r
  <2> QED BY <1>9, <2>1 DEF Promise!PutBefore
<1> QED BY <1>6, <1>7, <1>8, <1>9, <1>10, <1>11 DEF ListInv

LEMMA InsertEndStep ==
    ASSUME ListInv, NEW i \in Item, use = "ready", vListInsertEnd(i)
    PROVE  ListInv' /\ Promise!InsertEnd(i)
<1>1. PICK q : Shows(q)
  BY DEF ListInv
<1>2. /\ i \notin listed /\ Link(i, pxPrevious[pxIndex])
      /\ UNCHANGED <<use, pxIndex, xItemValue, served>>
  BY DEF vListInsertEnd
<1>3. q \in Seq(Node) /\ Len(q) \in Nat /\ Len(q) >= 1
  BY <1>1, ShownSeq
<1> DEFINE k == Len(q) - 1
           p == pxPrevious[pxIndex]
<1>4. k \in 0 .. Len(q) - 1 /\ k + 1 = Len(q)
  BY <1>3
<1> HIDE DEF k
<1>5. p = IF k = 0 THEN q[Len(q)] ELSE q[k]
  <2>1. Circle(pxNext, pxPrevious, listed, q) /\ q[Len(q)] = pxIndex
    BY <1>1 DEF Shows
  <2>2. CASE k = 0
    <3>1. Len(q) \in 1 .. Len(q) /\ After(q, Len(q)) = Len(q)
      BY <1>3, <1>4, <2>2 DEF After
    <3>2. p = q[Len(q)]
      BY <2>1, <3>1 DEF Circle
    <3> QED BY <2>2, <3>2
  <2>3. CASE k /= 0
    <3>1. k \in 1 .. Len(q) /\ k /= Len(q) /\ k + 1 = Len(q)
      BY <1>3, <1>4, <2>3
    <3>2. After(q, k) = Len(q)
      BY <3>1 DEF After
    <3>3. pxPrevious[q[Len(q)]] = q[k]
      BY <2>1, <3>1, <3>2 DEF Circle
    <3>4. p = q[k]
      BY <2>1, <3>3
    <3> QED BY <2>3, <3>4
  <2> QED BY <2>2, <2>3
<1>6. xItemValue' \in [Item -> Value]
  BY <1>2 DEF ListInv, ListTypeOK
<1> HIDE DEF p
<1>7. ListInv' /\ Ring = q /\ ~Promise!In(i) /\ Promise!PutBefore(k + 1, i)
  BY <1>1, <1>2, <1>4, <1>5, <1>6, LinkStep DEF p
<1>8. Promise!PutBefore(Len(Ring), i)
  BY <1>4, <1>7
<1> QED BY <1>2, <1>7, <1>8 DEF Promise!InsertEnd

\* vListInsert stops behind the last node it passes: none of a greater value,
\* and the next one is the marker or of a greater value.
LEMMA PositionIs ==
    ASSUME ListInv, NEW q, Shows(q), pxIndex = End, NEW i \in Item, i \notin listed, NEW v \in Value
    PROVE  \E k \in 0 .. Len(q) - 1 :
              /\ Position(v) = IF k = 0 THEN q[Len(q)] ELSE q[k]
              /\ \A j \in 1 .. k : xItemValue[q[j]] <= v
              /\ k + 1 = Len(q) \/ xItemValue[q[k + 1]] > v
<1> DEFINE L == Len(q)
           W == Walk[End]
<1>1. /\ q \in Seq(Node) /\ L = uxNumberOfItems + 1 /\ L \in Nat /\ L >= 1
      /\ \A k \in 1 .. L : q[k] \in listed \cup {End}
      /\ \A j, k \in 1 .. L : q[j] = q[k] => j = k
  BY ShownSeq
<1>2. Circle(pxNext, pxPrevious, listed, q) /\ q[L] = End
  BY DEF Shows
<1>3. \A k \in 1 .. L - 1 : q[k] \in Item /\ q[k] /= End /\ xItemValue[q[k]] \in Value
  <2> SUFFICES ASSUME NEW k \in 1 .. L - 1
               PROVE  q[k] \in Item /\ q[k] /= End /\ xItemValue[q[k]] \in Value
    OBVIOUS
  <2>1. k \in 1 .. L /\ L \in 1 .. L /\ k /= L
    BY <1>1
  <2>2. q[k] /= End
    BY <1>1, <1>2, <2>1
  <2>3. q[k] \in Item
    BY <1>1, <2>1, <2>2, Typed
  <2> QED BY <2>2, <2>3 DEF ListInv, ListTypeOK
<1>4. L <= Cardinality(Item)
  <2>1. IsFiniteSet(listed) /\ IsFiniteSet(Item) /\ Cardinality(listed) = uxNumberOfItems /\ listed \in SUBSET Item
    BY Typed
  <2>2. Cardinality(listed \cup {i}) = uxNumberOfItems + 1
    BY <2>1, FS_AddElement
  <2>3. Cardinality(listed \cup {i}) <= Cardinality(Item)
    BY <2>1, FS_Subset
  <2> QED BY <1>1, <2>2, <2>3
<1>5. W[0] = End /\ \A k \in 1 .. L : W[k] = q[k]
  <2>1. IsWalks(pxNext, Walk)
    BY DEF IsWalks, Walk
  <2>2. Cardinality(Item) \in Nat
    BY Typed
  <2>3. Len(q) <= Cardinality(Item) + 1
    BY <1>1, <1>4, <2>2
  <2>4. /\ Walk[q[Len(q)]][0] = q[Len(q)]
        /\ \A k \in 1 .. Len(q) : k <= Cardinality(Item) => Walk[q[Len(q)]][k] = q[k]
    BY <1>2, <2>1, <2>3, WalkOfCircle
  <2>5. \A k \in 1 .. L : k <= Cardinality(Item)
    BY <1>1, <1>4, <2>2
  <2> QED BY <1>2, <2>4, <2>5
<1>6. MaxValue \in Nat /\ v \in Nat /\ v <= MaxValue
  BY ListAssumption DEF Value
<1> HIDE DEF W, L
<1>7. ValueOf(W[L]) = MaxValue /\ \A k \in 1 .. L - 1 : ValueOf(W[k]) = xItemValue[q[k]]
  <2>1. W[L] = End
    BY <1>1, <1>2, <1>5
  <2>2. \A k \in 1 .. L - 1 : W[k] = q[k]
    BY <1>1, <1>5
  <2> QED BY <1>3, <2>1, <2>2 DEF ValueOf
<1>8. \A k \in 1 .. L : ValueOf(W[k]) \in Nat
  <2> TAKE k \in 1 .. L
  <2>1. CASE k = L
    BY <1>6, <1>7, <2>1
  <2>2. CASE k /= L
    <3>1. k \in 1 .. L - 1
      BY <1>1, <2>2
    <3>2. xItemValue[q[k]] \in Nat
      BY <1>3, <1>6, <3>1 DEF Value
    <3> QED BY <1>7, <3>1, <3>2
  <2> QED BY <2>1, <2>2
<1>9. CASE v = MaxValue
  <2>1. Position(v) = IF L - 1 = 0 THEN q[L] ELSE q[L - 1]
    <3>1. Position(v) = pxPrevious[q[L]]
      BY <1>2, <1>9 DEF Position
    <3>2. CASE L = 1
      <4>3. 1 \in 1 .. L
        BY <3>2
      <4>1. After(q, 1) = 1
        BY <3>2 DEF After, L
      <4>2. pxPrevious[q[L]] = q[L]
        BY <1>2, <3>2, <4>1, <4>3 DEF Circle, L
      <4> QED BY <3>1, <3>2, <4>2
    <3>3. CASE L /= 1
      <4>3. L - 1 \in 1 .. L /\ L - 1 /= L /\ (L - 1) + 1 = L /\ L - 1 /= 0
        BY <1>1, <3>3
      <4>1. After(q, L - 1) = L
        BY <4>3 DEF After, L
      <4>2. pxPrevious[q[L]] = q[L - 1]
        BY <1>2, <4>1, <4>3 DEF Circle, L
      <4> QED BY <3>1, <4>2, <4>3
    <3> QED BY <3>2, <3>3
  <2>2. \A j \in 1 .. L - 1 : xItemValue[q[j]] <= v
    BY <1>3, <1>6, <1>9 DEF Value
  <2>3. L - 1 \in 0 .. L - 1 /\ (L - 1) + 1 = L
    BY <1>1
  <2> QED BY <2>1, <2>2, <2>3 DEF L
<1>10. CASE v /= MaxValue
  <2> DEFINE Stops(k) == /\ ValueOf(W[k + 1]) > v
                         /\ \A j \in 1 .. k : ValueOf(W[j]) <= v
             T == {k \in 0 .. L - 1 : ValueOf(W[k + 1]) > v}
  <2>1. T \subseteq Nat /\ L - 1 \in T
    <3>1. L - 1 \in 0 .. L - 1 /\ (L - 1) + 1 = L
      BY <1>1
    <3>2. ValueOf(W[L]) > v
      BY <1>6, <1>7, <1>10
    <3>3. L - 1 \in T
      BY <3>1, <3>2
    <3> QED BY <1>1, <3>3
  <2>2. \E k \in 0 .. L - 1 : Stops(k)
    <3>1. PICK k \in T : \A m \in T : k <= m
      <4> HIDE DEF T
      <4> QED BY <2>1, NatMinimum
    <3>2. ASSUME NEW j \in 1 .. k
          PROVE  ValueOf(W[j]) <= v
      <4>1. j - 1 \in 0 .. L - 1 /\ (j - 1) + 1 = j /\ j \in 1 .. L /\ ~ (k <= j - 1)
        BY <1>1, <3>1, <3>2
      <4>2. ~ (ValueOf(W[j]) > v)
        BY <3>1, <4>1
      <4>3. ValueOf(W[j]) \in Nat
        BY <1>8, <4>1
      <4> QED BY <1>6, <4>2, <4>3
    <3> QED BY <3>1, <3>2
  <2> DEFINE k == CHOOSE x \in 0 .. L - 1 : Stops(x)
  <2>3. k \in 0 .. L - 1 /\ Stops(k)
    <3> HIDE DEF Stops
    <3> QED BY <2>2
  <2>4. Position(v) = W[k]
    <3>1. Cardinality(listed) = L - 1
      BY <1>1, Typed DEF L
    <3>2. Position(v) = Walk[End][CHOOSE x \in 0 .. Cardinality(listed) :
                            /\ ValueOf(Walk[End][x + 1]) > v
                            /\ \A j \in 1 .. x : ValueOf(Walk[End][j]) <= v]
      BY <1>10, Zenon DEF Position
    <3> QED BY <3>1, <3>2, Zenon DEF W
  <2> HIDE DEF k
  <2>5. Position(v) = IF k = 0 THEN q[L] ELSE q[k]
    <3>1. CASE k = 0
      BY <1>2, <1>5, <2>4, <3>1
    <3>2. CASE k /= 0
      <4>1. k \in 1 .. L
        BY <1>1, <2>3, <3>2
      <4> QED BY <1>5, <2>4, <3>2, <4>1
    <3> QED BY <3>1, <3>2
  <2>6. ASSUME NEW j \in 1 .. k
        PROVE  xItemValue[q[j]] <= v
    <3>1. j \in 1 .. L - 1
      BY <1>1, <2>3, <2>6
    <3> QED BY <1>7, <2>3, <2>6, <3>1
  <2>7. k + 1 = L \/ xItemValue[q[k + 1]] > v
    <3> SUFFICES ASSUME k + 1 /= L PROVE xItemValue[q[k + 1]] > v
      OBVIOUS
    <3>1. k + 1 \in 1 .. L - 1
      BY <1>1, <2>3
    <3> QED BY <1>7, <2>3, <3>1
  <2> QED BY <2>3, <2>5, <2>6, <2>7 DEF L
<1> QED BY <1>9, <1>10

\* An item put there keeps a sorted list sorted.
LEMMA WithSorted ==
    ASSUME NEW q \in Seq(Node), Len(q) >= 1, NEW k \in 0 .. Len(q) - 1, NEW i \in Item, NEW v \in Nat,
           NEW value, \A j \in 1 .. Len(q) - 1 : value[q[j]] \in Nat,
           NEW new, new[i] = v, \A j \in 1 .. Len(q) - 1 : new[q[j]] = value[q[j]],
           Sorted(q, value),
           \A j \in 1 .. k : value[q[j]] <= v,
           k + 1 = Len(q) \/ value[q[k + 1]] > v
    PROVE  Sorted(With(q, k, i), new)
<1> DEFINE r == With(q, k, i)
           L == Len(q)
<1>1. L \in Nat /\ L >= 1 /\ k \in Nat /\ k <= L - 1
  OBVIOUS
<1>2. Len(r) = L + 1
      /\ \A j \in 1 .. L + 1 : r[j] = IF j <= k THEN q[j] ELSE IF j = k + 1 THEN i ELSE q[j - 1]
  <2>1. q \in Seq(Node) /\ k \in 0 .. Len(q) /\ i \in Node
    BY DEF Node
  <2>2. IsWith(r, q, k, i)
    BY <2>1, WithIs
  <2> HIDE DEF r
  <2> QED BY <2>2 DEF IsWith
<1>3. \A j, m \in 1 .. L - 1 : j < m => value[q[j]] <= value[q[m]]
  BY DEF Sorted
<1> HIDE DEF r, L
<1>4. \A j \in 1 .. L : /\ j <= k => j \in 1 .. L - 1 /\ new[r[j]] = value[q[j]]
                        /\ j = k + 1 => new[r[j]] = v
                        /\ j > k + 1 => j - 1 \in 1 .. L - 1 /\ new[r[j]] = value[q[j - 1]]
  BY <1>1, <1>2 DEF L
<1>5. \A j \in 1 .. L - 1 : value[q[j]] \in Nat
  BY DEF L
<1>6. \A j \in 1 .. L - 1 : j > k => value[q[j]] > v
  <2> SUFFICES ASSUME NEW j \in 1 .. L - 1, j > k PROVE value[q[j]] > v
    OBVIOUS
  <2>1. k + 1 \in 1 .. L - 1 /\ k + 1 /= L
    BY <1>1
  <2>2. value[q[k + 1]] > v
    BY <2>1 DEF L
  <2>3. value[q[k + 1]] <= value[q[j]]
    <3>1. CASE j = k + 1
      BY <1>5, <3>1
    <3>2. CASE j /= k + 1
      BY <1>1, <1>3, <2>1, <3>2
    <3> QED BY <3>1, <3>2
  <2> QED BY <1>5, <2>1, <2>2, <2>3
<1>7. ASSUME NEW j \in 1 .. L, NEW m \in 1 .. L, j < m
      PROVE  new[r[j]] <= new[r[m]]
  <2>1. CASE m <= k
    <3>1. j <= k
      BY <1>1, <1>7, <2>1
    <3> QED BY <1>3, <1>4, <1>7, <2>1, <3>1
  <2>2. CASE m = k + 1
    <3>1. j <= k /\ j \in 1 .. k
      BY <1>1, <1>7, <2>2
    <3> QED BY <1>4, <2>2, <3>1
  <2>3. CASE m > k + 1
    <3>1. m - 1 \in 1 .. L - 1 /\ new[r[m]] = value[q[m - 1]] /\ value[q[m - 1]] > v
      <4>1. m - 1 \in 1 .. L - 1 /\ new[r[m]] = value[q[m - 1]]
        BY <1>4, <2>3
      <4> QED BY <1>1, <1>6, <2>3, <4>1
    <3>2. CASE j <= k
      <4>1. j \in 1 .. k /\ new[r[j]] = value[q[j]] /\ j \in 1 .. L - 1
        BY <1>1, <1>4, <3>2
      <4>2. value[q[j]] <= v
        BY <4>1
      <4> QED BY <1>5, <3>1, <4>1, <4>2
    <3>3. CASE j = k + 1
      <4>1. new[r[j]] = v
        BY <1>4, <3>3
      <4> QED BY <1>5, <3>1, <4>1
    <3>4. CASE j > k + 1
      <4>1. j - 1 \in 1 .. L - 1 /\ new[r[j]] = value[q[j - 1]] /\ j - 1 < m - 1
        BY <1>1, <1>4, <1>7, <3>4
      <4> QED BY <1>3, <3>1, <4>1
    <3> QED BY <1>1, <3>2, <3>3, <3>4
  <2> QED BY <1>1, <2>1, <2>2, <2>3
<1>8. Len(r) - 1 = L
  BY <1>1, <1>2
<1> QED BY <1>7, <1>8 DEF Sorted, r

LEMMA InsertStep ==
    ASSUME ListInv, NEW i \in Item, NEW v \in Value, use \in {"delayed", "event"}, vListInsert(i, v)
    PROVE  ListInv' /\ Promise!Insert(i, v)
<1>1. PICK q : Shows(q)
  BY DEF ListInv
<1>2. /\ i \notin listed /\ Link(i, Position(v))
      /\ xItemValue' = [xItemValue EXCEPT ![i] = v]
      /\ UNCHANGED <<use, pxIndex, served>>
  BY DEF vListInsert
<1>3. pxIndex = End /\ xItemValue \in [Item -> Value]
  BY DEF ListInv, ListTypeOK
<1>4. /\ q \in Seq(Node) /\ Len(q) \in Nat /\ Len(q) >= 1
      /\ \A k \in 1 .. Len(q) : q[k] \in listed \cup {End}
      /\ \A j, k \in 1 .. Len(q) : q[j] = q[k] => j = k
  BY <1>1, ShownSeq
<1>5. q[Len(q)] = End /\ (use = "delayed" => Sorted(q, xItemValue))
  BY <1>1, <1>3 DEF Shows
<1>6. \E k \in 0 .. Len(q) - 1 :
         /\ Position(v) = IF k = 0 THEN q[Len(q)] ELSE q[k]
         /\ \A j \in 1 .. k : xItemValue[q[j]] <= v
         /\ k + 1 = Len(q) \/ xItemValue[q[k + 1]] > v
  BY <1>1, <1>2, <1>3, PositionIs
<1>7. PICK k \in 0 .. Len(q) - 1 :
         /\ Position(v) = IF k = 0 THEN q[Len(q)] ELSE q[k]
         /\ \A j \in 1 .. k : xItemValue[q[j]] <= v
         /\ k + 1 = Len(q) \/ xItemValue[q[k + 1]] > v
  BY <1>6
<1>8. v \in Nat /\ \A w \in Value : w \in Nat
  BY ListAssumption DEF Value
<1>9. \A j \in 1 .. Len(q) - 1 :
         /\ q[j] \in Item /\ q[j] /= i /\ q[j] /= End /\ xItemValue[q[j]] \in Nat
         /\ xItemValue'[q[j]] = xItemValue[q[j]]
  <2> SUFFICES ASSUME NEW j \in 1 .. Len(q) - 1
               PROVE  /\ q[j] \in Item /\ q[j] /= i /\ q[j] /= End /\ xItemValue[q[j]] \in Nat
                      /\ xItemValue'[q[j]] = xItemValue[q[j]]
    OBVIOUS
  <2>1. j \in 1 .. Len(q) /\ Len(q) \in 1 .. Len(q) /\ j /= Len(q)
    BY <1>4
  <2>2. q[j] /= End
    BY <1>4, <1>5, <2>1
  <2>3. q[j] \in Item /\ q[j] /= i
    BY <1>2, <1>4, <2>1, <2>2, Typed
  <2> QED BY <1>2, <1>3, <1>8, <2>2, <2>3
<1>10. xItemValue'[i] = v /\ xItemValue' \in [Item -> Value]
  BY <1>2, <1>3
<1>11. use = "delayed" => Sorted(With(q, k, i), xItemValue')
  <2> SUFFICES ASSUME use = "delayed" PROVE Sorted(With(q, k, i), xItemValue')
    OBVIOUS
  <2>1. Sorted(q, xItemValue)
    BY <1>5
  <2>2. \A j \in 1 .. Len(q) - 1 : xItemValue[q[j]] \in Nat
    BY <1>9
  <2>3. \A j \in 1 .. Len(q) - 1 : xItemValue'[q[j]] = xItemValue[q[j]]
    BY <1>9
  <2> QED BY <1>4, <1>7, <1>8, <1>10, <2>1, <2>2, <2>3, WithSorted
<1> DEFINE p == Position(v)
<1> HIDE DEF p
<1>12. ListInv' /\ Ring = q /\ ~Promise!In(i) /\ Promise!PutBefore(k + 1, i)
  <2>1. p = IF k = 0 THEN q[Len(q)] ELSE q[k]
    BY <1>7 DEF p
  <2>2. Link(i, p) /\ use' = use /\ pxIndex' = pxIndex /\ served' = served
    BY <1>2 DEF p
  <2> QED BY <1>1, <1>2, <1>10, <1>11, <2>1, <2>2, LinkStep
<1>13. \A j \in 1 .. Len(q) : Promise!Rank(j) = j
  <2> TAKE j \in 1 .. Len(q)
  <2> DEFINE e == CHOOSE x \in 1 .. Len(q) : q[x] = End
  <2>1. e = Len(q)
    <3>1. Len(q) \in 1 .. Len(q) /\ \A x \in 1 .. Len(q) : q[x] = End => x = Len(q)
      BY <1>4, <1>5
    <3> QED BY <1>5, <3>1
  <2>2. Promise!Rank(j) = IF j > e THEN j - e ELSE j + Len(q) - e
    BY <1>12 DEF Promise!Rank
  <2> HIDE DEF e
  <2> QED BY <1>4, <2>1, <2>2
<1> DEFINE Later == {m \in 1 .. Len(Ring) : Ring[m] = End \/ xItemValue[Ring[m]] > v}
<1>14. k + 1 \in Later
  <2>1. k + 1 \in 1 .. Len(q)
    BY <1>4
  <2>2. q[k + 1] = End \/ xItemValue[q[k + 1]] > v
    BY <1>5, <1>7
  <2> QED BY <1>12, <2>1, <2>2
<1>15. ASSUME NEW m \in Later
       PROVE  Promise!Rank(k + 1) <= Promise!Rank(m)
  <2>1. m \in 1 .. Len(q) /\ (q[m] = End \/ xItemValue[q[m]] > v)
    BY <1>12
  <2>2. ~ (m <= k)
    <3> SUFFICES ASSUME m <= k PROVE FALSE
      OBVIOUS
    <3>1. m \in 1 .. k /\ m \in 1 .. Len(q) - 1
      BY <1>4, <2>1
    <3>2. xItemValue[q[m]] <= v /\ xItemValue[q[m]] \in Nat /\ q[m] /= End
      BY <1>7, <1>9, <3>1
    <3> QED BY <1>8, <2>1, <3>2
  <2>3. k + 1 \in 1 .. Len(q) /\ k + 1 <= m
    BY <1>4, <2>1, <2>2
  <2> QED BY <1>13, <2>1, <2>3
<1>16. \E m \in Later : (\A j \in Later : Promise!Rank(m) <= Promise!Rank(j)) /\ Promise!PutBefore(m, i)
  <2> HIDE DEF Later
  <2> QED BY <1>12, <1>14, <1>15, Zenon
<1>17. Promise!Insert(i, v)
  BY <1>2, <1>12, <1>16, Zenon DEF Promise!Insert
<1> QED BY <1>12, <1>17

LEMMA SetValueStep ==
    ASSUME ListInv, NEW i \in Item, NEW v \in Value, use = "event", SetValue(i, v)
    PROVE  ListInv' /\ Promise!SetValue(i, v)
<1>1. PICK q : Shows(q)
  BY DEF ListInv
<1>2. xItemValue' = [xItemValue EXCEPT ![i] = v] /\ UNCHANGED <<use, links, served>>
  BY DEF SetValue
<1>3. ListTypeOK'
  BY <1>2 DEF ListInv, ListTypeOK, links
<1>4. Cardinality(listed') = uxNumberOfItems' /\ (use' /= "ready" => pxIndex' = End)
  BY <1>2 DEF ListInv, links
<1>5. Shows(q)'
  <2>1. use' /= "delayed"
    BY <1>2
  <2> QED BY <1>1, <1>2, <2>1 DEF Shows, links
<1>6. Ring = q /\ Ring' = q
  BY <1>1, <1>3, <1>4, <1>5, Shown, ShownNext DEF ListInv
<1>7. Promise!SetValue(i, v)
  BY <1>2, <1>6 DEF Promise!SetValue
<1> QED BY <1>3, <1>4, <1>5, <1>7 DEF ListInv

LEMMA StutterStep ==
    ASSUME ListInv, UNCHANGED listVars
    PROVE  ListInv' /\ UNCHANGED Promise!vars
<1>1. UNCHANGED <<use, pxNext, pxPrevious, pxIndex, listed, uxNumberOfItems, xItemValue, served>>
  BY DEF listVars, links
<1>2. PICK q : Shows(q)
  BY DEF ListInv
<1>3. ListTypeOK'
  BY <1>1 DEF ListInv, ListTypeOK
<1>4. Cardinality(listed') = uxNumberOfItems' /\ (use' /= "ready" => pxIndex' = End)
  BY <1>1 DEF ListInv
<1>5. Shows(q)'
  BY <1>1, <1>2 DEF Shows
<1>6. Ring = q /\ Ring' = q
  BY <1>2, <1>3, <1>4, <1>5, Shown, ShownNext DEF ListInv
<1> QED BY <1>1, <1>3, <1>4, <1>5, <1>6 DEF ListInv, Promise!vars

LEMMA InitStep ==
    ASSUME ListInit
    PROVE  ListInv /\ Promise!Init
<1> DEFINE q == <<End>>
<1>1. /\ use \in Uses /\ pxIndex = End /\ listed = {} /\ uxNumberOfItems = 0
      /\ pxNext = [n \in Node |-> End] /\ pxPrevious = [n \in Node |-> End]
      /\ xItemValue = [i \in Item |-> 0] /\ served = End
  BY DEF ListInit, vListInitialise
<1>2. End \in Node /\ 0 \in Value
  BY ListAssumption DEF Node, Value
<1>3. ListTypeOK
  BY <1>1, <1>2 DEF ListTypeOK
<1>4. Cardinality(listed) = uxNumberOfItems
  BY <1>1, FS_EmptySet
<1>5. q \in Seq(Node) /\ Len(q) = 1 /\ q[1] = End
  BY <1>2
<1> HIDE DEF q
<1>6. \A k \in 1 .. Len(q) : k = 1 /\ After(q, k) = 1
  BY <1>5 DEF After
<1>7. pxNext[End] = End /\ pxPrevious[End] = End
  BY <1>1, <1>2
<1>8. Circle(pxNext, pxPrevious, listed, q)
  <2>1. \A n \in listed \cup {End} : n = End
    BY <1>1
  <2>2. \A n \in listed \cup {End} : \E k \in 1 .. Len(q) : q[k] = n
    BY <1>5, <2>1
  <2>3. \A k \in 1 .. Len(q) :
           pxNext[q[k]] = q[After(q, k)] /\ pxPrevious[q[After(q, k)]] = q[k] /\ q[k] \in listed \cup {End}
    BY <1>5, <1>6, <1>7
  <2>4. \A j, k \in 1 .. Len(q) : q[j] = q[k] => j = k
    BY <1>6
  <2> QED BY <1>5, <2>2, <2>3, <2>4 DEF Circle
<1>9. Shows(q)
  <2>1. Sorted(q, xItemValue)
    BY <1>5 DEF Sorted
  <2> QED BY <1>1, <1>5, <1>8, <2>1 DEF Shows
<1>10. ListInv
  BY <1>1, <1>3, <1>4, <1>9 DEF ListInv
<1>11. Ring = q
  BY <1>3, <1>4, <1>9, Shown
<1>12. xItemValue \in [Item -> Value]
  BY <1>1, <1>2
<1> QED BY <1>1, <1>10, <1>11, <1>12 DEF Promise!Init, q

LEMMA EveryStep ==
    ASSUME ListInv, [ListNext]_listVars
    PROVE  ListInv' /\ [Promise!Next]_(Promise!vars)
<1>1. ASSUME NEW i \in Item, uxListRemove(i)
      PROVE  ListInv' /\ Promise!Next
  <2>1. ListInv' /\ Promise!Remove(i)
    BY <1>1, RemoveStep
  <2> QED BY <2>1 DEF Promise!Next
<1>2. ASSUME use = "ready", NextEntry
      PROVE  ListInv' /\ Promise!Next
  <2>1. ListInv' /\ Promise!Serve
    BY <1>2, ServeStep
  <2> QED BY <2>1 DEF Promise!Next
<1>3. ASSUME use = "ready", NEW i \in Item, vListInsertEnd(i)
      PROVE  ListInv' /\ Promise!Next
  <2>1. ListInv' /\ Promise!InsertEnd(i)
    BY <1>3, InsertEndStep
  <2> QED BY <2>1 DEF Promise!Next
<1>4. ASSUME NEW i \in Item, NEW v \in Value, use \in {"delayed", "event"}, vListInsert(i, v)
      PROVE  ListInv' /\ Promise!Next
  <2>1. ListInv' /\ Promise!Insert(i, v)
    BY <1>4, InsertStep
  <2> QED BY <2>1 DEF Promise!Next
<1>5. ASSUME NEW i \in Item, NEW v \in Value, use = "event", SetValue(i, v)
      PROVE  ListInv' /\ Promise!Next
  <2>1. ListInv' /\ Promise!SetValue(i, v)
    BY <1>5, SetValueStep
  <2> QED BY <2>1 DEF Promise!Next
<1>6. ASSUME UNCHANGED listVars
      PROVE  ListInv' /\ UNCHANGED Promise!vars
  BY <1>6, StutterStep
<1>7. CASE ListNext
  BY <1>1, <1>2, <1>3, <1>4, <1>5, <1>7 DEF ListNext
<1> QED BY <1>6, <1>7

-----------------------------------------------------------------------------
(***************************************************************************)
(* What follows from the invariant: the ring can be read from any of its   *)
(* nodes on, the marker for one.                                           *)
(***************************************************************************)
LEMMA FromMarker ==
    ASSUME NEW succ, NEW pred, NEW items, NEW q, Circle(succ, pred, items, q)
    PROVE  \E r : Circle(succ, pred, items, r) /\ Len(r) = Len(q) /\ r[1] = End
<1> DEFINE Far(r, m) == /\ Circle(succ, pred, items, r) /\ Len(r) = Len(q)
                        /\ m + 1 <= Len(q) /\ r[m + 1] = End
           P == {m \in Nat : \A r : Far(r, m) => \E s : Far(s, 0)}
<1>1. Len(q) \in Nat
  BY DEF Circle
<1>2. 0 \in P
  OBVIOUS
<1>3. ASSUME NEW m \in Nat, m \in P
      PROVE  m + 1 \in P
  <2> SUFFICES ASSUME NEW r, Far(r, m + 1) PROVE \E s : Far(s, 0)
    OBVIOUS
  <2>1. r \in Seq(Node) /\ Len(r) = Len(q) /\ Len(r) >= 1 /\ (m + 1) + 1 <= Len(q) /\ r[(m + 1) + 1] = End
    BY DEF Circle
  <2>2. Circle(succ, pred, items, Turned(r))
    BY TurnedCircle
  <2>3. Len(Turned(r)) = Len(r) /\ \A j \in 1 .. Len(r) : Turned(r)[j] = IF j < Len(r) THEN r[j + 1] ELSE r[1]
    BY <2>1, TurnedIs
  <2>4. m + 1 \in 1 .. Len(r) /\ m + 1 < Len(r) /\ m + 1 <= Len(q)
    BY <1>1, <2>1
  <2>5. Turned(r)[m + 1] = End
    BY <2>1, <2>3, <2>4
  <2>6. Far(Turned(r), m)
    BY <2>1, <2>2, <2>3, <2>4, <2>5
  <2> HIDE DEF Far
  <2> QED BY <1>3, <2>6
<1>4. Nat \subseteq P
  <2> HIDE DEF P
  <2> QED BY <1>2, <1>3, NatInduct
<1>5. PICK k \in 1 .. Len(q) : q[k] = End
  BY DEF Circle
<1>6. k - 1 \in Nat /\ (k - 1) + 1 = k /\ k <= Len(q)
  BY <1>1, <1>5
<1>7. Far(q, k - 1)
  BY <1>5, <1>6
<1>8. \E s : Far(s, 0)
  <2> HIDE DEF Far
  <2> QED BY <1>4, <1>6, <1>7
<1> QED BY <1>8

LEMMA InvLinks ==
    ASSUME ListInv
    PROVE  LinksAgree
<1>1. PICK q : Shows(q)
  BY DEF ListInv
<1>2. Circle(pxNext, pxPrevious, listed, q) /\ Len(q) = uxNumberOfItems + 1 /\ Len(q) \in Nat /\ Len(q) >= 1
  BY <1>1, ShownSeq DEF Shows
<1>3. pxIndex \in listed \cup {End}
  <2>1. Len(q) \in 1 .. Len(q)
    BY <1>2
  <2> QED BY <1>1, <2>1 DEF Shows, Circle
<1>4. \A n \in listed \cup {End} : pxPrevious[pxNext[n]] = n
  BY <1>2 DEF Circle
<1>5. \E r : Circle(pxNext, pxPrevious, listed, r) /\ Len(r) = Len(q) /\ r[1] = End
  BY <1>2, FromMarker
<1>6. PICK r : Circle(pxNext, pxPrevious, listed, r) /\ Len(r) = Len(q) /\ r[1] = End
  BY <1>5
<1>7. \A k \in 1 .. Len(r) : Walk[End][k - 1] = r[k]
  <2>1. IsWalks(pxNext, Walk)
    BY DEF IsWalks, Walk
  <2>2. Len(r) <= Cardinality(Item) + 1
    BY <1>2, <1>6, Typed
  <2>3. \A k \in 1 .. Len(r) : Walk[r[1]][k - 1] = r[k]
    BY <1>6, <2>1, <2>2, WalkOfCircle
  <2> QED BY <1>6, <2>3
<1>8. {Walk[End][k] : k \in 0 .. uxNumberOfItems} = listed \cup {End}
  <2>1. ASSUME NEW k \in 0 .. uxNumberOfItems
        PROVE  Walk[End][k] \in listed \cup {End}
    <3>1. k + 1 \in 1 .. Len(r) /\ (k + 1) - 1 = k
      BY <1>2, <1>6, Typed
    <3>2. Walk[End][k] = r[k + 1]
      BY <1>7, <3>1
    <3> QED BY <1>6, <3>1, <3>2 DEF Circle
  <2>2. ASSUME NEW n \in listed \cup {End}
        PROVE  \E k \in 0 .. uxNumberOfItems : Walk[End][k] = n
    <3>1. PICK k \in 1 .. Len(r) : r[k] = n
      BY <1>6 DEF Circle
    <3>2. k - 1 \in 0 .. uxNumberOfItems
      BY <1>2, <1>6, <3>1, Typed
    <3> QED BY <1>7, <3>1, <3>2
  <2> QED BY <2>1, <2>2
<1> QED BY <1>3, <1>4, <1>8 DEF LinksAgree, ListInv

LEMMA InvHead ==
    ASSUME ListInv
    PROVE  HeadIsFirst
<1> SUFFICES ASSUME use = "delayed", NEW i \in listed PROVE ValueOf(pxNext[End]) <= xItemValue[i]
  BY DEF HeadIsFirst, HeadIsLeast
<1>1. PICK q : Shows(q)
  BY DEF ListInv
<1>2. /\ q \in Seq(Node) /\ Len(q) \in Nat /\ Len(q) >= 1
      /\ \A n \in listed \cup {End} : \E k \in 1 .. Len(q) : q[k] = n
      /\ \A k \in 1 .. Len(q) : q[k] \in listed \cup {End}
      /\ \A j, k \in 1 .. Len(q) : q[j] = q[k] => j = k
  BY <1>1, ShownSeq
<1>3. q[Len(q)] = End /\ Sorted(q, xItemValue)
  BY <1>1 DEF ListInv, Shows
<1>4. i \in Item /\ i /= End
  BY Typed
<1>5. PICK k \in 1 .. Len(q) : q[k] = i
  BY <1>2
<1>6. k \in 1 .. Len(q) - 1 /\ 1 \in 1 .. Len(q) - 1 /\ 1 \in 1 .. Len(q) /\ 1 /= Len(q) /\ Len(q) \in 1 .. Len(q)
  <2>1. k /= Len(q)
    BY <1>3, <1>4, <1>5
  <2> QED BY <1>2, <1>5, <2>1
<1>7. pxNext[End] = q[1]
  <2>1. After(q, Len(q)) = 1
    BY DEF After
  <2> QED BY <1>1, <1>3, <1>6, <2>1 DEF Shows, Circle
<1>8. q[1] /= End
  BY <1>2, <1>3, <1>6
<1>9. xItemValue[q[1]] <= xItemValue[q[k]]
  <2>1. CASE k = 1
    <3>1. xItemValue[i] \in Nat
      BY <1>4, ListAssumption DEF ListInv, ListTypeOK, Value
    <3> QED BY <1>5, <2>1, <3>1
  <2>2. CASE k /= 1
    <3>1. 1 < k
      BY <1>6, <2>2
    <3> QED BY <1>3, <1>6, <3>1 DEF Sorted
  <2> QED BY <2>1, <2>2
<1> QED BY <1>5, <1>7, <1>8, <1>9 DEF ValueOf

-----------------------------------------------------------------------------
(* The theorems *)

\* The links are a ring that some sequence shows, whatever the list is for and
\* in whatever order list.c is called.
THEOREM ListInvariant == ListSpec => []ListInv
<1>1. ListInit => ListInv
  BY InitStep
<1>2. ListInv /\ [ListNext]_listVars => ListInv'
  BY EveryStep
<1> QED BY <1>1, <1>2, PTL DEF ListSpec

\* pxNext and pxPrevious join exactly the listed items and the marker into one
\* ring, each the other's inverse, of uxNumberOfItems items (list.c:143-210).
THEOREM LinksFormRing == ListSpec => []LinksAgree
<1>1. ListInv => LinksAgree
  BY InvLinks
<1> QED BY <1>1, ListInvariant, PTL

\* The first entry of a delayed list is the next task to wake, which is all
\* that the tick looks at (list.c:143, tasks.c:1904).
THEOREM HeadWakesFirst == ListSpec => []HeadIsFirst
<1>1. ListInv => HeadIsFirst
  BY InvHead
<1> QED BY <1>1, ListInvariant, PTL

\* The pointers of list.c do what ListRing promises: insertion at the end and by
\* value, removal and the step to the next entry, under any number of items.
THEOREM ListIsRing == ListSpec => ImplementsRing
<1>1. ListInit => ListInv /\ Promise!Init
  BY InitStep
<1>2. ListInv /\ [ListNext]_listVars => [Promise!Next]_(Promise!vars)
  BY EveryStep
<1> QED BY <1>1, <1>2, ListInvariant, PTL DEF ListSpec, ImplementsRing, Promise!Spec
===============================================================================
