-------------------------------- MODULE Mutex --------------------------------
(***************************************************************************)
(* The mutexes of freertos/Source/queue.c and the priority inheritance of  *)
(* tasks.c, with the scheduler's choice of the running task: FatFs takes   *)
(* such a mutex around every call on a volume (ENTER_FF, LEAVE_FF).        *)
(*                                                                         *)
(* A task runs only while it is the current one.  Who that is changes only *)
(* where the code asks for a context switch; then it is any ready task of  *)
(* the highest priority.  A step is one critical section, or all that      *)
(* happens while the scheduler is suspended: interrupts give no mutexes,   *)
(* so nothing can come in between.  Time is left open: a tick readies any  *)
(* one task whose delay or timeout may be over, or none.  A task's pc:     *)
(*   app        application code, or a delay if it is not ready            *)
(*   try        before the critical section at the head of the loop of     *)
(*              xQueueGenericReceive, or on a waiting list if not ready    *)
(*   block      before vTaskSuspendAll                                     *)
(***************************************************************************)
EXTENDS Integers, Sequences, FiniteSets

CONSTANTS
    Task,
    Idle,           \* the idle task, a member of Task
    None,           \* no task
    Mutex,          \* numbers: tasks take mutexes in ascending order
    Recursive,      \* the ones made by xSemaphoreCreateRecursiveMutex
    FirstPriority,  \* the priority each task is created with
    Patience,       \* the timeouts of xSemaphoreTake: of none, some, forever
    Settable,       \* the tasks whose priority vTaskPrioritySet changes
    MaxDepth,       \* bound: nested takes of a recursive mutex
    MaxSets         \* bound: calls of vTaskPrioritySet

Priority == {FirstPriority[t] : t \in Task}
Worker == Task \ {Idle}

ASSUME MutexAssumption ==
    /\ IsFiniteSet(Task) /\ Idle \in Task /\ None \notin Task
    /\ IsFiniteSet(Mutex) /\ Mutex \subseteq Nat /\ Recursive \subseteq Mutex
    /\ FirstPriority \in [Task -> Nat]
    /\ FirstPriority[Idle] = 0      \* tskIDLE_PRIORITY
    /\ Patience \subseteq {"none", "some", "forever"} /\ Settable \subseteq Worker
    /\ MaxDepth \in Nat \ {0} /\ MaxSets \in Nat

VARIABLES
    current,        \* pxCurrentTCB
    ready,          \* the tasks in the ready lists, current among them
    prio, base,     \* uxPriority, uxBasePriority
    listed,         \* the priority a task's event list item stands for
    held,           \* uxMutexesHeld
    pc, want, patience, \* the xSemaphoreTake a task is in
    expired,        \* whether its timeout is known to be over
    avail,          \* uxMessagesWaiting of a mutex
    holder,         \* pxMutexHolder
    depth,          \* uxRecursiveCallCount
    waiting,        \* xTasksWaitingToReceive
    sets,           \* calls of vTaskPrioritySet so far
    nest,           \* history: see LockTable
    changed,        \* history: tasks whose priority has been set
    overlooked      \* history: a context switch asked for was not made

sched == <<current, ready>>
priorities == <<prio, base, listed, held>>
call == <<pc, want, patience, expired>>
mutexes == <<avail, holder, depth, waiting>>
history == <<sets, nest, changed, overlooked>>
vars == <<sched, priorities, call, mutexes, history>>

Init ==
    /\ ready = Task
    /\ current \in {t \in Task : \A u \in Task : FirstPriority[u] <= FirstPriority[t]}
    /\ prio = FirstPriority /\ base = FirstPriority /\ listed = FirstPriority
    /\ held = [t \in Task |-> 0]
    /\ pc = [t \in Task |-> "app"] /\ want = [t \in Task |-> None]
    /\ patience = [t \in Task |-> "none"] /\ expired = [t \in Task |-> FALSE]
    /\ avail = [m \in Mutex |-> 1] /\ holder = [m \in Mutex |-> None]
    /\ depth = [m \in Mutex |-> 0] /\ waiting = [m \in Mutex |-> <<>>]
    /\ sets = 0 /\ changed = {} /\ overlooked = FALSE
    /\ nest = [t \in Task |-> [m \in Mutex |-> 0]]
-----------------------------------------------------------------------------
(* The scheduler *)

Top(R, p) == {t \in R : \A u \in R : p[u] <= p[t]}

\* vTaskSwitchContext, when it is asked for.
Yield(asked) == IF asked THEN current' \in Top(ready', prio') ELSE UNCHANGED current

Running(t, l) == current = t /\ t /= Idle /\ pc[t] = l

\* vTaskDelay
Sleep(t) ==
    /\ Running(t, "app")
    /\ ready' = ready \ {t}
    /\ UNCHANGED <<priorities, call, mutexes, history>>
    /\ Yield(TRUE)

\* A tick that readies nobody: tasks of one priority take turns.
TimeSlice ==
    /\ \E t \in ready \ {current} : prio[t] = prio[current]
    /\ UNCHANGED <<ready, priorities, call, mutexes, history>>
    /\ Yield(TRUE)

OnList(t, m) == \E i \in DOMAIN waiting[m] : waiting[m][i] = t
Waits(t) == \E m \in Mutex : OnList(t, m)

\* uxListRemove of a task's event list item, if it is on the list q.
Without(q, t) ==
    IF \E i \in DOMAIN q : q[i] = t
    THEN LET i == CHOOSE i \in DOMAIN q : q[i] = t
         IN SubSeq(q, 1, i - 1) \o SubSeq(q, i + 1, Len(q))
    ELSE q

\* Mutant: a task that becomes ready waits for the next switch.
Awake_lazy(t) ==
    /\ t \notin ready
    /\ Waits(t) => patience[t] = "some"
    /\ ready' = ready \cup {t}
    /\ expired' = [expired EXCEPT ![t] = Waits(t)]
    /\ waiting' = [m \in Mutex |-> Without(waiting[m], t)]
    /\ UNCHANGED <<priorities, pc, want, patience, avail, holder, depth, history>>
    /\ Yield(\E u \in ready \ {current} : prio[u] = prio[current])

\* A tick that readies t: its delay, or its timeout, is over.
Awake(t) ==
    /\ t \notin ready
    /\ Waits(t) => patience[t] = "some"
    /\ ready' = ready \cup {t}
    /\ expired' = [expired EXCEPT ![t] = Waits(t)]
    /\ waiting' = [m \in Mutex |-> Without(waiting[m], t)]
    /\ UNCHANGED <<priorities, pc, want, patience, avail, holder, depth, history>>
    /\ Yield(prio[t] >= prio[current] \/ \E u \in ready \ {current} : prio[u] = prio[current])
-----------------------------------------------------------------------------
(* Taking *)

Enter(t, m, w) ==
    /\ pc' = [pc EXCEPT ![t] = "try"] /\ want' = [want EXCEPT ![t] = m]
    /\ patience' = [patience EXCEPT ![t] = w]
    /\ UNCHANGED expired

Return(t) ==
    /\ pc' = [pc EXCEPT ![t] = "app"] /\ want' = [want EXCEPT ![t] = None]
    /\ patience' = [patience EXCEPT ![t] = "none"] /\ expired' = [expired EXCEPT ![t] = FALSE]

\* A call of xSemaphoreTake or xSemaphoreTakeRecursive.
Take(t) ==
    /\ Running(t, "app")
    /\ \E m \in Mutex, w \in Patience :
        /\ \A l \in Mutex : nest[t][l] > 0 => l < m
        /\ Enter(t, m, w)
    /\ UNCHANGED <<sched, priorities, mutexes, history>>

\* xQueueTakeMutexRecursive by the holder.
TakeAgain(t) ==
    /\ Running(t, "app")
    /\ \E m \in Recursive :
        /\ holder[m] = t /\ depth[m] < MaxDepth
        /\ depth' = [depth EXCEPT ![m] = @ + 1]
        /\ nest' = [nest EXCEPT ![t][m] = @ + 1]
    /\ UNCHANGED <<sched, priorities, call, avail, holder, waiting, sets, changed, overlooked>>

\* The first critical section: the mutex is free ...
Obtain(t) ==
    /\ Running(t, "try")
    /\ LET m == want[t] IN
        /\ avail[m] > 0
        /\ avail' = [avail EXCEPT ![m] = @ - 1]
        /\ holder' = [holder EXCEPT ![m] = t]
        /\ depth' = [depth EXCEPT ![m] = IF m \in Recursive THEN @ + 1 ELSE @]
        /\ nest' = [nest EXCEPT ![t][m] = @ + 1]
    /\ held' = [held EXCEPT ![t] = @ + 1]
    /\ Return(t)
    /\ UNCHANGED <<sched, prio, base, listed, waiting, sets, changed, overlooked>>

\* ... or the call does not wait ...
Refused(t) ==
    /\ Running(t, "try")
    /\ avail[want[t]] = 0 /\ patience[t] = "none"
    /\ Return(t)
    /\ UNCHANGED <<sched, priorities, mutexes, history>>

\* ... or it has to.
Wait(t) ==
    /\ Running(t, "try")
    /\ avail[want[t]] = 0 /\ patience[t] /= "none"
    /\ pc' = [pc EXCEPT ![t] = "block"]
    /\ UNCHANGED <<sched, priorities, want, patience, expired, mutexes, history>>

\* xTaskCheckForTimeOut finds that the time is over, known before or not.
Expire(t) ==
    /\ Running(t, "block") /\ patience[t] = "some"
    /\ Return(t)
    /\ UNCHANGED <<sched, priorities, mutexes, history>>

\* It was given back since: try again.
Again(t) ==
    /\ Running(t, "block") /\ ~expired[t]
    /\ avail[want[t]] > 0
    /\ pc' = [pc EXCEPT ![t] = "try"]
    /\ UNCHANGED <<sched, priorities, want, patience, expired, mutexes, history>>

\* Mutant: a holder that is itself waiting, and so not in a ready list, is
\* left alone.
vTaskPriorityInherit_ready(h, t) ==
    IF h /= None /\ prio[h] < prio[t] /\ h \in ready
    THEN prio' = [prio EXCEPT ![h] = prio[t]] /\ listed' = [listed EXCEPT ![h] = prio[t]]
    ELSE UNCHANGED <<prio, listed>>

vTaskPriorityInherit(h, t) ==
    IF h /= None /\ prio[h] < prio[t]
    THEN prio' = [prio EXCEPT ![h] = prio[t]] /\ listed' = [listed EXCEPT ![h] = prio[t]]
    ELSE UNCHANGED <<prio, listed>>

\* vListInsert: behind all up to the first task that is listed with a lower
\* priority.
Inserted(q, t) ==
    LET n == Cardinality({i \in 1 .. Len(q) : \A j \in 1 .. i : listed[q[j]] >= listed[t]})
    IN SubSeq(q, 1, n) \o <<t>> \o SubSeq(q, n + 1, Len(q))

\* The rest of the loop, until the task is woken.
Block(t) ==
    /\ Running(t, "block") /\ ~expired[t]
    /\ LET m == want[t] IN
        /\ avail[m] = 0
        /\ vTaskPriorityInherit(holder[m], t)
        /\ waiting' = [waiting EXCEPT ![m] = Inserted(@, t)]
    /\ pc' = [pc EXCEPT ![t] = "try"]
    /\ ready' = ready \ {t}
    /\ Yield(TRUE)
    /\ UNCHANGED <<base, held, want, patience, expired, avail, holder, depth, history>>
-----------------------------------------------------------------------------
(* Giving *)

\* Mutant: the priority is returned with the first mutex.
xTaskPriorityDisinherit_any(t) ==
    /\ held' = [held EXCEPT ![t] = @ - 1]
    /\ prio' = [prio EXCEPT ![t] = base[t]] /\ listed' = [listed EXCEPT ![t] = base[t]]

\* Mutant: the count is looked at before the mutex is taken off it.
xTaskPriorityDisinherit_early(t) ==
    /\ held' = [held EXCEPT ![t] = @ - 1]
    /\ IF prio[t] /= base[t] /\ held[t] = 0
       THEN prio' = [prio EXCEPT ![t] = base[t]] /\ listed' = [listed EXCEPT ![t] = base[t]]
       ELSE UNCHANGED <<prio, listed>>

xTaskPriorityDisinherit(t) ==
    /\ held' = [held EXCEPT ![t] = @ - 1]
    /\ IF prio[t] /= base[t] /\ held[t] = 1
       THEN prio' = [prio EXCEPT ![t] = base[t]] /\ listed' = [listed EXCEPT ![t] = base[t]]
       ELSE UNCHANGED <<prio, listed>>

\* Mutant: nobody is woken.
xQueueGenericSend_silent(t, m) ==
    /\ avail' = [avail EXCEPT ![m] = @ + 1] /\ holder' = [holder EXCEPT ![m] = None]
    /\ xTaskPriorityDisinherit(t)
    /\ UNCHANGED <<base, ready, waiting, overlooked>>
    /\ Yield(prio' /= prio)

\* xQueueGenericSend of a mutex: a task that waits is woken.  If one does,
\* what xTaskPriorityDisinherit returns is not looked at.
xQueueGenericSend(t, m) ==
    /\ avail' = [avail EXCEPT ![m] = @ + 1] /\ holder' = [holder EXCEPT ![m] = None]
    /\ xTaskPriorityDisinherit(t)
    /\ IF waiting[m] = <<>>
       THEN UNCHANGED <<ready, waiting, overlooked>> /\ Yield(prio' /= prio)
       ELSE LET w == Head(waiting[m]) IN
            /\ waiting' = [waiting EXCEPT ![m] = Tail(@)]
            /\ ready' = ready \cup {w}
            /\ Yield(prio[w] > prio'[t])
            /\ overlooked' = (overlooked \/ (prio' /= prio /\ prio[w] <= prio'[t]))
    /\ UNCHANGED base

\* xSemaphoreGive of a mutex the task took.
Give(t, m) ==
    /\ Running(t, "app") /\ m \in Mutex \ Recursive /\ nest[t][m] > 0
    /\ xQueueGenericSend(t, m)
    /\ nest' = [nest EXCEPT ![t][m] = @ - 1]
    /\ UNCHANGED <<call, depth, sets, changed>>

\* Mutant: one take too few is counted.
GiveRecursive_early(t, m) ==
    /\ Running(t, "app") /\ m \in Recursive /\ holder[m] = t
    /\ depth' = [depth EXCEPT ![m] = @ - 1]
    /\ IF depth[m] <= 2 THEN xQueueGenericSend(t, m)
       ELSE UNCHANGED <<sched, priorities, avail, holder, waiting, overlooked>>
    /\ nest' = [nest EXCEPT ![t][m] = @ - 1]
    /\ UNCHANGED <<call, sets, changed>>

\* xQueueGiveMutexRecursive, which refuses unless the caller is the holder.
GiveRecursive(t, m) ==
    /\ Running(t, "app") /\ m \in Recursive /\ holder[m] = t
    /\ depth' = [depth EXCEPT ![m] = @ - 1]
    /\ IF depth[m] = 1 THEN xQueueGenericSend(t, m)
       ELSE UNCHANGED <<sched, priorities, avail, holder, waiting, overlooked>>
    /\ nest' = [nest EXCEPT ![t][m] = @ - 1]
    /\ UNCHANGED <<call, sets, changed>>
-----------------------------------------------------------------------------
\* vTaskPrioritySet: an inherited priority stays in force.
vTaskPrioritySet(t) ==
    /\ Running(t, "app") /\ sets < MaxSets
    /\ \E u \in Settable, p \in Priority :
        /\ p /= base[u]
        /\ prio' = IF base[u] = prio[u] THEN [prio EXCEPT ![u] = p] ELSE prio
        /\ base' = [base EXCEPT ![u] = p] /\ listed' = [listed EXCEPT ![u] = p]
        /\ UNCHANGED ready
        /\ Yield(IF p > base[u] THEN u /= t /\ p >= prio[t] ELSE u = t)
        /\ changed' = changed \cup {u}
    /\ sets' = sets + 1
    /\ UNCHANGED <<held, call, mutexes, nest, overlooked>>

Step(t) == Obtain(t) \/ Refused(t) \/ Wait(t) \/ Expire(t) \/ Again(t) \/ Block(t)

GiveBack(t, m) == Give(t, m) \/ GiveRecursive(t, m)

Next ==
    \/ TimeSlice
    \/ \E t \in Task :
        \/ Awake(t) \/ Sleep(t) \/ Take(t) \/ TakeAgain(t) \/ Step(t) \/ vTaskPrioritySet(t)
        \/ \E m \in Mutex : GiveBack(t, m)

Spec == Init /\ [][Next]_vars
-----------------------------------------------------------------------------
TypeOK ==
    /\ current \in ready /\ Idle \in ready /\ ready \subseteq Task
    /\ prio \in [Task -> Priority] /\ base \in [Task -> Priority] /\ listed \in [Task -> Priority]
    /\ held \in [Task -> Nat]
    /\ pc \in [Task -> {"app", "try", "block"}] /\ want \in [Task -> Mutex \cup {None}]
    /\ patience \in [Task -> {"none", "some", "forever"}] /\ expired \in [Task -> BOOLEAN]
    /\ avail \in [Mutex -> 0 .. 1] /\ holder \in [Mutex -> Task \cup {None}]
    /\ depth \in [Mutex -> Nat] /\ waiting \in [Mutex -> Seq(Task)]
    /\ sets \in Nat /\ nest \in [Task -> [Mutex -> Nat]]
    /\ changed \subseteq Task /\ overlooked \in BOOLEAN

\* Whatever preempts what, a task is told that it has a mutex only while
\* nobody else does, and has it until it gave it back as often as it took it.
Locks == INSTANCE LockTable
ImplementsLocks == Locks!Spec

\* No wake-up is lost: a mutex that is free is not waited for, unless
\* somebody is on the way to take it.
FreeIsTaken ==
    /\ TypeOK
    /\ \A m \in Mutex : avail[m] > 0 /\ waiting[m] /= <<>> =>
        \E t \in ready : want[t] = m /\ pc[t] /= "app"

\* A task that holds no mutex runs at the priority it was given, however many
\* mutexes it held, in whatever order it gave them back, and whether the
\* tasks it had its priority from got their turn or gave up.
BoostReturned == \A t \in Task : held[t] = 0 => prio[t] = base[t]

\* A mutex is never held at a lower priority than the one of a task that
\* waits for it, as long as nobody sets priorities, until a switch has been
\* overlooked: a task that runs on at its own low priority then can take a
\* mutex that a higher task has just been woken for and others still want.
HolderIsBoosted ==
    \A m \in Mutex, t \in Task :
        OnList(t, m) /\ holder[m] /= None /\ changed = {} /\ ~overlooked => prio[holder[m]] >= base[t]

\* Nothing of a lower priority runs while a task is ready, except once a give
\* has ended an inheritance and woken a task that did not have to run at once.
HighestRuns == overlooked \/ \A t \in ready : prio[t] <= prio[current]

\* What priority inheritance is for: while a task waits for a mutex that its
\* holder could give back, no task runs that has a lower priority of its own
\* and holds nothing, so the wait lasts as long as the mutexes are held and not
\* as long as tasks of a middle priority find something to do.
MiddleWaits ==
    \A m \in Mutex, t \in Task :
        OnList(t, m) /\ holder[m] \in ready /\ changed = {} /\ ~overlooked =>
            base[current] >= base[t] \/ held[current] > 0
=============================================================================
