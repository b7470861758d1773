------------------------------ MODULE EventGroup ------------------------------
(***************************************************************************)
(* Event groups: freertos/Source/event_groups.c, with what it uses of      *)
(* tasks.c.  A task that blocks keeps what it waits for in its event list  *)
(* item, which otherwise holds its priority, and finds the answer there.   *)
(*                                                                         *)
(* A step is a critical section or what is done with the scheduler         *)
(* suspended: other tasks do not run meanwhile, and a tick is made up for  *)
(* at the end.  Any task that is ready may run, which covers every         *)
(* assignment of priorities.  A task's pc:                                 *)
(*   app        not in a call                                              *)
(*   blocked    in xTasksWaitingForBits                                    *)
(*   woken      ready, before uxTaskResetEventItemValue                    *)
(*   reset      in it, which nothing protects from a change of priority    *)
(*   late       timed out, before the critical section at the end          *)
(***************************************************************************)
EXTENDS FiniteSets, Naturals

CONSTANTS
    Task,
    Event,          \* bits any task may set
    Waits,          \* the waits of xEventGroupWaitBits: see Wait
    Patience,       \* the block times: of none, some, forever
    Priority,       \* the priorities a task may be given
    FirstPriority,  \* the priority each task is created with
    Settable        \* the tasks whose priority is changed

\* A task comes to the rendezvous with a bit of its own; they are all waited for.
Bit == Task \cup Event
Wait == [want: SUBSET Bit, all: BOOLEAN, clear: BOOLEAN]
Rendez == [want |-> Task, all |-> TRUE, clear |-> TRUE]

ASSUME EventAssumption ==
    /\ Task \cap Event = {} /\ Task /= {}
    /\ Waits \subseteq Wait /\ \A w \in Waits : w.want /= {}
    /\ Patience \subseteq {"none", "some", "forever"}
    /\ Priority \subseteq Nat /\ FirstPriority \in [Task -> Priority] /\ Settable \subseteq Task

VARIABLES
    bits,           \* uxEventBits
    pc, wait,       \* the call a task is in, and what it waits for
    patience,       \* which list it is in: ready, until a time, or for ever
    item,           \* the value of its xEventListItem
    prio,           \* uxPriority
    loaded,         \* the priority uxTaskResetEventItemValue has loaded, 0 outside it
    met,            \* history: the wait has been satisfied since the call began
    since           \* history: see Rendezvous

vars == <<bits, pc, wait, patience, item, prio, loaded, met, since>>

\* The two uses of an item: a priority, or the wait or the answer of a task.
Item == [inUse: BOOLEAN, prio: Nat, want: SUBSET Bit, all: BOOLEAN, clear: BOOLEAN, unblocked: BOOLEAN]
OfPriority(p) == [inUse |-> FALSE, prio |-> p, want |-> {}, all |-> FALSE, clear |-> FALSE, unblocked |-> FALSE]
OfWait(w) == [inUse |-> TRUE, prio |-> 0, want |-> w.want, all |-> w.all, clear |-> w.clear, unblocked |-> FALSE]
OfAnswer(b) == [inUse |-> TRUE, prio |-> 0, want |-> b, all |-> FALSE, clear |-> FALSE, unblocked |-> TRUE]

NoWait == [want |-> {}, all |-> FALSE, clear |-> FALSE]

Init ==
    /\ bits = {}
    /\ pc = [t \in Task |-> "app"] /\ wait = [t \in Task |-> NoWait]
    /\ patience = [t \in Task |-> "none"]
    /\ prio = FirstPriority /\ loaded = [t \in Task |-> 0]
    /\ item = [t \in Task |-> OfPriority(FirstPriority[t])]
    /\ met = [t \in Task |-> FALSE] /\ since = [t \in Task |-> {}]

-------------------------------------------------------------------------------
prvTestWaitCondition(b, w) == IF w.all THEN w.want \subseteq b ELSE w.want \cap b /= {}

InCall(t) == pc[t] /= "app"
Listed == {t \in Task : pc[t] = "blocked"}

\* xEventGroupSetBits: what an item in the list says decides who is woken,
\* and what is cleared when all have been looked at.
Matched(b) == {t \in Listed : prvTestWaitCondition(b, item[t])}
Cleared(b) == UNION {item[t].want : t \in {u \in Matched(b) : item[u].clear}}

\* Mutant: the answer is what is left of the bits.
Wake_cleared(M, b) ==
    item' = [t \in Task |-> IF t \in M THEN OfAnswer(b \ Cleared(b)) ELSE item[t]]

\* xTaskRemoveFromUnorderedEventList: the tasks of M find the bits b ...
Wake(M, b) ==
    item' = [t \in Task |-> IF t \in M THEN OfAnswer(b) ELSE item[t]]

\* ... and are ready.
Ready(M) ==
    /\ pc' = [t \in Task |-> IF t \in M THEN "woken" ELSE pc[t]]
    /\ patience' = [t \in Task |-> IF t \in M THEN "none" ELSE patience[t]]

Satisfied(b) == [t \in Task |-> met[t] \/ (InCall(t) /\ prvTestWaitCondition(b, wait[t]))]

xEventGroupSetBits(t, S) ==
    /\ pc[t] = "app"
    /\ LET b == bits \cup S IN
        /\ bits' = b \ Cleared(b)
        /\ Wake(Matched(b), b)
        /\ Ready(Matched(b))
        /\ met' = Satisfied(b)
    /\ UNCHANGED <<wait, prio, loaded, since>>

xEventGroupClearBits(t, S) ==
    /\ pc[t] = "app"
    /\ bits' = bits \ S
    /\ UNCHANGED <<pc, wait, patience, item, prio, loaded, met, since>>

\* xEventGroupWaitBits when its wait is satisfied, ...
WaitMet(t) ==
    /\ pc[t] = "app"
    /\ \E w \in Waits :
        /\ prvTestWaitCondition(bits, w)
        /\ bits' = IF w.clear THEN bits \ w.want ELSE bits
    /\ UNCHANGED <<pc, wait, patience, item, prio, loaded, met, since>>

\* ... and when it is not: without a block time nothing happens.
WaitBlocks(t) ==
    /\ pc[t] = "app"
    /\ \E w \in Waits, p \in Patience \ {"none"} :
        /\ ~prvTestWaitCondition(bits, w)
        /\ wait' = [wait EXCEPT ![t] = w]
        /\ patience' = [patience EXCEPT ![t] = p]
        /\ item' = [item EXCEPT ![t] = OfWait(w)]
    /\ pc' = [pc EXCEPT ![t] = "blocked"]
    /\ met' = [met EXCEPT ![t] = FALSE]
    /\ UNCHANGED <<bits, prio, loaded, since>>

\* The tasks of the rendezvous among those that are woken.
Passing(b) == {t \in Matched(b) : wait[t] = Rendez}

\* Mutant: the bits of the rendezvous are left to those who waited for it.
SyncLast_kept(t) ==
    /\ pc[t] = "app"
    /\ LET b == bits \cup {t} IN
        /\ Task \subseteq b
        /\ bits' = b \ Cleared(b)
        /\ Wake(Matched(b), b)
        /\ Ready(Matched(b))
        /\ met' = Satisfied(b)
        /\ since' = [u \in Task |-> IF u \in Passing(b) \cup {t} THEN {} ELSE since[u] \cup {t}]
    /\ UNCHANGED <<wait, prio, loaded>>

\* xEventGroupSync by the last task to come, ...
SyncLast(t) ==
    /\ pc[t] = "app"
    /\ LET b == bits \cup {t} IN
        /\ Task \subseteq b
        /\ bits' = (b \ Cleared(b)) \ Task
        /\ Wake(Matched(b), b)
        /\ Ready(Matched(b))
        /\ met' = Satisfied(b)
        /\ since' = [u \in Task |-> IF u \in Passing(b) \cup {t} THEN {} ELSE since[u] \cup {t}]
    /\ UNCHANGED <<wait, prio, loaded>>

\* Mutant: the bit is set and nobody is looked for who waits for it.
SyncFirst_quiet(t) ==
    /\ pc[t] = "app" /\ ~(Task \subseteq bits \cup {t})
    /\ bits' = bits \cup {t}
    /\ since' = [u \in Task |-> since[u] \cup {t}]
    /\ UNCHANGED <<pc, wait, patience, item, prio, loaded, met>>

\* ... and by another one, which waits if it has a block time.
SyncFirst(t) ==
    /\ pc[t] = "app"
    /\ LET b == bits \cup {t} IN
        /\ ~(Task \subseteq b)
        /\ bits' = b \ Cleared(b)
        /\ \E p \in Patience :
            IF p = "none"
            THEN /\ Wake(Matched(b), b)
                 /\ Ready(Matched(b))
                 /\ met' = Satisfied(b)
                 /\ UNCHANGED wait
            ELSE /\ wait' = [wait EXCEPT ![t] = Rendez]
                 /\ patience' = [u \in Task |-> IF u = t THEN p
                                                ELSE IF u \in Matched(b) THEN "none" ELSE patience[u]]
                 /\ item' = [u \in Task |-> IF u = t THEN OfWait(Rendez)
                                            ELSE IF u \in Matched(b) THEN OfAnswer(b) ELSE item[u]]
                 /\ pc' = [u \in Task |-> IF u = t THEN "blocked"
                                          ELSE IF u \in Matched(b) THEN "woken" ELSE pc[u]]
                 /\ met' = [Satisfied(b) EXCEPT ![t] = FALSE]
        /\ since' = [u \in Task |-> since[u] \cup {t}]
    /\ UNCHANGED <<prio, loaded>>

\* A tick: the block time is over.
TimeOut(t) ==
    /\ pc[t] = "blocked" /\ patience[t] = "some"
    /\ pc' = [pc EXCEPT ![t] = "woken"]
    /\ patience' = [patience EXCEPT ![t] = "none"]
    /\ UNCHANGED <<bits, wait, item, prio, loaded, met, since>>

Leave(t) ==
    /\ pc' = [pc EXCEPT ![t] = "app"] /\ wait' = [wait EXCEPT ![t] = NoWait]
    /\ met' = [met EXCEPT ![t] = FALSE]
    /\ UNCHANGED patience

\* Mutant: an item that brought an answer is left as it is.
uxTaskResetEventItemValue_kept(t) ==
    item' = [item EXCEPT ![t] = IF @.unblocked THEN @ ELSE OfPriority(loaded[t])]

uxTaskResetEventItemValue(t) == item' = [item EXCEPT ![t] = OfPriority(loaded[t])]

\* The task runs again: it loads its priority, ...
Resume(t) ==
    /\ pc[t] = "woken"
    /\ loaded' = [loaded EXCEPT ![t] = prio[t]]
    /\ pc' = [pc EXCEPT ![t] = "reset"]
    /\ UNCHANGED <<bits, wait, patience, item, prio, met, since>>

\* ... and stores it in its item, which brought it the bits ...
Answer(t) ==
    /\ pc[t] = "reset" /\ item[t].unblocked
    /\ uxTaskResetEventItemValue(t)
    /\ loaded' = [loaded EXCEPT ![t] = 0]
    /\ Leave(t)
    /\ UNCHANGED <<bits, prio, since>>

\* ... or did not: it timed out.
Missed(t) ==
    /\ pc[t] = "reset" /\ ~item[t].unblocked
    /\ uxTaskResetEventItemValue(t)
    /\ loaded' = [loaded EXCEPT ![t] = 0]
    /\ pc' = [pc EXCEPT ![t] = "late"]
    /\ UNCHANGED <<bits, wait, patience, prio, met, since>>

\* The bits may have been set since it was woken: then they are cleared as if
\* it had been in time.
Late(t) ==
    /\ pc[t] = "late"
    /\ bits' = IF prvTestWaitCondition(bits, wait[t]) /\ wait[t].clear
               THEN bits \ wait[t].want ELSE bits
    /\ Leave(t)
    /\ UNCHANGED <<item, prio, loaded, since>>

\* vEventGroupDelete and xEventGroupCreate, as long as nobody is about to
\* look at the bits of the old group.
Renew(t) ==
    /\ pc[t] = "app"
    /\ \A u \in Task : pc[u] /= "late" /\ (pc[u] \in {"woken", "reset"} => item[u].unblocked)
    /\ bits' = {}
    /\ item' = [u \in Task |-> IF u \in Listed THEN OfAnswer({}) ELSE item[u]]
    /\ Ready(Listed)
    /\ UNCHANGED <<wait, prio, loaded, met, since>>

\* vTaskPrioritySet and vTaskPriorityInherit leave an item alone that is in use.
vTaskPrioritySet(t, p) == item' = [item EXCEPT ![t] = IF @.inUse THEN @ ELSE OfPriority(p)]

Prioritise(t) ==
    /\ t \in Settable
    /\ \E p \in Priority \ {prio[t]} :
        /\ prio' = [prio EXCEPT ![t] = p]
        /\ vTaskPrioritySet(t, p)
    /\ UNCHANGED <<bits, pc, wait, patience, loaded, met, since>>

Next ==
    \E t \in Task :
        \/ \E S \in SUBSET Event : xEventGroupSetBits(t, S)
        \/ \E S \in SUBSET Bit : xEventGroupClearBits(t, S)
        \/ WaitMet(t) \/ WaitBlocks(t) \/ SyncLast(t) \/ SyncFirst(t)
        \/ TimeOut(t) \/ Resume(t) \/ Answer(t) \/ Missed(t) \/ Late(t) \/ Renew(t) \/ Prioritise(t)

Spec == Init /\ [][Next]_vars
-------------------------------------------------------------------------------
TypeOK ==
    /\ bits \subseteq Bit
    /\ pc \in [Task -> {"app", "blocked", "woken", "reset", "late"}]
    /\ wait \in [Task -> Wait] /\ patience \in [Task -> {"none", "some", "forever"}]
    /\ item \in [Task -> Item] /\ prio \in [Task -> Priority] /\ loaded \in [Task -> Priority \cup {0}]
    /\ met \in [Task -> BOOLEAN] /\ since \in [Task -> SUBSET Task]

\* No task waits for bits that are there, whoever set and cleared what, and
\* whatever priorities were changed meanwhile.
NoneOverlooked == \A t \in Listed : ~prvTestWaitCondition(bits, wait[t])

\* A task that is told of bits gets the ones that satisfied its wait, or none
\* because the group was deleted.
AnswersAreTrue ==
    \A t \in Task : pc[t] \in {"woken", "reset"} /\ item[t].unblocked =>
        \/ item[t].want = {}
        \/ met[t] /\ prvTestWaitCondition(item[t].want, wait[t])

\* While the item of a task holds no bits it stands for the priority of the
\* task.  It falls behind only if the priority is changed while
\* uxTaskResetEventItemValue is between its load and its store, and not for
\* longer than until the priority is changed again.
InStep(t) == item[t] = OfPriority(prio[t])
ItemsFollowPriorities ==
    [][\A t \in Task :
        pc'[t] \in {"app", "late"} /\ ~InStep(t)' =>
            \/ pc[t] = "reset" /\ loaded[t] /= prio[t]
            \/ pc[t] \in {"app", "late"} /\ ~InStep(t) /\ prio'[t] = prio[t]]_vars

\* A task that xEventGroupSync tells of all bits has met all others.
Meeting == INSTANCE Rendezvous
ImplementsRendezvous == Meeting!Spec
===============================================================================
