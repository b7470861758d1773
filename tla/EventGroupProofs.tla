--------------------------- MODULE EventGroupProofs ---------------------------
(***************************************************************************)
(* Theorems about EventGroup, for every set of tasks, of bits and of       *)
(* waits.  The inductive invariant says of each task what its item is used *)
(* for in each place it can be, and of each bit with which a task comes to *)
(* the rendezvous that all who have not passed since have seen that task.  *)
(***************************************************************************)
EXTENDS EventGroup, TLAPS

Good(t) ==
    /\ pc[t] = "blocked" => item[t] = OfWait(wait[t]) /\ ~prvTestWaitCondition(bits, wait[t])
    /\ pc[t] \in {"woken", "reset"} =>
        /\ item[t].inUse
        /\ item[t].unblocked =>
            item[t].want = {} \/ (met[t] /\ prvTestWaitCondition(item[t].want, wait[t]))
    /\ pc[t] \in {"app", "late"} => ~item[t].inUse

Arrived == \A t, u \in Task : u \in bits => u \in since[t]

Inv == TypeOK /\ (\A t \in Task : Good(t)) /\ Arrived

-------------------------------------------------------------------------------
(* Operators *)

\* Fewer bits satisfy no wait that more bits do not.
LEMMA FewerBits ==
    ASSUME NEW b, NEW d, d \subseteq b, NEW w \in Wait, ~prvTestWaitCondition(b, w)
    PROVE  ~prvTestWaitCondition(d, w)
  BY DEF prvTestWaitCondition, Wait

\* The three uses of an item.
LEMMA ItemTypes ==
    /\ \A p \in Nat : OfPriority(p) \in Item /\ ~OfPriority(p).inUse /\ ~OfPriority(p).unblocked
    /\ \A w \in Wait : OfWait(w) \in Item /\ OfWait(w).inUse /\ ~OfWait(w).unblocked
    /\ \A b \in SUBSET Bit : /\ OfAnswer(b) \in Item /\ OfAnswer(b).inUse /\ OfAnswer(b).unblocked
                             /\ OfAnswer(b).want = b
  BY DEF OfPriority, OfWait, OfAnswer, Item, Wait

LEMMA WaitTypes == NoWait \in Wait /\ Rendez \in Wait /\ \A w \in Waits : w \in Wait
  BY EventAssumption DEF NoWait, Rendez, Wait, Bit

\* A listed item decides as the wait of its task would.
LEMMA ItemIsWait ==
    ASSUME Inv, NEW t \in Listed, NEW b
    PROVE  /\ t \in Task /\ pc[t] = "blocked"
           /\ prvTestWaitCondition(b, item[t]) <=> prvTestWaitCondition(b, wait[t])
           /\ wait[t] \in Wait
  BY DEF Inv, Good, TypeOK, Listed, prvTestWaitCondition, OfWait

\* A priority is a number, also one that a task has not loaded.
LEMMA Numbers ==
    ASSUME TypeOK, NEW t \in Task
    PROVE  prio[t] \in Nat /\ loaded[t] \in Nat
<1>1. \A p \in Priority \cup {0} : p \in Nat
  BY EventAssumption
<1>2. prio[t] \in Priority \cup {0} /\ loaded[t] \in Priority \cup {0}
  BY DEF TypeOK
<1> QED BY <1>1, <1>2, Zenon

-------------------------------------------------------------------------------
(* What a step does to one task *)

\* A task that a step leaves alone, when no bit is set.
LEMMA LeftAlone ==
    ASSUME Inv, NEW t \in Task, bits' \subseteq bits,
           pc'[t] = pc[t], item'[t] = item[t], wait'[t] = wait[t], met'[t] = met[t]
    PROVE  Good(t)'
<1>1. pc[t] = "blocked" => ~prvTestWaitCondition(bits', wait[t])
  BY FewerBits DEF Inv, Good, TypeOK
<1>2. pc[t] = "blocked" => OfWait(wait[t])' = OfWait(wait[t])
  BY DEF OfWait
<1>3. prvTestWaitCondition(bits, wait[t])' <=> prvTestWaitCondition(bits', wait[t])
  BY DEF prvTestWaitCondition
<1>4. prvTestWaitCondition(item[t].want, wait[t])' <=> prvTestWaitCondition(item[t].want, wait[t])
  BY DEF prvTestWaitCondition
<1> QED BY <1>1, <1>2, <1>3, <1>4 DEF Inv, Good

\* A task while the bits b are there: it is woken if it waits for some of
\* them, and goes on waiting if it does not.
LEMMA Looked ==
    ASSUME Inv, NEW b \in SUBSET Bit, bits' \subseteq b, NEW t \in Task, wait'[t] = wait[t],
           item'[t] = (IF t \in Matched(b) THEN OfAnswer(b) ELSE item[t]),
           pc'[t] = (IF t \in Matched(b) THEN "woken" ELSE pc[t]),
           met'[t] = Satisfied(b)[t]
    PROVE  Good(t)'
<1>1. CASE t \in Matched(b)
  <2>1. pc[t] = "blocked" /\ prvTestWaitCondition(b, wait[t])
    BY <1>1, ItemIsWait DEF Matched
  <2>2. met'[t]
    BY <2>1 DEF Satisfied, InCall
  <2>3. pc'[t] = "woken" /\ item'[t].inUse /\ item'[t].want = b
    BY <1>1, ItemTypes
  <2>4. prvTestWaitCondition(item[t].want, wait[t])'
    BY <2>1, <2>3 DEF prvTestWaitCondition
  <2> QED BY <2>2, <2>3, <2>4 DEF Good
<1>2. CASE t \notin Matched(b)
  <2>1. pc'[t] = pc[t] /\ item'[t] = item[t]
    BY <1>2
  <2>2. CASE pc[t] = "blocked"
    <3>1. t \in Listed
      BY <2>2 DEF Listed
    <3>2. ~prvTestWaitCondition(b, wait[t])
      BY <1>2, <3>1, ItemIsWait DEF Matched
    <3>3. ~prvTestWaitCondition(bits', wait[t])
      BY <3>1, <3>2, ItemIsWait, FewerBits
    <3>4. ~prvTestWaitCondition(bits, wait[t])' /\ OfWait(wait[t])' = OfWait(wait[t])
      BY <3>3 DEF prvTestWaitCondition, OfWait
    <3> QED BY <2>1, <2>2, <3>4 DEF Inv, Good
  <2>3. CASE pc[t] /= "blocked"
    <3>1. met[t] => met'[t]
      BY DEF Satisfied
    <3>2. prvTestWaitCondition(item[t].want, wait[t])' <=> prvTestWaitCondition(item[t].want, wait[t])
      BY <2>1 DEF prvTestWaitCondition
    <3> QED BY <2>1, <2>3, <3>1, <3>2 DEF Inv, Good
  <2> QED BY <2>2, <2>3
<1> QED BY <1>1, <1>2

-------------------------------------------------------------------------------
LEMMA InitInv == Init => Inv
<1> SUFFICES ASSUME Init PROVE Inv
    OBVIOUS
<1>1. TypeOK
  BY EventAssumption, ItemTypes, WaitTypes DEF Init, TypeOK
<1>2. \A t \in Task : Good(t)
  BY EventAssumption, ItemTypes DEF Init, Good
<1>3. Arrived
  BY DEF Init, Arrived
<1> QED BY <1>1, <1>2, <1>3 DEF Inv

-------------------------------------------------------------------------------
(* One lemma for each action *)

LEMMA ClearedBits == ASSUME TypeOK, NEW b \in SUBSET Bit PROVE b \ Cleared(b) \subseteq b
  OBVIOUS

LEMMA SetBitsInv ==
    ASSUME Inv, NEW t \in Task, NEW S \in SUBSET Event, xEventGroupSetBits(t, S)
    PROVE  Inv'
<1> DEFINE b == bits \cup S
<1>1. b \in SUBSET Bit /\ bits' = b \ Cleared(b)
  BY DEF Inv, TypeOK, Bit, xEventGroupSetBits
<1>2. Wake(Matched(b), b) /\ Ready(Matched(b)) /\ met' = Satisfied(b)
  BY DEF xEventGroupSetBits
<1>3. UNCHANGED <<wait, prio, loaded, since>>
  BY DEF xEventGroupSetBits
<1> HIDE DEF b
<1>4. TypeOK'
  BY <1>1, <1>2, <1>3, ItemTypes DEF Inv, TypeOK, Wake, Ready, Satisfied, InCall
<1>5. \A u \in Task : Good(u)'
  <2> SUFFICES ASSUME NEW u \in Task PROVE Good(u)'
      OBVIOUS
  <2> QED BY <1>1, <1>2, <1>3, Looked DEF Wake, Ready
<1>6. Arrived'
  BY <1>1, <1>3, EventAssumption DEF Inv, Arrived, b
<1> QED BY <1>4, <1>5, <1>6 DEF Inv

LEMMA ClearBitsInv ==
    ASSUME Inv, NEW t \in Task, NEW S \in SUBSET Bit, xEventGroupClearBits(t, S)
    PROVE  Inv'
<1>1. bits' \subseteq bits /\ UNCHANGED <<pc, wait, patience, item, prio, loaded, met, since>>
  BY DEF xEventGroupClearBits
<1>2. TypeOK' /\ Arrived'
  BY <1>1 DEF Inv, TypeOK, Arrived
<1> QED BY <1>1, <1>2, LeftAlone DEF Inv

LEMMA WaitMetInv == ASSUME Inv, NEW t \in Task, WaitMet(t) PROVE Inv'
<1>1. bits' \subseteq bits /\ UNCHANGED <<pc, wait, patience, item, prio, loaded, met, since>>
  BY DEF WaitMet
<1>2. TypeOK' /\ Arrived'
  BY <1>1 DEF Inv, TypeOK, Arrived
<1> QED BY <1>1, <1>2, LeftAlone DEF Inv

LEMMA WaitBlocksInv == ASSUME Inv, NEW t \in Task, WaitBlocks(t) PROVE Inv'
<1>1. PICK w \in Waits, p \in Patience :
        /\ ~prvTestWaitCondition(bits, w)
        /\ wait' = [wait EXCEPT ![t] = w] /\ patience' = [patience EXCEPT ![t] = p]
        /\ item' = [item EXCEPT ![t] = OfWait(w)]
  BY DEF WaitBlocks
<1>2. /\ pc' = [pc EXCEPT ![t] = "blocked"] /\ met' = [met EXCEPT ![t] = FALSE]
      /\ UNCHANGED <<bits, prio, loaded, since>>
  BY DEF WaitBlocks
<1>3. w \in Wait /\ OfWait(w) \in Item /\ p \in {"none", "some", "forever"}
  BY WaitTypes, ItemTypes, EventAssumption
<1>4. TypeOK' /\ Arrived'
  BY <1>1, <1>2, <1>3 DEF Inv, TypeOK, Arrived
<1>5. Good(t)'
  <2>1. wait'[t] = w /\ item'[t] = OfWait(w) /\ pc'[t] = "blocked"
    BY <1>1, <1>2 DEF Inv, TypeOK
  <2>2. OfWait(wait[t])' = OfWait(w) /\ ~prvTestWaitCondition(bits, wait[t])'
    BY <1>1, <1>2, <2>1 DEF OfWait, prvTestWaitCondition
  <2> QED BY <2>1, <2>2 DEF Good
<1>6. \A u \in Task \ {t} : Good(u)'
  BY <1>1, <1>2, LeftAlone DEF Inv, TypeOK
<1> QED BY <1>4, <1>5, <1>6 DEF Inv

LEMMA SyncLastInv == ASSUME Inv, NEW t \in Task, SyncLast(t) PROVE Inv'
<1> DEFINE b == bits \cup {t}
<1>1. b \in SUBSET Bit /\ bits' = (b \ Cleared(b)) \ Task
  BY DEF Inv, TypeOK, Bit, SyncLast
<1>2. Wake(Matched(b), b) /\ Ready(Matched(b)) /\ met' = Satisfied(b)
  BY DEF SyncLast
<1>3. UNCHANGED <<wait, prio, loaded>>
  BY DEF SyncLast
<1>4. since' \in [Task -> SUBSET Task]
  <2>1. since' = [u \in Task |-> IF u \in Passing(b) \cup {t} THEN {} ELSE since[u] \cup {t}]
    BY DEF SyncLast
  <2> HIDE DEF b
  <2> QED BY <2>1 DEF Inv, TypeOK
<1> HIDE DEF b
<1>5. TypeOK'
  BY <1>1, <1>2, <1>3, <1>4, ItemTypes DEF Inv, TypeOK, Wake, Ready, Satisfied, InCall
<1>6. \A u \in Task : Good(u)'
  <2> SUFFICES ASSUME NEW u \in Task PROVE Good(u)'
      OBVIOUS
  <2> QED BY <1>1, <1>2, <1>3, Looked DEF Wake, Ready
<1>7. Arrived'
  BY <1>1 DEF Arrived
<1> QED BY <1>5, <1>6, <1>7 DEF Inv

LEMMA SyncFirstInv == ASSUME Inv, NEW t \in Task, SyncFirst(t) PROVE Inv'
<1> DEFINE b == bits \cup {t}
<1>1. b \in SUBSET Bit /\ bits' = b \ Cleared(b) /\ ~(Task \subseteq b)
  BY DEF Inv, TypeOK, Bit, SyncFirst
<1>2. since' = [u \in Task |-> since[u] \cup {t}] /\ UNCHANGED <<prio, loaded>> /\ pc[t] = "app"
  BY DEF SyncFirst
<1>3. PICK p \in Patience :
        IF p = "none"
        THEN /\ Wake(Matched(b), b)
             /\ Ready(Matched(b))
             /\ met' = Satisfied(b)
             /\ UNCHANGED wait
        ELSE /\ wait' = [wait EXCEPT ![t] = Rendez]
             /\ patience' = [u \in Task |-> IF u = t THEN p
                                            ELSE IF u \in Matched(b) THEN "none" ELSE patience[u]]
             /\ item' = [u \in Task |-> IF u = t THEN OfWait(Rendez)
                                        ELSE IF u \in Matched(b) THEN OfAnswer(b) ELSE item[u]]
             /\ pc' = [u \in Task |-> IF u = t THEN "blocked"
                                      ELSE IF u \in Matched(b) THEN "woken" ELSE pc[u]]
             /\ met' = [Satisfied(b) EXCEPT ![t] = FALSE]
  BY DEF SyncFirst
<1>4. Arrived'
  BY <1>1, <1>2 DEF Inv, TypeOK, Arrived, b
<1>5. since' \in [Task -> SUBSET Task] /\ bits' \subseteq Bit /\ Satisfied(b) \in [Task -> BOOLEAN]
  BY <1>1, <1>2 DEF Inv, TypeOK, Satisfied, InCall, prvTestWaitCondition
<1> HIDE DEF b
<1>6. CASE p = "none"
  <2>1. TypeOK'
    BY <1>1, <1>2, <1>3, <1>5, <1>6, ItemTypes DEF Inv, TypeOK, Wake, Ready
  <2>2. \A u \in Task : Good(u)'
    <3> SUFFICES ASSUME NEW u \in Task PROVE Good(u)'
        OBVIOUS
    <3> QED BY <1>1, <1>3, <1>6, Looked DEF Wake, Ready
  <2> QED BY <1>4, <2>1, <2>2 DEF Inv
<1>7. CASE p /= "none"
  <2>1. p \in {"none", "some", "forever"} /\ OfWait(Rendez) \in Item
       /\ Rendez \in Wait /\ OfAnswer(b) \in Item
    BY <1>1, EventAssumption, WaitTypes, ItemTypes
  <2>2. TypeOK'
    <3>1. wait' \in [Task -> Wait] /\ met' \in [Task -> BOOLEAN]
      BY <1>3, <1>5, <1>7, <2>1 DEF Inv, TypeOK
    <3>2. item' \in [Task -> Item]
      BY <1>3, <1>7, <2>1 DEF Inv, TypeOK
    <3>3. patience' \in [Task -> {"none", "some", "forever"}]
      <4>1. \A u \in Task : patience[u] \in {"none", "some", "forever"}
        BY DEF Inv, TypeOK
      <4>2. patience' = [u \in Task |-> IF u = t THEN p
                                        ELSE IF u \in Matched(b) THEN "none" ELSE patience[u]]
        BY <1>3, <1>7
      <4> QED BY <2>1, <4>1, <4>2
    <3>4. pc' \in [Task -> {"app", "blocked", "woken", "reset", "late"}]
      <4>1. \A u \in Task : pc[u] \in {"app", "blocked", "woken", "reset", "late"}
        BY DEF Inv, TypeOK
      <4>2. pc' = [u \in Task |-> IF u = t THEN "blocked"
                                  ELSE IF u \in Matched(b) THEN "woken" ELSE pc[u]]
        BY <1>3, <1>7
      <4> QED BY <4>1, <4>2
    <3> QED BY <1>2, <1>5, <3>1, <3>2, <3>3, <3>4 DEF Inv, TypeOK
  <2>3. Good(t)'
    <3>1. wait'[t] = Rendez /\ item'[t] = OfWait(Rendez) /\ pc'[t] = "blocked"
      BY <1>3, <1>7 DEF Inv, TypeOK
    <3>2. OfWait(wait[t])' = OfWait(Rendez) /\ ~prvTestWaitCondition(bits, wait[t])'
      BY <1>1, <3>1 DEF OfWait, prvTestWaitCondition, Rendez
    <3> QED BY <3>1, <3>2 DEF Good
  <2>4. ASSUME NEW u \in Task \ {t} PROVE Good(u)'
    <3>1. /\ item'[u] = (IF u \in Matched(b) THEN OfAnswer(b) ELSE item[u])
          /\ pc'[u] = (IF u \in Matched(b) THEN "woken" ELSE pc[u])
      BY <1>3, <1>7
    <3>2. wait'[u] = wait[u] /\ met'[u] = Satisfied(b)[u]
      BY <1>3, <1>5, <1>7 DEF Inv, TypeOK
    <3> QED BY <1>1, <3>1, <3>2, Looked
  <2> QED BY <1>4, <2>2, <2>3, <2>4 DEF Inv
<1> QED BY <1>6, <1>7

LEMMA TimeOutInv == ASSUME Inv, NEW t \in Task, TimeOut(t) PROVE Inv'
<1>1. /\ pc[t] = "blocked" /\ pc' = [pc EXCEPT ![t] = "woken"]
      /\ patience' = [patience EXCEPT ![t] = "none"]
      /\ UNCHANGED <<bits, wait, item, prio, loaded, met, since>>
  BY DEF TimeOut
<1>2. TypeOK' /\ Arrived'
  BY <1>1 DEF Inv, TypeOK, Arrived
<1>3. Good(t)'
  <2>1. item[t] = OfWait(wait[t]) /\ wait[t] \in Wait
    BY <1>1 DEF Inv, Good, TypeOK
  <2> QED BY <1>1, <2>1, ItemTypes DEF Inv, TypeOK, Good
<1>4. \A u \in Task \ {t} : Good(u)'
  BY <1>1, LeftAlone DEF Inv, TypeOK
<1> QED BY <1>2, <1>3, <1>4 DEF Inv

LEMMA ResumeInv == ASSUME Inv, NEW t \in Task, Resume(t) PROVE Inv'
<1>1. /\ pc[t] = "woken" /\ pc' = [pc EXCEPT ![t] = "reset"]
      /\ loaded' = [loaded EXCEPT ![t] = prio[t]]
      /\ UNCHANGED <<bits, wait, patience, item, prio, met, since>>
  BY DEF Resume
<1>2. TypeOK' /\ Arrived'
  BY <1>1 DEF Inv, TypeOK, Arrived
<1>3. Good(t)'
  <2>1. prvTestWaitCondition(item[t].want, wait[t])' <=> prvTestWaitCondition(item[t].want, wait[t])
    BY <1>1 DEF prvTestWaitCondition
  <2> QED BY <1>1, <2>1 DEF Inv, TypeOK, Good
<1>4. \A u \in Task \ {t} : Good(u)'
  BY <1>1, LeftAlone DEF Inv, TypeOK
<1> QED BY <1>2, <1>3, <1>4 DEF Inv

LEMMA AnswerInv == ASSUME Inv, NEW t \in Task, Answer(t) PROVE Inv'
<1>1. /\ item' = [item EXCEPT ![t] = OfPriority(loaded[t])] /\ loaded' = [loaded EXCEPT ![t] = 0]
      /\ pc' = [pc EXCEPT ![t] = "app"] /\ wait' = [wait EXCEPT ![t] = NoWait]
      /\ met' = [met EXCEPT ![t] = FALSE] /\ UNCHANGED <<bits, patience, prio, since>>
  BY DEF Answer, Leave, uxTaskResetEventItemValue
<1>2. OfPriority(loaded[t]) \in Item /\ ~OfPriority(loaded[t]).inUse /\ NoWait \in Wait
  BY ItemTypes, Numbers, WaitTypes DEF Inv
<1>3. TypeOK' /\ Arrived'
  BY <1>1, <1>2 DEF Inv, TypeOK, Arrived
<1>4. Good(t)'
  BY <1>1, <1>2 DEF Inv, TypeOK, Good
<1>5. \A u \in Task \ {t} : Good(u)'
  BY <1>1, LeftAlone DEF Inv, TypeOK
<1> QED BY <1>3, <1>4, <1>5 DEF Inv

LEMMA MissedInv == ASSUME Inv, NEW t \in Task, Missed(t) PROVE Inv'
<1>1. /\ item' = [item EXCEPT ![t] = OfPriority(loaded[t])] /\ loaded' = [loaded EXCEPT ![t] = 0]
      /\ pc' = [pc EXCEPT ![t] = "late"] /\ UNCHANGED <<bits, wait, patience, prio, met, since>>
  BY DEF Missed, uxTaskResetEventItemValue
<1>2. OfPriority(loaded[t]) \in Item /\ ~OfPriority(loaded[t]).inUse
  BY ItemTypes, Numbers DEF Inv
<1>3. TypeOK' /\ Arrived'
  BY <1>1, <1>2 DEF Inv, TypeOK, Arrived
<1>4. Good(t)'
  BY <1>1, <1>2 DEF Inv, TypeOK, Good
<1>5. \A u \in Task \ {t} : Good(u)'
  BY <1>1, LeftAlone DEF Inv, TypeOK
<1> QED BY <1>3, <1>4, <1>5 DEF Inv

LEMMA LateInv == ASSUME Inv, NEW t \in Task, Late(t) PROVE Inv'
<1>1. /\ bits' \subseteq bits /\ pc[t] = "late" /\ pc' = [pc EXCEPT ![t] = "app"]
      /\ wait' = [wait EXCEPT ![t] = NoWait] /\ met' = [met EXCEPT ![t] = FALSE]
      /\ UNCHANGED <<item, patience, prio, loaded, since>>
  BY DEF Late, Leave
<1>2. TypeOK' /\ Arrived'
  BY <1>1, WaitTypes DEF Inv, TypeOK, Arrived
<1>3. Good(t)'
  BY <1>1 DEF Inv, TypeOK, Good
<1>4. \A u \in Task \ {t} : Good(u)'
  BY <1>1, LeftAlone DEF Inv, TypeOK
<1> QED BY <1>2, <1>3, <1>4 DEF Inv

LEMMA RenewInv == ASSUME Inv, NEW t \in Task, Renew(t) PROVE Inv'
<1>1. /\ bits' = {} /\ Ready(Listed)
      /\ item' = [u \in Task |-> IF u \in Listed THEN OfAnswer({}) ELSE item[u]]
      /\ UNCHANGED <<wait, prio, loaded, met, since>>
  BY DEF Renew
<1>2. OfAnswer({}) \in Item /\ OfAnswer({}).inUse /\ OfAnswer({}).want = {}
  BY ItemTypes
<1>3. TypeOK' /\ Arrived'
  BY <1>1, <1>2 DEF Inv, TypeOK, Arrived, Ready
<1>4. ASSUME NEW u \in Task PROVE Good(u)'
  <2>1. CASE u \in Listed
    BY <1>1, <1>2, <2>1 DEF Ready, Good
  <2>2. CASE u \notin Listed
    BY <1>1, <2>2, LeftAlone DEF Ready
  <2> QED BY <2>1, <2>2
<1> QED BY <1>3, <1>4 DEF Inv

LEMMA PrioritiseInv == ASSUME Inv, NEW t \in Task, Prioritise(t) PROVE Inv'
<1>1. PICK p \in Priority :
        /\ prio' = [prio EXCEPT ![t] = p]
        /\ item' = [item EXCEPT ![t] = IF item[t].inUse THEN item[t] ELSE OfPriority(p)]
  BY DEF Prioritise, vTaskPrioritySet
<1>2. UNCHANGED <<bits, pc, wait, patience, loaded, met, since>>
  BY DEF Prioritise
<1>3. OfPriority(p) \in Item /\ ~OfPriority(p).inUse
  BY EventAssumption, ItemTypes
<1>4. TypeOK' /\ Arrived'
  BY <1>1, <1>2, <1>3 DEF Inv, TypeOK, Arrived
<1>5. Good(t)'
  <2>1. CASE item[t].inUse
    <3>1. item'[t] = item[t]
      BY <1>1, <2>1 DEF Inv, TypeOK
    <3> QED BY <1>2, <3>1, LeftAlone
  <2>2. CASE ~item[t].inUse
    <3>1. pc[t] \in {"app", "late"}
      <4>1. pc[t] /= "blocked"
        BY <2>2, ItemTypes DEF Inv, Good, TypeOK
      <4> QED BY <2>2, <4>1 DEF Inv, Good, TypeOK
    <3>2. item'[t] = OfPriority(p)
      BY <1>1, <2>2 DEF Inv, TypeOK
    <3> QED BY <1>2, <1>3, <3>1, <3>2 DEF Good
  <2> QED BY <2>1, <2>2
<1>6. \A u \in Task \ {t} : Good(u)'
  BY <1>1, <1>2, LeftAlone DEF Inv, TypeOK
<1> QED BY <1>4, <1>5, <1>6 DEF Inv

LEMMA NextInv == Inv /\ [Next]_vars => Inv'
<1> SUFFICES ASSUME Inv, [Next]_vars PROVE Inv'
    OBVIOUS
<1>1. CASE UNCHANGED vars
  <2>1. bits' = bits /\ UNCHANGED <<pc, wait, patience, item, prio, loaded, met, since>>
    BY <1>1 DEF vars
  <2>2. TypeOK' /\ Arrived'
    BY <2>1 DEF Inv, TypeOK, Arrived
  <2> QED BY <2>1, <2>2, LeftAlone DEF Inv
<1>2. CASE Next
  <2>1. PICK t \in Task :
            \/ \E S \in SUBSET Event : xEventGroupSetBits(t, S)
            \/ \E S \in SUBSET Bit : xEventGroupClearBits(t, S)
            \/ WaitMet(t) \/ WaitBlocks(t) \/ SyncLast(t) \/ SyncFirst(t)
            \/ TimeOut(t) \/ Resume(t) \/ Answer(t) \/ Missed(t) \/ Late(t) \/ Renew(t) \/ Prioritise(t)
    BY <1>2 DEF Next
  <2> QED BY <2>1, SetBitsInv, ClearBitsInv, WaitMetInv, WaitBlocksInv, SyncLastInv, SyncFirstInv,
             TimeOutInv, ResumeInv, AnswerInv, MissedInv, LateInv, RenewInv, PrioritiseInv
<1> QED BY <1>1, <1>2

-------------------------------------------------------------------------------
(* Theorems *)

\* Event groups keep each item, each wait and each answer what it should be,
\* for any number of tasks and any bits.
THEOREM EventGroupInvariant == Spec => []Inv
  BY InitInv, NextInv, PTL DEF Spec

\* Nobody sleeps on bits that are there (xEventGroupSetBits looks at
\* everybody, and every other call clears or looks first).
THEOREM NobodyOverlooked == Spec => []NoneOverlooked
<1>1. Inv => NoneOverlooked
  BY DEF Inv, Good, NoneOverlooked, Listed
<1> QED BY <1>1, EventGroupInvariant, PTL

\* What a woken task is told satisfied its wait (the answer in its item is
\* what xEventGroupSetBits or xEventGroupSync found).
THEOREM AnswersTrue == Spec => []AnswersAreTrue
<1>1. Inv => AnswersAreTrue
  BY DEF Inv, Good, AnswersAreTrue
<1> QED BY <1>1, EventGroupInvariant, PTL

\* An item that holds a priority holds that of its task, but for what
\* uxTaskResetEventItemValue loaded before the priority was changed.
THEOREM ItemsFollow == Spec => ItemsFollowPriorities
<1> DEFINE Follows(t) ==
        pc'[t] \in {"app", "late"} /\ ~InStep(t)' =>
            \/ pc[t] = "reset" /\ loaded[t] /= prio[t]
            \/ pc[t] \in {"app", "late"} /\ ~InStep(t) /\ prio'[t] = prio[t]
<1>1. ASSUME Inv, Next, NEW t \in Task PROVE Follows(t)
  <2>1. PICK u \in Task :
            \/ \E S \in SUBSET Event : xEventGroupSetBits(u, S)
            \/ \E S \in SUBSET Bit : xEventGroupClearBits(u, S)
            \/ WaitMet(u) \/ WaitBlocks(u) \/ SyncLast(u) \/ SyncFirst(u)
            \/ TimeOut(u) \/ Resume(u) \/ Answer(u) \/ Missed(u) \/ Late(u) \/ Renew(u) \/ Prioritise(u)
    BY <1>1 DEF Next
  \* A task whose item and priority a step leaves alone.
  <2>2. ASSUME item'[t] = item[t], prio'[t] = prio[t], pc'[t] \in {"app", "late"} => pc[t] \in {"app", "late"}
        PROVE  Follows(t)
    <3>1. InStep(t)' <=> InStep(t)
      BY <2>2 DEF InStep, OfPriority
    <3> QED BY <2>2, <3>1
  \* A task that is woken, or goes on as it was.
  <2>3. ASSUME NEW M, item'[t] = item[t] \/ t \in M, t \in M => pc'[t] = "woken",
               t \notin M => pc'[t] = pc[t], prio'[t] = prio[t]
        PROVE  Follows(t)
    BY <2>2, <2>3
  <2>4. ASSUME NEW S \in SUBSET Event, xEventGroupSetBits(u, S) PROVE Follows(t)
    <3>1. PICK b : Wake(Matched(b), b) /\ Ready(Matched(b)) /\ UNCHANGED prio
      BY <2>4 DEF xEventGroupSetBits
    <3> QED BY <2>3, <3>1 DEF Wake, Ready
  <2>5. CASE (\E S \in SUBSET Bit : xEventGroupClearBits(u, S)) \/ WaitMet(u)
    <3>1. UNCHANGED <<pc, item, prio>>
      BY <2>5 DEF xEventGroupClearBits, WaitMet
    <3> QED BY <2>2, <3>1
  <2>6. CASE WaitBlocks(u)
    <3>1. /\ UNCHANGED prio /\ pc' = [pc EXCEPT ![u] = "blocked"]
          /\ \E w : item' = [item EXCEPT ![u] = OfWait(w)]
      BY <2>6 DEF WaitBlocks
    <3>2. CASE t = u
      BY <1>1, <3>1, <3>2 DEF Inv, TypeOK
    <3>3. CASE t /= u
      BY <1>1, <2>2, <3>1, <3>3 DEF Inv, TypeOK
    <3> QED BY <3>2, <3>3
  <2>7. CASE SyncLast(u)
    <3>1. PICK b : Wake(Matched(b), b) /\ Ready(Matched(b)) /\ UNCHANGED prio
      BY <2>7 DEF SyncLast
    <3> QED BY <2>3, <3>1 DEF Wake, Ready
  <2>8. CASE SyncFirst(u)
    <3> DEFINE b == bits \cup {u}
    <3>1. UNCHANGED prio
      BY <2>8 DEF SyncFirst
    <3>2. \/ Wake(Matched(b), b) /\ Ready(Matched(b))
          \/ /\ item' = [v \in Task |-> IF v = u THEN OfWait(Rendez)
                                        ELSE IF v \in Matched(b) THEN OfAnswer(b) ELSE item[v]]
             /\ pc' = [v \in Task |-> IF v = u THEN "blocked"
                                      ELSE IF v \in Matched(b) THEN "woken" ELSE pc[v]]
      BY <2>8 DEF SyncFirst
    <3> HIDE DEF b
    <3>3. CASE Wake(Matched(b), b) /\ Ready(Matched(b))
      BY <2>3, <3>1, <3>3 DEF Wake, Ready
    <3>4. CASE ~(Wake(Matched(b), b) /\ Ready(Matched(b))) /\ t = u
      BY <3>2, <3>4
    <3>5. CASE ~(Wake(Matched(b), b) /\ Ready(Matched(b))) /\ t /= u
      BY <2>3, <3>1, <3>2, <3>5
    <3> QED BY <3>3, <3>4, <3>5
  <2>9. CASE TimeOut(u) \/ Resume(u)
    <3>1. UNCHANGED <<item, prio>> /\ \E l \in {"woken", "reset"} : pc' = [pc EXCEPT ![u] = l]
      BY <2>9 DEF TimeOut, Resume
    <3> QED BY <1>1, <2>2, <3>1 DEF Inv, TypeOK
  <2>10. CASE Answer(u) \/ Missed(u)
    <3>1. /\ UNCHANGED prio /\ pc[u] = "reset" /\ item' = [item EXCEPT ![u] = OfPriority(loaded[u])]
          /\ \E l \in {"app", "late"} : pc' = [pc EXCEPT ![u] = l]
      BY <2>10 DEF Answer, Missed, Leave, uxTaskResetEventItemValue
    <3>2. CASE t = u
      <4>1. item'[t] = OfPriority(loaded[t]) /\ prio'[t] = prio[t]
        BY <1>1, <3>1, <3>2 DEF Inv, TypeOK
      <4>2. loaded[t] = prio[t] => InStep(t)'
        BY <4>1 DEF InStep, OfPriority
      <4> QED BY <3>1, <3>2, <4>2
    <3>3. CASE t /= u
      BY <1>1, <2>2, <3>1, <3>3 DEF Inv, TypeOK
    <3> QED BY <3>2, <3>3
  <2>11. CASE Late(u)
    <3>1. UNCHANGED <<item, prio>> /\ pc[u] = "late" /\ pc' = [pc EXCEPT ![u] = "app"]
      BY <2>11 DEF Late, Leave
    <3> QED BY <1>1, <2>2, <3>1 DEF Inv, TypeOK
  <2>12. CASE Renew(u)
    <3>1. /\ Ready(Listed) /\ UNCHANGED prio
          /\ item' = [v \in Task |-> IF v \in Listed THEN OfAnswer({}) ELSE item[v]]
      BY <2>12 DEF Renew
    <3> QED BY <2>3, <3>1 DEF Ready
  <2>13. CASE Prioritise(u)
    <3>1. PICK p \in Priority :
            /\ prio' = [prio EXCEPT ![u] = p] /\ UNCHANGED pc
            /\ item' = [item EXCEPT ![u] = IF item[u].inUse THEN item[u] ELSE OfPriority(p)]
      BY <2>13 DEF Prioritise, vTaskPrioritySet
    <3>2. CASE t = u
      <4>1. SUFFICES ASSUME pc[t] \in {"app", "late"} PROVE InStep(t)'
        BY <3>1
      <4>2. ~item[t].inUse
        BY <1>1, <4>1 DEF Inv, Good
      <4>3. item'[t] = OfPriority(p) /\ prio'[t] = p
        BY <1>1, <3>1, <3>2, <4>2 DEF Inv, TypeOK
      <4> QED BY <4>3 DEF InStep, OfPriority
    <3>3. CASE t /= u
      BY <1>1, <2>2, <3>1, <3>3 DEF Inv, TypeOK
    <3> QED BY <3>2, <3>3
  <2> QED BY <2>1, <2>4, <2>5, <2>6, <2>7, <2>8, <2>9, <2>10, <2>11, <2>12, <2>13
<1>2. Inv /\ [Next]_vars => [\A t \in Task : Follows(t)]_vars
  BY <1>1
<1> QED BY <1>2, EventGroupInvariant, PTL DEF Spec, ItemsFollowPriorities

\* xEventGroupSync is a rendezvous: whoever it lets pass has met everybody.
THEOREM SyncIsRendezvous == Spec => ImplementsRendezvous
<1>1. Init => Meeting!Init
  BY DEF Init, Meeting!Init
<1>2. ASSUME Inv, [Next]_vars PROVE [Meeting!Next]_since
  <2>1. ASSUME NEW t \in Task, SyncLast(t) PROVE Meeting!Next
    <3> DEFINE b == bits \cup {t}
               P == Passing(b) \cup {t}
    <3>1. Task \subseteq b /\ since' = [u \in Task |-> IF u \in P THEN {} ELSE since[u] \cup {t}]
      BY <2>1 DEF SyncLast
    <3>2. \A u \in Task : since[u] \cup {t} = Task
      BY <1>2, <2>1, <3>1 DEF Inv, TypeOK, Arrived
    <3>3. P \subseteq Task
      BY DEF Passing, Matched, Listed
    <3> HIDE DEF P, b
    <3>4. Meeting!Arrive(t, P)
      BY <3>1, <3>2, <3>3 DEF Meeting!Arrive
    <3> QED BY <3>3, <3>4 DEF Meeting!Next
  <2>2. ASSUME NEW t \in Task, SyncFirst(t) PROVE Meeting!Next
    <3>1. since' = [u \in Task |-> IF u \in {} THEN {} ELSE since[u] \cup {t}]
      BY <2>2 DEF SyncFirst
    <3>2. Meeting!Arrive(t, {})
      BY <3>1 DEF Meeting!Arrive
    <3> QED BY <3>2 DEF Meeting!Next
  <2>3. CASE ~\E t \in Task : SyncLast(t) \/ SyncFirst(t)
    BY <1>2, <2>3 DEF Next, vars, xEventGroupSetBits, xEventGroupClearBits, WaitMet, WaitBlocks,
        TimeOut, Resume, Answer, Missed, Late, Leave, Renew, Prioritise
  <2> QED BY <2>1, <2>2, <2>3
<1> QED BY <1>1, <1>2, EventGroupInvariant, PTL DEF Spec, ImplementsRendezvous, Meeting!Spec
===============================================================================
