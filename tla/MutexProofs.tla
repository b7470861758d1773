----------------------------- MODULE MutexProofs -----------------------------
(***************************************************************************)
(* Theorems about Mutex, for every set of tasks and of mutexes.  The       *)
(* inductive invariant ties the fields of a mutex to what its takers have  *)
(* been told, the count in a task to the mutexes that name it as their     *)
(* holder, and a waiting list to where the listed tasks are.               *)
(***************************************************************************)
EXTENDS Mutex, FiniteSetTheorems, TLAPS

\* A task that is in a call of xSemaphoreTake waits for a mutex.
InCall == \A t \in Task : pc[t] /= "app" => want[t] \in Mutex

HeldBy(t) == {m \in Mutex : holder[m] = t}

Ownership ==
    \A m \in Mutex :
        /\ avail[m] = 1 <=> holder[m] = None
        /\ \A t \in Task : nest[t][m] > 0 <=> holder[m] = t
        /\ m \notin Recursive => \A t \in Task : nest[t][m] <= 1
        /\ m \in Recursive => IF holder[m] = None THEN depth[m] = 0
                              ELSE depth[m] = nest[holder[m]][m]

Counts == \A t \in Task : held[t] = Cardinality(HeldBy(t))

\* A listed task is off the ready lists, on its way to try again, and listed
\* once.
Lists ==
    \A m \in Mutex : \A i \in DOMAIN waiting[m] :
        /\ pc[waiting[m][i]] = "try" /\ want[waiting[m][i]] = m /\ waiting[m][i] \notin ready
        /\ \A j \in DOMAIN waiting[m] : waiting[m][i] = waiting[m][j] => i = j

\* A free mutex that somebody waits for has been given to a task that has not
\* looked yet.
Claims ==
    \A m \in Mutex : avail[m] > 0 /\ waiting[m] /= <<>> =>
        \E t \in ready : want[t] = m /\ pc[t] = "try"

\* Priorities are only ever raised above the ones the tasks were given, and a
\* task's list item follows.
Raised == changed = {} => listed = prio /\ \A t \in Task : prio[t] >= base[t]

\* A list item keeps its place when its task inherits, so a list need not be
\* sorted by the priorities; but nobody is behind a task that is lower than his
\* own.
Ordered ==
    changed = {} =>
        \A m \in Mutex : \A i, j \in DOMAIN waiting[m] :
            i < j => prio[waiting[m][i]] >= base[waiting[m][j]]

\* The task on its way to a free mutex is as high as all that wait for it.
Promised ==
    changed = {} =>
        \A m \in Mutex : avail[m] > 0 /\ waiting[m] /= <<>> =>
            \E t \in ready :
                /\ want[t] = m /\ pc[t] = "try"
                /\ \A i \in DOMAIN waiting[m] : prio[t] >= base[waiting[m][i]]

Inv == /\ TypeOK /\ InCall /\ Ownership /\ Counts /\ Lists /\ Claims /\ BoostReturned /\ HighestRuns
       /\ Raised /\ Ordered /\ Promised /\ HolderIsBoosted

-----------------------------------------------------------------------------
(* The waiting lists *)

LEMMA JoinedWhere ==
    ASSUME NEW a \in Seq(Task), NEW b \in Seq(Task)
    PROVE  /\ a \o b \in Seq(Task) /\ DOMAIN (a \o b) = 1 .. Len(a) + Len(b)
           /\ Len(a) \in Nat /\ Len(b) \in Nat
           /\ \A i \in 1 .. Len(a) + Len(b) :
                (a \o b)[i] = IF i <= Len(a) THEN a[i] ELSE b[i - Len(a)]
  OBVIOUS

LEMMA SplicedWhere ==
    ASSUME NEW a \in Seq(Task), NEW t \in Task, NEW b \in Seq(Task)
    PROVE  /\ a \o <<t>> \o b \in Seq(Task)
           /\ DOMAIN (a \o <<t>> \o b) = 1 .. Len(a) + 1 + Len(b)
           /\ \A i \in 1 .. Len(a) + 1 + Len(b) :
                (a \o <<t>> \o b)[i] = IF i <= Len(a) THEN a[i]
                                      ELSE IF i = Len(a) + 1 THEN t ELSE b[i - Len(a) - 1]
<1>1. <<t>> \in Seq(Task) /\ Len(<<t>>) = 1 /\ <<t>>[1] = t
  OBVIOUS
<1>2. /\ a \o <<t>> \in Seq(Task) /\ Len(a \o <<t>>) = Len(a) + 1
      /\ \A i \in 1 .. Len(a) + 1 : (a \o <<t>>)[i] = IF i <= Len(a) THEN a[i] ELSE t
  BY <1>1
<1> QED BY <1>2, JoinedWhere

\* vListInsert puts the task behind all up to the first that is listed lower,
\* and keeps the others in their order.
LEMMA InsertedWhere ==
    ASSUME NEW q \in Seq(Task), NEW t \in Task
    PROVE  /\ Inserted(q, t) \in Seq(Task)
           /\ \E n \in 0 .. Len(q) :
                /\ DOMAIN Inserted(q, t) = 1 .. Len(q) + 1
                /\ \A i \in 1 .. Len(q) + 1 :
                    Inserted(q, t)[i] = IF i <= n THEN q[i] ELSE IF i = n + 1 THEN t ELSE q[i - 1]
                /\ \A i \in 1 .. n : listed[q[i]] >= listed[t]
                /\ n < Len(q) => ~(listed[q[n + 1]] >= listed[t])
<1> DEFINE S == {i \in 1 .. Len(q) : \A j \in 1 .. i : listed[q[j]] >= listed[t]}
           n == Cardinality(S)
<1>1. n \in 0 .. Len(q)
  <2>1. IsFiniteSet(1 .. Len(q)) /\ Cardinality(1 .. Len(q)) = Len(q)
    <3>1. 1 \in Int /\ Len(q) \in Nat
      OBVIOUS
    <3> QED BY <3>1, FS_Interval, SMTT(30)
  <2>2. S \in SUBSET (1 .. Len(q))
    OBVIOUS
  <2>3. IsFiniteSet(S) /\ n <= Len(q)
    BY <2>1, <2>2, FS_Subset
  <2> QED BY <2>3, FS_CardinalityType
<1>2. Inserted(q, t) = SubSeq(q, 1, n) \o <<t>> \o SubSeq(q, n + 1, Len(q))
  BY DEF Inserted
<1>12. S = 1 .. n
  <2>1. IsFiniteSet(S)
    <3>1. IsFiniteSet(1 .. Len(q))
      <4>1. 1 \in Int /\ Len(q) \in Nat
        OBVIOUS
      <4> QED BY <4>1, FS_Interval
    <3> QED BY <3>1, FS_Subset
  <2>2. ASSUME NEW k \in S
        PROVE  k <= n
    <3>1. 1 .. k \in SUBSET S /\ k \in Nat /\ k > 0
      OBVIOUS
    <3>2. Cardinality(1 .. k) = k
      BY <3>1, FS_Interval
    <3> HIDE DEF S
    <3>3. Cardinality(1 .. k) <= Cardinality(S)
      BY <2>1, <3>1, FS_Subset
    <3> QED BY <3>2, <3>3
  <2>3. S \in SUBSET (1 .. n)
    BY <2>2
  <2>4. IsFiniteSet(1 .. n) /\ Cardinality(1 .. n) = n
    <3> HIDE DEF n
    <3>1. n \in Int /\ 1 \in Int /\ n >= 0
      BY <1>1
    <3> QED BY <3>1, FS_Interval
  <2> HIDE DEF S
  <2> QED BY <2>3, <2>4, FS_Subset
<1>13. (\A i \in 1 .. n : listed[q[i]] >= listed[t]) /\ (n < Len(q) => ~(listed[q[n + 1]] >= listed[t]))
  <2> HIDE DEF n
  <2>1. \A i \in 1 .. n : listed[q[i]] >= listed[t]
    BY <1>12, <1>1
  <2>2. n < Len(q) => n + 1 \notin S /\ n + 1 \in 1 .. Len(q)
    <3> HIDE DEF S
    <3> QED BY <1>12, <1>1
  <2> QED BY <1>1, <2>1, <2>2
<1> HIDE DEF n
<1> DEFINE a == SubSeq(q, 1, n)
           b == SubSeq(q, n + 1, Len(q))
<1>3. a \in Seq(Task) /\ Len(a) = n /\ \A i \in 1 .. n : a[i] = q[i]
  BY <1>1
<1>4. b \in Seq(Task) /\ Len(b) = Len(q) - n /\ \A i \in 1 .. Len(q) - n : b[i] = q[n + i]
  BY <1>1
<1>5. \A i \in n + 2 .. Len(q) + 1 : b[i - n - 1] = q[i - 1]
  <2> SUFFICES ASSUME NEW i \in n + 2 .. Len(q) + 1 PROVE b[i - n - 1] = q[i - 1]
    OBVIOUS
  <2>1. i - n - 1 \in 1 .. Len(q) - n /\ n + (i - n - 1) = i - 1
    BY <1>1
  <2> QED BY <1>4, <2>1
<1>6. Inserted(q, t) = a \o <<t>> \o b
  BY <1>2
<1> HIDE DEF a, b
<1>7. /\ Inserted(q, t) \in Seq(Task)
      /\ DOMAIN Inserted(q, t) = 1 .. Len(a) + 1 + Len(b)
      /\ \A i \in 1 .. Len(a) + 1 + Len(b) :
            Inserted(q, t)[i] = IF i <= Len(a) THEN a[i]
                                ELSE IF i = Len(a) + 1 THEN t ELSE b[i - Len(a) - 1]
  <2>1. a \in Seq(Task) /\ b \in Seq(Task)
    BY <1>3, <1>4
  <2>2. /\ a \o <<t>> \o b \in Seq(Task)
        /\ DOMAIN (a \o <<t>> \o b) = 1 .. Len(a) + 1 + Len(b)
        /\ \A i \in 1 .. Len(a) + 1 + Len(b) :
             (a \o <<t>> \o b)[i] = IF i <= Len(a) THEN a[i]
                                   ELSE IF i = Len(a) + 1 THEN t ELSE b[i - Len(a) - 1]
    BY <2>1, SplicedWhere, ZenonT(30)
  <2> QED BY <1>6, <2>2, Zenon
<1>8. n + 1 + (Len(q) - n) = Len(q) + 1
  BY <1>1
<1>9. \A i \in 1 .. Len(q) + 1 :
        Inserted(q, t)[i] = IF i <= n THEN a[i] ELSE IF i = n + 1 THEN t ELSE b[i - n - 1]
  BY <1>3, <1>4, <1>7, <1>8
<1>10. ASSUME NEW i \in 1 .. Len(q) + 1
       PROVE  Inserted(q, t)[i] = IF i <= n THEN q[i] ELSE IF i = n + 1 THEN t ELSE q[i - 1]
  <2>1. CASE i <= n
    <3>1. i \in 1 .. n
      BY <2>1, <1>1
    <3> QED BY <2>1, <3>1, <1>3, <1>9
  <2>2. CASE i = n + 1
    BY <2>2, <1>1, <1>9
  <2>3. CASE ~(i <= n) /\ i /= n + 1
    <3>1. i \in n + 2 .. Len(q) + 1
      BY <2>3, <1>1
    <3> QED BY <2>3, <3>1, <1>5, <1>9
  <2> QED BY <2>1, <2>2, <2>3
<1>11. DOMAIN Inserted(q, t) = 1 .. Len(q) + 1
  BY <1>3, <1>4, <1>7, <1>8
<1> QED BY <1>1, <1>7, <1>10, <1>11, <1>13

\* uxListRemove takes the task out and keeps the others in their order.
LEMMA WithoutWhere ==
    ASSUME NEW q \in Seq(Task), NEW t \in Task
    PROVE  /\ Without(q, t) \in Seq(Task)
           /\ \/ Without(q, t) = q /\ \A i \in DOMAIN q : q[i] /= t
              \/ \E k \in 1 .. Len(q) :
                    /\ q[k] = t /\ DOMAIN Without(q, t) = 1 .. Len(q) - 1
                    /\ \A i \in 1 .. Len(q) - 1 :
                        Without(q, t)[i] = IF i < k THEN q[i] ELSE q[i + 1]
<1>1. CASE \A i \in DOMAIN q : q[i] /= t
  BY <1>1 DEF Without
<1>2. CASE \E i \in DOMAIN q : q[i] = t
  <2> DEFINE k == CHOOSE i \in DOMAIN q : q[i] = t
  <2>1. k \in 1 .. Len(q) /\ q[k] = t
    BY <1>2
  <2>2. Without(q, t) = SubSeq(q, 1, k - 1) \o SubSeq(q, k + 1, Len(q))
    BY <1>2 DEF Without
  <2> HIDE DEF k
  <2> DEFINE a == SubSeq(q, 1, k - 1)
             b == SubSeq(q, k + 1, Len(q))
  <2>3. a \in Seq(Task) /\ Len(a) = k - 1 /\ \A i \in 1 .. k - 1 : a[i] = q[i]
    BY <2>1
  <2>4. b \in Seq(Task) /\ Len(b) = Len(q) - k /\ \A i \in 1 .. Len(q) - k : b[i] = q[k + i]
    BY <2>1
  <2>5. \A i \in k .. Len(q) - 1 : b[i - (k - 1)] = q[i + 1]
    <3> SUFFICES ASSUME NEW i \in k .. Len(q) - 1 PROVE b[i - (k - 1)] = q[i + 1]
      OBVIOUS
    <3>1. i - (k - 1) \in 1 .. Len(q) - k /\ k + (i - (k - 1)) = i + 1
      BY <2>1
    <3> QED BY <2>4, <3>1
  <2>6. Without(q, t) = a \o b
    BY <2>2
  <2> HIDE DEF a, b
  <2>7. /\ Without(q, t) \in Seq(Task) /\ DOMAIN Without(q, t) = 1 .. Len(a) + Len(b)
        /\ \A i \in 1 .. Len(a) + Len(b) :
             Without(q, t)[i] = IF i <= Len(a) THEN a[i] ELSE b[i - Len(a)]
    BY <2>3, <2>4, <2>6, JoinedWhere
  <2>8. (k - 1) + (Len(q) - k) = Len(q) - 1
    BY <2>1
  <2>9. \A i \in 1 .. Len(q) - 1 :
          Without(q, t)[i] = IF i < k THEN a[i] ELSE b[i - (k - 1)]
    BY <2>1, <2>3, <2>4, <2>7, <2>8
  <2>10. ASSUME NEW i \in 1 .. Len(q) - 1
         PROVE  Without(q, t)[i] = IF i < k THEN q[i] ELSE q[i + 1]
    <3>1. CASE i < k
      <4>1. i \in 1 .. k - 1
        BY <3>1, <2>1
      <4> QED BY <3>1, <4>1, <2>3, <2>9
    <3>2. CASE ~(i < k)
      <4>1. i \in k .. Len(q) - 1
        BY <3>2, <2>1
      <4> QED BY <3>2, <4>1, <2>5, <2>9
    <3> QED BY <3>1, <3>2
  <2>11. DOMAIN Without(q, t) = 1 .. Len(q) - 1
    BY <2>3, <2>4, <2>7, <2>8
  <2> QED BY <2>1, <2>7, <2>10, <2>11
<1> QED BY <1>1, <1>2

\* A list after the woken task has left at its head.
LEMMA TailWhere ==
    ASSUME NEW q \in Seq(Task), q /= <<>>
    PROVE  /\ Tail(q) \in Seq(Task) /\ Head(q) = q[1] /\ Head(q) \in Task
           /\ 1 \in DOMAIN q /\ DOMAIN Tail(q) = 1 .. Len(q) - 1 /\ DOMAIN q = 1 .. Len(q)
           /\ \A i \in 1 .. Len(q) - 1 : Tail(q)[i] = q[i + 1]
  OBVIOUS

-----------------------------------------------------------------------------
(* The initial states *)

LEMMA NumberedPriorities == Priority \subseteq Nat
  BY MutexAssumption DEF Priority

LEMMA InitInv == Init => Inv
<1> SUFFICES ASSUME Init PROVE Inv
  OBVIOUS
<1>1. TypeOK
  <2>1. \A t \in Task : FirstPriority[t] \in Priority
    BY DEF Priority
  <2>2. FirstPriority \in [Task -> Priority]
    BY <2>1, MutexAssumption
  <2>3. \A m \in Mutex : <<>> \in Seq(Task)
    OBVIOUS
  <2>4. current \in Task
    BY DEF Init
  <2>5. prio \in [Task -> Priority] /\ base \in [Task -> Priority] /\ listed \in [Task -> Priority]
    BY <2>2 DEF Init
  <2>6. held \in [Task -> Nat] /\ want \in [Task -> Mutex \cup {None}]
        /\ pc \in [Task -> {"app", "try", "block"}] /\ expired \in [Task -> BOOLEAN]
        /\ patience \in [Task -> {"none", "some", "forever"}]
    BY DEF Init
  <2>7. avail \in [Mutex -> 0 .. 1] /\ holder \in [Mutex -> Task \cup {None}]
        /\ depth \in [Mutex -> Nat] /\ waiting \in [Mutex -> Seq(Task)]
    BY <2>3 DEF Init
  <2>8. current \in ready /\ Idle \in ready /\ ready \subseteq Task /\ sets \in Nat
        /\ nest \in [Task -> [Mutex -> Nat]] /\ changed \subseteq Task /\ overlooked \in BOOLEAN
    BY <2>4, MutexAssumption DEF Init
  <2> QED BY <2>5, <2>6, <2>7, <2>8 DEF TypeOK
<1>2. Ownership
  BY MutexAssumption DEF Init, Ownership
<1>3. Counts
  <2>1. \A t \in Task : HeldBy(t) = {}
    BY MutexAssumption DEF Init, HeldBy
  <2> QED BY <2>1, FS_EmptySet DEF Init, Counts
<1>4. InCall /\ Lists /\ Claims /\ BoostReturned
  BY DEF Init, InCall, Lists, Claims, BoostReturned
<1>5. HighestRuns
  BY DEF Init, HighestRuns
<1>6. Raised
  <2>1. ASSUME NEW t \in Task
        PROVE  base[t] = FirstPriority[t] /\ prio[t] = FirstPriority[t] /\ listed[t] = FirstPriority[t]
               /\ FirstPriority[t] \in Nat
    <3>1. listed[t] \in Priority
      BY <1>1 DEF TypeOK
    <3>2. base = FirstPriority /\ prio = FirstPriority /\ listed = FirstPriority
      BY DEF Init
    <3> QED BY <3>1, <3>2, NumberedPriorities
  <2>2. listed = prio
    BY DEF Init
  <2>3. ASSUME NEW t \in Task PROVE prio[t] >= base[t]
    BY <2>1
  <2> QED BY <2>2, <2>3 DEF Raised
<1>7. Ordered /\ Promised /\ HolderIsBoosted
  BY DEF Init, Ordered, Promised, HolderIsBoosted, OnList
<1> QED BY <1>1, <1>2, <1>3, <1>4, <1>5, <1>6, <1>7 DEF Inv

-----------------------------------------------------------------------------
(* The types *)

LEMMA CallType ==
    ASSUME TypeOK, NEW t \in Task, Return(t)
    PROVE  /\ pc' \in [Task -> {"app", "try", "block"}] /\ want' \in [Task -> Mutex \cup {None}]
           /\ patience' \in [Task -> {"none", "some", "forever"}] /\ expired' \in [Task -> BOOLEAN]
  BY DEF TypeOK, Return

LEMMA GiveType ==
    ASSUME TypeOK, NEW t \in Task, current = t, NEW m \in Mutex, held[t] > 0,
           xQueueGenericSend(t, m)
    PROVE  /\ current' \in ready' /\ Idle \in ready' /\ ready' \subseteq Task
           /\ prio' \in [Task -> Priority] /\ base' = base /\ listed' \in [Task -> Priority]
           /\ held' \in [Task -> Nat]
           /\ avail' = [avail EXCEPT ![m] = @ + 1] /\ holder' \in [Mutex -> Task \cup {None}]
           /\ waiting' \in [Mutex -> Seq(Task)] /\ overlooked' \in BOOLEAN
<1> USE DEF TypeOK
<1>1. held' \in [Task -> Nat]
  BY DEF xQueueGenericSend, xTaskPriorityDisinherit
<1>2. prio' \in [Task -> Priority] /\ listed' \in [Task -> Priority]
  <2>1. \/ prio' = [prio EXCEPT ![t] = base[t]] /\ listed' = [listed EXCEPT ![t] = base[t]]
        \/ prio' = prio /\ listed' = listed
    BY DEF xQueueGenericSend, xTaskPriorityDisinherit
  <2>2. base[t] \in Priority
    OBVIOUS
  <2> QED BY <2>1, <2>2
<1>3. base' = base /\ avail' = [avail EXCEPT ![m] = @ + 1] /\ holder' \in [Mutex -> Task \cup {None}]
  BY DEF xQueueGenericSend
<1>4. CASE waiting[m] = <<>>
  BY <1>1, <1>2, <1>3, <1>4 DEF xQueueGenericSend, Yield, Top
<1>5. CASE waiting[m] /= <<>>
  <2>1. waiting[m] \in Seq(Task)
    OBVIOUS
  <2>2. Tail(waiting[m]) \in Seq(Task) /\ Head(waiting[m]) \in Task
    BY <2>1, <1>5, TailWhere
  <2>3. waiting' = [waiting EXCEPT ![m] = Tail(@)] /\ ready' = ready \cup {Head(waiting[m])}
    BY <1>5 DEF xQueueGenericSend
  <2>4. waiting' \in [Mutex -> Seq(Task)] /\ ready' \subseteq Task /\ Idle \in ready'
    BY <2>2, <2>3
  <2>5. current' \in ready'
    BY <1>5, <2>3 DEF xQueueGenericSend, Yield, Top
  <2>6. overlooked' \in BOOLEAN
    BY <1>5 DEF xQueueGenericSend
  <2> QED BY <1>1, <1>2, <1>3, <2>4, <2>5, <2>6
<1> QED BY <1>4, <1>5

\* The holder of a mutex counts it.
LEMMA HolderCounted ==
    ASSUME TypeOK, Counts, NEW t \in Task, NEW m \in Mutex, holder[m] = t
    PROVE  /\ held[t] > 0 /\ held[t] \in Nat
           /\ held[t] = 1 => HeldBy(t) = {m}
           /\ Cardinality(HeldBy(t) \ {m}) = held[t] - 1
<1>1. IsFiniteSet(HeldBy(t)) /\ m \in HeldBy(t)
  BY MutexAssumption, FS_Subset DEF HeldBy
<1>2. Cardinality(HeldBy(t)) \in Nat /\ Cardinality(HeldBy(t)) /= 0
  BY <1>1, FS_CardinalityType, FS_EmptySet
<1>3. Cardinality(HeldBy(t) \ {m}) = Cardinality(HeldBy(t)) - 1 /\ IsFiniteSet(HeldBy(t) \ {m})
  BY <1>1, FS_RemoveElement
<1>4. held[t] = Cardinality(HeldBy(t))
  BY DEF Counts
<1>5. held[t] = 1 => HeldBy(t) \ {m} = {}
  BY <1>3, <1>4, FS_EmptySet
<1> QED BY <1>1, <1>2, <1>3, <1>4, <1>5

\* A recursive mutex that is given back is counted.
LEMMA GivenDepth ==
    ASSUME TypeOK, Ownership, NEW t \in Task, NEW m \in Mutex, GiveBack(t, m), holder[m] = t
    PROVE  depth' \in [Mutex -> Nat]
<1>1. CASE Give(t, m)
  BY <1>1 DEF Give, TypeOK
<1>2. CASE GiveRecursive(t, m)
  <2>1. depth[m] = nest[t][m] /\ nest[t][m] > 0 /\ nest[t][m] \in Nat
    BY <1>2, MutexAssumption DEF GiveRecursive, Ownership, TypeOK
  <2> QED BY <1>2, <2>1 DEF GiveRecursive, TypeOK
<1> QED BY <1>1, <1>2 DEF GiveBack

LEMMA TypeStep ==
    ASSUME TypeOK, InCall, Ownership, Counts, Next
    PROVE  TypeOK'
<1> USE DEF TypeOK
<1>1. CASE TimeSlice
  BY <1>1 DEF TimeSlice, Yield, Top, priorities, call, mutexes, history
<1>2. ASSUME NEW t \in Task, Sleep(t)
      PROVE  TypeOK'
  BY <1>2 DEF Sleep, Running, Yield, Top, priorities, call, mutexes, history
<1>3. ASSUME NEW t \in Task, Awake(t)
      PROVE  TypeOK'
  <2>1. waiting' \in [Mutex -> Seq(Task)]
    <3>1. \A m \in Mutex : Without(waiting[m], t) \in Seq(Task)
      BY WithoutWhere
    <3> QED BY <1>3, <3>1 DEF Awake
  <2>2. current' \in ready' /\ Idle \in ready' /\ ready' \subseteq Task
    BY <1>3 DEF Awake, Yield, Top
  <2>3. expired' \in [Task -> BOOLEAN]
    BY <1>3 DEF Awake, Waits
  <2> QED BY <1>3, <2>1, <2>2, <2>3 DEF Awake, priorities, history
<1>4. ASSUME NEW t \in Task, Take(t)
      PROVE  TypeOK'
  <2>1. PICK m \in Mutex, w \in Patience : Enter(t, m, w)
    BY <1>4 DEF Take
  <2>2. w \in {"none", "some", "forever"}
    BY MutexAssumption
  <2> QED BY <1>4, <2>1, <2>2 DEF Take, Enter, sched, priorities, mutexes, history
<1>5. ASSUME NEW t \in Task, TakeAgain(t)
      PROVE  TypeOK'
  <2>1. PICK m \in Recursive : /\ depth' = [depth EXCEPT ![m] = @ + 1]
                               /\ nest' = [nest EXCEPT ![t][m] = @ + 1]
    BY <1>5 DEF TakeAgain
  <2>2. m \in Mutex
    BY MutexAssumption
  <2>3. depth' \in [Mutex -> Nat]
    BY <2>1, <2>2
  <2>4. nest' \in [Task -> [Mutex -> Nat]]
    BY <2>1, <2>2
  <2> QED BY <1>5, <2>3, <2>4 DEF TakeAgain, sched, priorities, call
<1>6. ASSUME NEW t \in Task, Obtain(t)
      PROVE  TypeOK'
  <2>1. want[t] \in Mutex
    BY <1>6 DEF Obtain, Running, InCall
  <2>2. avail' \in [Mutex -> 0 .. 1] /\ holder' \in [Mutex -> Task \cup {None}]
    BY <1>6, <2>1 DEF Obtain
  <2>3. depth' \in [Mutex -> Nat] /\ held' \in [Task -> Nat]
    BY <1>6, <2>1, SMTT(30) DEF Obtain
  <2>4. nest' \in [Task -> [Mutex -> Nat]]
    BY <1>6, <2>1 DEF Obtain
  <2>5. Return(t) /\ UNCHANGED <<sched, prio, base, listed, waiting, sets, changed, overlooked>>
    BY <1>6 DEF Obtain
  <2> QED BY <2>2, <2>3, <2>4, <2>5, CallType DEF sched
<1>7. ASSUME NEW t \in Task, Refused(t) \/ Expire(t)
      PROVE  TypeOK'
  <2>1. Return(t) /\ UNCHANGED <<sched, priorities, mutexes, history>>
    BY <1>7 DEF Refused, Expire
  <2> QED BY <2>1, CallType DEF sched, priorities, mutexes, history
<1>8. ASSUME NEW t \in Task, Wait(t) \/ Again(t)
      PROVE  TypeOK'
  BY <1>8 DEF Wait, Again, sched, priorities, mutexes, history
<1>9. ASSUME NEW t \in Task, Block(t)
      PROVE  TypeOK'
  <2> DEFINE m == want[t]
  <2>1. m \in Mutex
    BY <1>9 DEF Block, Running, InCall
  <2>2. prio' \in [Task -> Priority] /\ listed' \in [Task -> Priority]
    <3>1. \/ prio' = [prio EXCEPT ![holder[m]] = prio[t]] /\ listed' = [listed EXCEPT ![holder[m]] = prio[t]]
          \/ prio' = prio /\ listed' = listed
      BY <1>9 DEF Block, vTaskPriorityInherit
    <3>2. prio[t] \in Priority
      OBVIOUS
    <3> QED BY <3>1, <3>2
  <2>3. waiting' \in [Mutex -> Seq(Task)]
    <3>1. Inserted(waiting[m], t) \in Seq(Task)
      BY <2>1, InsertedWhere
    <3> QED BY <1>9, <3>1, <2>1 DEF Block
  <2>4. current' \in ready' /\ Idle \in ready' /\ ready' \subseteq Task
    BY <1>9 DEF Block, Running, Yield, Top
  <2>5. pc' \in [Task -> {"app", "try", "block"}]
    BY <1>9 DEF Block
  <2> QED BY <1>9, <2>2, <2>3, <2>4, <2>5 DEF Block, history
<1>10. ASSUME NEW t \in Task, vTaskPrioritySet(t)
       PROVE  TypeOK'
  <2>1. PICK u \in Settable, p \in Priority :
            /\ prio' = IF base[u] = prio[u] THEN [prio EXCEPT ![u] = p] ELSE prio
            /\ base' = [base EXCEPT ![u] = p] /\ listed' = [listed EXCEPT ![u] = p]
            /\ UNCHANGED ready /\ changed' = changed \cup {u}
            /\ Yield(IF p > base[u] THEN u /= t /\ p >= prio[t] ELSE u = t)
    BY <1>10 DEF vTaskPrioritySet
  <2>2. u \in Task
    BY MutexAssumption DEF Worker
  <2>3. current' \in ready'
    BY <2>1 DEF Yield, Top
  <2>4. prio' \in [Task -> Priority] /\ base' \in [Task -> Priority] /\ listed' \in [Task -> Priority]
    BY <2>1, <2>2
  <2> QED BY <1>10, <2>1, <2>2, <2>3, <2>4 DEF vTaskPrioritySet, call, mutexes
<1>11. ASSUME NEW t \in Task, NEW m \in Mutex, GiveBack(t, m)
       PROVE  TypeOK'
  <2>1. current = t /\ nest[t][m] > 0 /\ holder[m] = t /\ avail[m] = 0
    BY <1>11, MutexAssumption DEF GiveBack, Give, GiveRecursive, Running, Ownership
  <2>2. held[t] > 0
    BY <2>1, HolderCounted
  <2>3. nest' \in [Task -> [Mutex -> Nat]]
    <3>1. nest[t][m] - 1 \in Nat /\ nest' = [nest EXCEPT ![t][m] = @ - 1]
      BY <1>11, <2>1 DEF GiveBack, Give, GiveRecursive
    <3> QED BY <3>1
  <2>4. CASE xQueueGenericSend(t, m)
    <3>1. /\ current' \in ready' /\ Idle \in ready' /\ ready' \subseteq Task
          /\ prio' \in [Task -> Priority] /\ base' = base /\ listed' \in [Task -> Priority]
          /\ held' \in [Task -> Nat]
          /\ avail' = [avail EXCEPT ![m] = @ + 1] /\ holder' \in [Mutex -> Task \cup {None}]
          /\ waiting' \in [Mutex -> Seq(Task)] /\ overlooked' \in BOOLEAN
      BY <2>1, <2>2, <2>4, GiveType
    <3>2. avail' \in [Mutex -> 0 .. 1]
      BY <2>1, <3>1
    <3>3. depth' \in [Mutex -> Nat]
      BY <1>11, <2>1, GivenDepth
    <3>4. UNCHANGED <<call, sets, changed>>
      BY <1>11 DEF GiveBack, Give, GiveRecursive
    <3> QED BY <2>3, <3>1, <3>2, <3>3, <3>4 DEF call
  <2>5. CASE ~xQueueGenericSend(t, m)
    <3>1. UNCHANGED <<sched, priorities, avail, holder, waiting, overlooked, call, sets, changed>>
      BY <1>11, <2>5 DEF GiveBack, Give, GiveRecursive
    <3>2. depth' \in [Mutex -> Nat]
      BY <1>11, <2>1, GivenDepth
    <3> QED BY <2>3, <3>1, <3>2 DEF sched, priorities, call
  <2> QED BY <2>4, <2>5
<1> QED BY <1>1, <1>2, <1>3, <1>4, <1>5, <1>6, <1>7, <1>8, <1>9, <1>10, <1>11 DEF Next, Step

-----------------------------------------------------------------------------
(* Who has which mutex *)

\* The steps that change a mutex or what its takers have been told.
LEMMA Steps ==
    ASSUME Next
    PROVE  \/ UNCHANGED <<avail, holder, depth, nest, held>>
           \/ \E t \in Task : TakeAgain(t) \/ Obtain(t)
           \/ \E t \in Task, m \in Mutex : GiveBack(t, m)
  BY ZenonT(30) DEF Next, Step, TimeSlice, Sleep, Awake, Take, Refused, Wait, Expire, Again, Block,
         vTaskPrioritySet, priorities, mutexes, history

\* A mutex that is given back: kept by its holder, or free.
LEMMA Given ==
    ASSUME TypeOK, Ownership, NEW t \in Task, NEW m \in Mutex, GiveBack(t, m)
    PROVE  /\ current = t /\ pc[t] = "app" /\ holder[m] = t
           /\ nest[t][m] \in Nat \ {0} /\ nest' = [nest EXCEPT ![t][m] = @ - 1]
           /\ UNCHANGED <<call, sets, changed>>
           /\ \/ /\ m \in Recursive /\ nest[t][m] > 1
                 /\ depth' = [depth EXCEPT ![m] = nest[t][m] - 1]
                 /\ UNCHANGED <<sched, priorities, avail, holder, waiting, overlooked>>
              \/ /\ nest[t][m] = 1 /\ xQueueGenericSend(t, m)
                 /\ depth' = IF m \in Recursive THEN [depth EXCEPT ![m] = 0] ELSE depth
<1>1. current = t /\ pc[t] = "app"
  BY DEF GiveBack, Give, GiveRecursive, Running
<1>2. holder[m] = t /\ nest[t][m] \in Nat \ {0}
  BY MutexAssumption DEF GiveBack, Give, GiveRecursive, Ownership, TypeOK
<1>3. nest' = [nest EXCEPT ![t][m] = @ - 1] /\ UNCHANGED <<call, sets, changed>>
  BY DEF GiveBack, Give, GiveRecursive
<1>4. CASE Give(t, m)
  <2>1. m \notin Recursive /\ xQueueGenericSend(t, m) /\ depth' = depth
    BY <1>4 DEF Give
  <2>2. nest[t][m] = 1
    BY <1>2, <2>1 DEF Ownership
  <2> QED BY <1>1, <1>2, <1>3, <2>1, <2>2
<1>5. CASE GiveRecursive(t, m)
  <2>1. m \in Recursive /\ depth[m] = nest[t][m]
    BY <1>2, <1>5, MutexAssumption DEF GiveRecursive, Ownership
  <2>2. depth' = [depth EXCEPT ![m] = nest[t][m] - 1]
    BY <1>5, <2>1 DEF GiveRecursive
  <2>3. CASE nest[t][m] = 1
    BY <1>1, <1>2, <1>3, <1>5, <2>1, <2>2, <2>3 DEF GiveRecursive
  <2>4. CASE nest[t][m] > 1
    BY <1>1, <1>2, <1>3, <1>5, <2>1, <2>2, <2>4 DEF GiveRecursive
  <2> QED BY <1>2, <2>3, <2>4
<1> QED BY <1>4, <1>5 DEF GiveBack

\* A task takes a mutex only while it is free.
LEMMA Obtained ==
    ASSUME TypeOK, InCall, Ownership, NEW t \in Task, Obtain(t)
    PROVE  /\ want[t] \in Mutex /\ current = t /\ pc[t] = "try"
           /\ avail[want[t]] = 1 /\ holder[want[t]] = None
           /\ \A u \in Task : nest[u][want[t]] = 0
           /\ avail' = [avail EXCEPT ![want[t]] = 0] /\ holder' = [holder EXCEPT ![want[t]] = t]
           /\ nest' = [nest EXCEPT ![t][want[t]] = 1]
           /\ depth' = IF want[t] \in Recursive THEN [depth EXCEPT ![want[t]] = 1] ELSE depth
           /\ held' = [held EXCEPT ![t] = @ + 1]
<1>1. want[t] \in Mutex /\ current = t /\ pc[t] = "try"
  BY DEF Obtain, Running, InCall
<1>2. avail[want[t]] = 1 /\ holder[want[t]] = None
  BY <1>1 DEF Obtain, TypeOK, Ownership
<1>3. \A u \in Task : nest[u][want[t]] = 0
  <2> SUFFICES ASSUME NEW u \in Task PROVE nest[u][want[t]] = 0
    OBVIOUS
  <2>1. nest[u][want[t]] \in Nat /\ u /= None
    <3>1. u /= None
      BY MutexAssumption
    <3>2. nest[u] \in [Mutex -> Nat]
      BY DEF TypeOK
    <3> QED BY <1>1, <3>1, <3>2
  <2>2. ~(nest[u][want[t]] > 0)
    BY <1>1, <1>2, <2>1 DEF Ownership
  <2> QED BY <2>1, <2>2
<1>4. depth' = IF want[t] \in Recursive THEN [depth EXCEPT ![want[t]] = 1] ELSE depth
  <2>1. want[t] \in Recursive => depth[want[t]] = 0
    BY <1>1, <1>2 DEF Ownership
  <2>2. depth' = [depth EXCEPT ![want[t]] = IF want[t] \in Recursive THEN @ + 1 ELSE @]
    BY DEF Obtain
  <2>3. CASE want[t] \in Recursive
    <3>1. depth' = [depth EXCEPT ![want[t]] = depth[want[t]] + 1]
      BY <2>2, <2>3
    <3>2. depth[want[t]] + 1 = 1
      BY <2>1, <2>3
    <3> QED BY <2>3, <3>1, <3>2
  <2>4. CASE want[t] \notin Recursive
    BY <2>2, <2>4 DEF TypeOK
  <2> QED BY <2>3, <2>4
<1>5. nest' = [nest EXCEPT ![t][want[t]] = 1]
  <2>1. nest' = [nest EXCEPT ![t][want[t]] = nest[t][want[t]] + 1]
    BY DEF Obtain
  <2>2. nest[t][want[t]] + 1 = 1
    BY <1>3
  <2> QED BY <2>1, <2>2
<1>6. avail' = [avail EXCEPT ![want[t]] = 0]
  BY <1>1, <1>2 DEF Obtain, TypeOK
<1> QED BY <1>1, <1>2, <1>3, <1>4, <1>5, <1>6 DEF Obtain

LEMMA OwnershipStep ==
    ASSUME TypeOK, InCall, Ownership, Next
    PROVE  Ownership'
<1>1. CASE UNCHANGED <<avail, holder, depth, nest, held>>
  BY <1>1 DEF Ownership
<1>2. ASSUME NEW t \in Task, TakeAgain(t)
      PROVE  Ownership'
  <2>1. PICK m \in Recursive : /\ holder[m] = t /\ UNCHANGED <<avail, holder>>
                               /\ depth' = [depth EXCEPT ![m] = @ + 1]
                               /\ nest' = [nest EXCEPT ![t][m] = @ + 1]
    BY <1>2 DEF TakeAgain
  <2>2. m \in Mutex /\ nest[t][m] \in Nat /\ depth[m] = nest[t][m] /\ t /= None
    BY <2>1, MutexAssumption DEF TypeOK, Ownership
  <2>3. ASSUME NEW l \in Mutex, l /= m
        PROVE  depth'[l] = depth[l] /\ \A u \in Task : nest'[u][l] = nest[u][l]
    BY <2>1, <2>2, <2>3 DEF TypeOK
  <2>4. /\ depth'[m] = nest[t][m] + 1 /\ nest'[t][m] = nest[t][m] + 1
        /\ \A u \in Task \ {t} : nest'[u][m] = nest[u][m]
    BY <2>1, <2>2 DEF TypeOK
  <2>5. ASSUME NEW l \in Mutex
        PROVE  /\ avail'[l] = 1 <=> holder'[l] = None
               /\ \A u \in Task : nest'[u][l] > 0 <=> holder'[l] = u
               /\ l \notin Recursive => \A u \in Task : nest'[u][l] <= 1
               /\ l \in Recursive => IF holder'[l] = None THEN depth'[l] = 0
                                     ELSE depth'[l] = nest'[holder'[l]][l]
    <3>1. CASE l = m
      BY <2>1, <2>2, <2>4, <3>1 DEF Ownership, TypeOK
    <3>2. CASE l /= m
      <4>1. holder[l] \in Task \cup {None}
        BY DEF TypeOK
      <4> QED BY <2>1, <2>3, <3>2, <4>1 DEF Ownership
    <3> QED BY <3>1, <3>2
  <2> QED BY <2>5 DEF Ownership
<1>3. ASSUME NEW t \in Task, Obtain(t)
      PROVE  Ownership'
  <2> DEFINE m == want[t]
  <2>1. /\ m \in Mutex /\ avail[m] = 1 /\ holder[m] = None /\ \A u \in Task : nest[u][m] = 0
        /\ avail' = [avail EXCEPT ![m] = 0] /\ holder' = [holder EXCEPT ![m] = t]
        /\ nest' = [nest EXCEPT ![t][m] = 1]
        /\ depth' = IF m \in Recursive THEN [depth EXCEPT ![m] = 1] ELSE depth
    BY <1>3, Obtained
  <2> HIDE DEF m
  <2>2. t /= None
    BY MutexAssumption
  <2>3. ASSUME NEW l \in Mutex, l /= m
        PROVE  /\ depth'[l] = depth[l] /\ avail'[l] = avail[l] /\ holder'[l] = holder[l]
               /\ \A u \in Task : nest'[u][l] = nest[u][l]
    BY <2>1, <2>3 DEF TypeOK
  <2>4. /\ avail'[m] = 0 /\ holder'[m] = t /\ nest'[t][m] = 1
        /\ \A u \in Task \ {t} : nest'[u][m] = 0
        /\ m \in Recursive => depth'[m] = 1
    BY <2>1 DEF TypeOK
  <2>5. ASSUME NEW l \in Mutex
        PROVE  /\ avail'[l] = 1 <=> holder'[l] = None
               /\ \A u \in Task : nest'[u][l] > 0 <=> holder'[l] = u
               /\ l \notin Recursive => \A u \in Task : nest'[u][l] <= 1
               /\ l \in Recursive => IF holder'[l] = None THEN depth'[l] = 0
                                     ELSE depth'[l] = nest'[holder'[l]][l]
    <3>1. CASE l = m
      BY <2>2, <2>4, <3>1
    <3>2. CASE l /= m
      <4>1. holder[l] \in Task \cup {None}
        BY DEF TypeOK
      <4> QED BY <2>3, <3>2, <4>1 DEF Ownership
    <3> QED BY <3>1, <3>2
  <2> QED BY <2>5 DEF Ownership
<1>4. ASSUME NEW t \in Task, NEW m \in Mutex, GiveBack(t, m)
      PROVE  Ownership'
  <2>1. /\ holder[m] = t /\ nest[t][m] \in Nat \ {0} /\ nest' = [nest EXCEPT ![t][m] = @ - 1]
        /\ \/ /\ m \in Recursive /\ nest[t][m] > 1
              /\ depth' = [depth EXCEPT ![m] = nest[t][m] - 1]
              /\ UNCHANGED <<avail, holder>>
           \/ /\ nest[t][m] = 1 /\ avail' = [avail EXCEPT ![m] = @ + 1]
              /\ holder' = [holder EXCEPT ![m] = None]
              /\ depth' = IF m \in Recursive THEN [depth EXCEPT ![m] = 0] ELSE depth
    BY <1>4, Given DEF xQueueGenericSend
  <2>2. t /= None /\ avail[m] = 0 /\ \A u \in Task \ {t} : nest[u][m] = 0
    BY <2>1, MutexAssumption DEF TypeOK, Ownership
  <2>3. ASSUME NEW l \in Mutex, l /= m
        PROVE  /\ depth'[l] = depth[l] /\ avail'[l] = avail[l] /\ holder'[l] = holder[l]
               /\ \A u \in Task : nest'[u][l] = nest[u][l]
    BY <2>1, <2>3 DEF TypeOK
  <2>4. nest'[t][m] = nest[t][m] - 1 /\ \A u \in Task \ {t} : nest'[u][m] = 0
    BY <2>1, <2>2 DEF TypeOK
  <2>5. ASSUME NEW l \in Mutex
        PROVE  /\ avail'[l] = 1 <=> holder'[l] = None
               /\ \A u \in Task : nest'[u][l] > 0 <=> holder'[l] = u
               /\ l \notin Recursive => \A u \in Task : nest'[u][l] <= 1
               /\ l \in Recursive => IF holder'[l] = None THEN depth'[l] = 0
                                     ELSE depth'[l] = nest'[holder'[l]][l]
    <3>1. CASE l = m /\ nest[t][m] > 1
      BY <2>1, <2>2, <2>4, <3>1 DEF TypeOK
    <3>2. CASE l = m /\ nest[t][m] = 1
      <4>1. avail'[m] = 1 /\ holder'[m] = None /\ nest'[t][m] = 0 /\ (m \in Recursive => depth'[m] = 0)
        BY <2>1, <2>2, <2>4, <3>2 DEF TypeOK
      <4> QED BY <2>4, <3>2, <4>1, MutexAssumption
    <3>3. CASE l /= m
      <4>1. holder[l] \in Task \cup {None}
        BY DEF TypeOK
      <4> QED BY <2>3, <3>3, <4>1 DEF Ownership
    <3> QED BY <2>1, <3>1, <3>2, <3>3
  <2> QED BY <2>5 DEF Ownership
<1> QED BY <1>1, <1>2, <1>3, <1>4, Steps

-----------------------------------------------------------------------------
(* The count of a task's mutexes, and its priority *)

LEMMA CountsStep ==
    ASSUME TypeOK, InCall, Ownership, Counts, Next
    PROVE  Counts'
<1>1. CASE UNCHANGED <<avail, holder, depth, nest, held>>
  BY <1>1 DEF Counts, HeldBy
<1>2. ASSUME NEW t \in Task, TakeAgain(t)
      PROVE  Counts'
  BY <1>2 DEF TakeAgain, priorities, Counts, HeldBy
<1>3. ASSUME NEW t \in Task, Obtain(t)
      PROVE  Counts'
  <2> DEFINE m == want[t]
  <2>1. /\ m \in Mutex /\ holder[m] = None /\ holder' = [holder EXCEPT ![m] = t]
        /\ held' = [held EXCEPT ![t] = @ + 1]
    BY <1>3, Obtained
  <2> HIDE DEF m
  <2>2. ASSUME NEW u \in Task
        PROVE  held'[u] = Cardinality(HeldBy(u)')
    <3>1. IsFiniteSet(HeldBy(u)) /\ m \notin HeldBy(u) /\ held[u] = Cardinality(HeldBy(u))
      BY <2>1, MutexAssumption, FS_Subset DEF HeldBy, Counts
    <3>2. CASE u = t
      <4>1. HeldBy(u)' = HeldBy(u) \cup {m}
        BY <2>1, <3>2, MutexAssumption DEF HeldBy, TypeOK
      <4>2. held'[u] = held[u] + 1
        BY <2>1, <3>2 DEF TypeOK
      <4> QED BY <3>1, <4>1, <4>2, FS_AddElement
    <3>3. CASE u /= t
      <4>1. HeldBy(u)' = HeldBy(u)
        <5>1. \A l \in Mutex : holder'[l] = IF l = m THEN t ELSE holder[l]
          BY <2>1 DEF TypeOK
        <5>2. \A l \in Mutex : holder'[l] = u <=> holder[l] = u
          BY <2>1, <3>3, <5>1, MutexAssumption
        <5> QED BY <5>2 DEF HeldBy
      <4>2. held'[u] = held[u]
        BY <2>1, <3>3 DEF TypeOK
      <4> QED BY <3>1, <4>1, <4>2
    <3> QED BY <3>2, <3>3
  <2> QED BY <2>2 DEF Counts
<1>4. ASSUME NEW t \in Task, NEW m \in Mutex, GiveBack(t, m)
      PROVE  Counts'
  <2>1. /\ holder[m] = t
        /\ \/ holder' = holder /\ held' = held
           \/ holder' = [holder EXCEPT ![m] = None] /\ held' = [held EXCEPT ![t] = @ - 1]
    BY <1>4, Given DEF xQueueGenericSend, xTaskPriorityDisinherit, priorities
  <2>2. CASE holder' = holder /\ held' = held
    BY <2>2 DEF Counts, HeldBy
  <2>3. CASE holder' = [holder EXCEPT ![m] = None] /\ held' = [held EXCEPT ![t] = @ - 1]
    <3>1. ASSUME NEW u \in Task
          PROVE  held'[u] = Cardinality(HeldBy(u)')
      <4>1. CASE u = t
        <5>1. HeldBy(u)' = HeldBy(u) \ {m}
          BY <2>3, <4>1, MutexAssumption DEF HeldBy, TypeOK
        <5>2. held'[u] = held[u] - 1
          BY <2>3, <4>1 DEF TypeOK
        <5> QED BY <2>1, <4>1, <5>1, <5>2, HolderCounted
      <4>2. CASE u /= t
        <5>1. HeldBy(u)' = HeldBy(u)
          BY <2>1, <2>3, <4>2, MutexAssumption DEF HeldBy, TypeOK
        <5>2. held'[u] = held[u]
          BY <2>3, <4>2 DEF TypeOK
        <5> QED BY <5>1, <5>2 DEF Counts
      <4> QED BY <4>1, <4>2
    <3> QED BY <3>1 DEF Counts
  <2> QED BY <2>1, <2>2, <2>3
<1> QED BY <1>1, <1>2, <1>3, <1>4, Steps

LEMMA BoostStep ==
    ASSUME TypeOK, InCall, Ownership, Counts, BoostReturned, Next
    PROVE  BoostReturned'
<1>1. CASE UNCHANGED <<prio, base, held>>
  BY <1>1 DEF BoostReturned
<1>2. ASSUME NEW t \in Task, Obtain(t)
      PROVE  BoostReturned'
  <2>1. held' = [held EXCEPT ![t] = @ + 1] /\ UNCHANGED <<prio, base>>
    BY <1>2 DEF Obtain
  <2>2. \A u \in Task : held'[u] = 0 => held[u] = 0
    BY <2>1 DEF TypeOK
  <2> QED BY <2>1, <2>2 DEF BoostReturned
<1>3. ASSUME NEW t \in Task, Block(t)
      PROVE  BoostReturned'
  <2> DEFINE h == holder[want[t]]
  <2>1. UNCHANGED <<base, held>> /\ (prio' = prio \/ (h /= None /\ prio' = [prio EXCEPT ![h] = prio[t]]))
    <3>1. UNCHANGED <<base, held>> /\ vTaskPriorityInherit(h, t)
      BY <1>3 DEF Block
    <3> HIDE DEF h
    <3>2. CASE h /= None /\ prio[h] < prio[t]
      BY <3>1, <3>2 DEF vTaskPriorityInherit
    <3>3. CASE ~(h /= None /\ prio[h] < prio[t])
      BY <3>1, <3>3 DEF vTaskPriorityInherit
    <3> QED BY <3>2, <3>3
  <2>2. want[t] \in Mutex
    BY <1>3 DEF Block, Running, InCall
  <2>3. h /= None => h \in Task /\ held[h] > 0
    BY <2>2, HolderCounted DEF TypeOK
  <2> HIDE DEF h
  <2> QED BY <2>1, <2>3 DEF BoostReturned, TypeOK
<1>4. ASSUME NEW t \in Task, vTaskPrioritySet(t)
      PROVE  BoostReturned'
  <2>1. PICK u \in Settable, p \in Priority :
            /\ prio' = IF base[u] = prio[u] THEN [prio EXCEPT ![u] = p] ELSE prio
            /\ base' = [base EXCEPT ![u] = p] /\ held' = held
    BY <1>4 DEF vTaskPrioritySet
  <2>2. u \in Task
    BY MutexAssumption DEF Worker
  <2> QED BY <2>1, <2>2 DEF BoostReturned, TypeOK
<1>5. ASSUME NEW t \in Task, NEW m \in Mutex, GiveBack(t, m)
      PROVE  BoostReturned'
  <2>1. holder[m] = t /\ (UNCHANGED <<prio, base, held>> \/ (base' = base /\ xTaskPriorityDisinherit(t)))
    <3>1. holder[m] = t /\ (UNCHANGED priorities \/ xQueueGenericSend(t, m))
      BY <1>5, Given
    <3>2. xQueueGenericSend(t, m) => base' = base /\ xTaskPriorityDisinherit(t)
      BY DEF xQueueGenericSend
    <3> QED BY <3>1, <3>2 DEF priorities
  <2>2. held[t] > 0 /\ held[t] \in Nat
    BY <2>1, HolderCounted
  <2>3. CASE base' = base /\ xTaskPriorityDisinherit(t)
    <3>1. held' = [held EXCEPT ![t] = @ - 1]
      BY <2>3 DEF xTaskPriorityDisinherit
    <3>2. CASE prio[t] /= base[t] /\ held[t] = 1
      BY <2>3, <3>1, <3>2 DEF xTaskPriorityDisinherit, BoostReturned, TypeOK
    <3>3. CASE ~(prio[t] /= base[t] /\ held[t] = 1)
      <4>1. prio' = prio
        BY <2>3, <3>3 DEF xTaskPriorityDisinherit
      <4>2. held'[t] = 0 => held[t] = 1
        BY <2>2, <3>1 DEF TypeOK
      <4>3. \A u \in Task \ {t} : held'[u] = held[u]
        BY <3>1 DEF TypeOK
      <4> QED BY <2>3, <3>3, <4>1, <4>2, <4>3 DEF BoostReturned
    <3> QED BY <3>2, <3>3
  <2> QED BY <1>1, <2>1, <2>3
<1>6. \/ UNCHANGED <<prio, base, held>>
      \/ \E t \in Task : Obtain(t) \/ Block(t) \/ vTaskPrioritySet(t)
      \/ \E t \in Task, m \in Mutex : GiveBack(t, m)
  BY DEF Next, Step, TimeSlice, Sleep, Awake, Take, TakeAgain, Refused, Wait, Expire, Again, priorities
<1> QED BY <1>1, <1>2, <1>3, <1>4, <1>5, <1>6

-----------------------------------------------------------------------------
(* Calls, waiting lists and wake-ups *)

LEMMA InCallStep ==
    ASSUME TypeOK, InCall, Next
    PROVE  InCall'
<1>1. CASE UNCHANGED <<pc, want>>
  BY <1>1 DEF InCall
<1>2. ASSUME NEW t \in Task, Take(t)
      PROVE  InCall'
  <2>1. PICK m \in Mutex : pc' = [pc EXCEPT ![t] = "try"] /\ want' = [want EXCEPT ![t] = m]
    BY <1>2 DEF Take, Enter
  <2> QED BY <2>1 DEF InCall, TypeOK
<1>3. ASSUME NEW t \in Task, Return(t)
      PROVE  InCall'
  BY <1>3 DEF Return, InCall, TypeOK
<1>4. ASSUME NEW t \in Task, want' = want, pc[t] /= "app", NEW l, pc' = [pc EXCEPT ![t] = l]
      PROVE  InCall'
  BY <1>4 DEF InCall, TypeOK
<1>5. ASSUME NEW t \in Task, Wait(t) \/ Again(t) \/ Block(t)
      PROVE  InCall'
  BY <1>4, <1>5 DEF Wait, Again, Block, Running
<1>6. \/ UNCHANGED <<pc, want>>
      \/ \E t \in Task : Take(t) \/ Return(t) \/ Wait(t) \/ Again(t) \/ Block(t)
  BY ZenonT(30) DEF Next, Step, TimeSlice, Sleep, Awake, TakeAgain, Obtain, Refused, Expire, vTaskPrioritySet,
         GiveBack, Give, GiveRecursive, call
<1> QED BY <1>1, <1>2, <1>3, <1>5, <1>6

\* What each step does to the lists, the ready tasks and the calls.
LEMMA Moves ==
    ASSUME TypeOK, InCall, Ownership, Next
    PROVE  \/ /\ UNCHANGED waiting /\ ready' \subseteq ready
              /\ \A u \in Task \ {current} : pc'[u] = pc[u] /\ want'[u] = want[u]
           \/ \E t \in Task : Awake(t) \/ Block(t)
           \/ /\ UNCHANGED <<pc, want>>
              /\ \E m \in Mutex : xQueueGenericSend(current, m)
<1>1. CASE TimeSlice
  BY <1>1 DEF TimeSlice, call, mutexes
<1>2. ASSUME NEW t \in Task, Sleep(t) \/ TakeAgain(t) \/ vTaskPrioritySet(t)
      PROVE  UNCHANGED <<waiting, pc, want>> /\ ready' \subseteq ready
  BY <1>2 DEF Sleep, TakeAgain, vTaskPrioritySet, sched, call, mutexes
<1>3. ASSUME NEW t \in Task, Return(t)
      PROVE  \A u \in Task \ {t} : pc'[u] = pc[u] /\ want'[u] = want[u]
  BY <1>3 DEF Return, TypeOK
<1>4. ASSUME NEW t \in Task, Obtain(t) \/ Refused(t) \/ Expire(t)
      PROVE  /\ UNCHANGED <<waiting, ready>> /\ current = t
             /\ \A u \in Task \ {t} : pc'[u] = pc[u] /\ want'[u] = want[u]
  BY <1>3, <1>4 DEF Obtain, Refused, Expire, Running, sched, mutexes
<1>5. ASSUME NEW t \in Task, Take(t) \/ Wait(t) \/ Again(t)
      PROVE  /\ UNCHANGED <<waiting, ready>> /\ current = t
             /\ \A u \in Task \ {t} : pc'[u] = pc[u] /\ want'[u] = want[u]
  BY <1>5 DEF Take, Enter, Wait, Again, Running, sched, mutexes, TypeOK
<1>6. ASSUME NEW t \in Task, NEW m \in Mutex, GiveBack(t, m)
      PROVE  /\ UNCHANGED <<pc, want>> /\ t = current
             /\ UNCHANGED <<waiting, ready>> \/ xQueueGenericSend(t, m)
  BY <1>6, Given DEF call, sched
<1> QED BY <1>1, <1>2, <1>4, <1>5, <1>6 DEF Next, Step

LEMMA ListsStep ==
    ASSUME TypeOK, InCall, Ownership, Lists, Next
    PROVE  Lists'
<1>1. CASE /\ UNCHANGED waiting /\ ready' \subseteq ready
           /\ \A u \in Task \ {current} : pc'[u] = pc[u] /\ want'[u] = want[u]
  <2>1. \A m \in Mutex : \A i \in DOMAIN waiting[m] :
            waiting[m][i] \in Task /\ waiting[m][i] /= current
    BY DEF Lists, TypeOK
  <2> QED BY <1>1, <2>1 DEF Lists
<1>2. ASSUME NEW t \in Task, Awake(t)
      PROVE  Lists'
  <2>1. ready' = ready \cup {t} /\ UNCHANGED <<pc, want>>
        /\ waiting' = [m \in Mutex |-> Without(waiting[m], t)]
    BY <1>2 DEF Awake
  <2> SUFFICES ASSUME NEW m \in Mutex, NEW i \in DOMAIN waiting'[m]
               PROVE  /\ pc[waiting'[m][i]] = "try" /\ want[waiting'[m][i]] = m
                      /\ waiting'[m][i] \notin ready'
                      /\ \A j \in DOMAIN waiting'[m] : waiting'[m][i] = waiting'[m][j] => i = j
    BY <2>1 DEF Lists
  <2> DEFINE q == waiting[m]
             r == waiting'[m]
  <2>2. q \in Seq(Task) /\ r = Without(q, t)
    BY <2>1 DEF TypeOK
  <2>3. \A k \in DOMAIN q : /\ pc[q[k]] = "try" /\ want[q[k]] = m /\ q[k] \notin ready
                            /\ \A j \in DOMAIN q : q[k] = q[j] => k = j
    BY DEF Lists
  <2> HIDE DEF q, r
  <2>4. CASE r = q /\ \A k \in DOMAIN q : q[k] /= t
    BY <2>1, <2>3, <2>4 DEF r
  <2>5. CASE \E k \in 1 .. Len(q) :
                /\ q[k] = t /\ DOMAIN r = 1 .. Len(q) - 1
                /\ \A n \in 1 .. Len(q) - 1 : r[n] = IF n < k THEN q[n] ELSE q[n + 1]
    <3>1. PICK k \in 1 .. Len(q) :
                /\ q[k] = t /\ DOMAIN r = 1 .. Len(q) - 1
                /\ \A n \in 1 .. Len(q) - 1 : r[n] = IF n < k THEN q[n] ELSE q[n + 1]
      BY <2>5
    <3> DEFINE At(n) == IF n < k THEN n ELSE n + 1
    <3>2. Len(q) \in Nat /\ DOMAIN q = 1 .. Len(q)
      BY <2>2
    <3>3. \A n \in DOMAIN r : At(n) \in DOMAIN q /\ At(n) /= k /\ r[n] = q[At(n)]
      BY <3>1, <3>2
    <3>4. \A n \in DOMAIN r, j \in DOMAIN r : At(n) = At(j) => n = j
      BY <3>1, <3>2
    <3>5. k \in DOMAIN q
      BY <3>2
    <3> HIDE DEF At
    <3>6. \A n \in DOMAIN r : r[n] /= t
      BY <2>3, <3>1, <3>3, <3>5
    <3> QED BY <2>1, <2>3, <3>3, <3>4, <3>6 DEF r
  <2> QED BY <2>2, <2>4, <2>5, WithoutWhere
<1>3. ASSUME NEW t \in Task, Block(t)
      PROVE  Lists'
  <2> DEFINE l == want[t]
  <2>1. /\ l \in Mutex /\ t = current /\ t \in ready /\ ready' = ready \ {t} /\ want' = want
        /\ pc' = [pc EXCEPT ![t] = "try"] /\ waiting' = [waiting EXCEPT ![l] = Inserted(@, t)]
    BY <1>3 DEF Block, Running, InCall, TypeOK
  <2> SUFFICES ASSUME NEW m \in Mutex, NEW i \in DOMAIN waiting'[m]
               PROVE  /\ pc'[waiting'[m][i]] = "try" /\ want[waiting'[m][i]] = m
                      /\ waiting'[m][i] \notin ready'
                      /\ \A j \in DOMAIN waiting'[m] : waiting'[m][i] = waiting'[m][j] => i = j
    BY <2>1 DEF Lists
  <2> DEFINE q == waiting[m]
             r == waiting'[m]
  <2>2. q \in Seq(Task)
    BY DEF TypeOK
  <2>3. \A k \in DOMAIN q : /\ q[k] \in Task /\ q[k] /= t /\ pc'[q[k]] = "try"
                            /\ want[q[k]] = m /\ q[k] \notin ready'
                            /\ \A j \in DOMAIN q : q[k] = q[j] => k = j
    <3>1. \A k \in DOMAIN q : q[k] \in Task
      BY <2>2
    <3>2. \A k \in DOMAIN q : /\ pc[q[k]] = "try" /\ want[q[k]] = m /\ q[k] \notin ready
                              /\ \A j \in DOMAIN q : q[k] = q[j] => k = j
      BY DEF Lists
    <3>3. \A u \in Task : u /= t => pc'[u] = pc[u]
      BY <2>1 DEF TypeOK
    <3> HIDE DEF q
    <3> QED BY <2>1, <3>1, <3>2, <3>3
  <2>4. pc'[t] = "try" /\ t \notin ready'
    BY <2>1 DEF TypeOK
  <2>5. r = IF m = l THEN Inserted(q, t) ELSE q
    BY <2>1 DEF TypeOK
  <2> HIDE DEF q, r
  <2>6. CASE m /= l
    BY <2>3, <2>5, <2>6 DEF r
  <2>7. CASE m = l
    <3>1. PICK n \in 0 .. Len(q) :
            /\ DOMAIN r = 1 .. Len(q) + 1
            /\ \A k \in 1 .. Len(q) + 1 :
                 r[k] = IF k <= n THEN q[k] ELSE IF k = n + 1 THEN t ELSE q[k - 1]
      <4>1. \E n \in 0 .. Len(q) :
              /\ DOMAIN Inserted(q, t) = 1 .. Len(q) + 1
              /\ \A k \in 1 .. Len(q) + 1 :
                   Inserted(q, t)[k] = IF k <= n THEN q[k] ELSE IF k = n + 1 THEN t ELSE q[k - 1]
        BY <2>2, InsertedWhere
      <4> QED BY <2>5, <2>7, <4>1
    <3> DEFINE At(k) == IF k <= n THEN k ELSE k - 1
    <3>2. Len(q) \in Nat /\ DOMAIN q = 1 .. Len(q)
      BY <2>2
    <3>3. \A k \in DOMAIN r : k /= n + 1 => At(k) \in DOMAIN q /\ r[k] = q[At(k)]
      BY <3>1, <3>2
    <3>4. \A k \in DOMAIN r, j \in DOMAIN r : k /= n + 1 /\ j /= n + 1 /\ At(k) = At(j) => k = j
      BY <3>1, <3>2
    <3>5. r[n + 1] = t
      BY <3>1, <3>2
    <3> HIDE DEF At
    <3>6. \A k \in DOMAIN r : k /= n + 1 => r[k] /= t
      BY <2>3, <3>3
    <3>7. CASE i = n + 1
      BY <2>4, <2>7, <3>5, <3>6, <3>7 DEF r
    <3>8. CASE i /= n + 1
      BY <2>3, <3>3, <3>4, <3>5, <3>6, <3>8 DEF r
    <3> QED BY <3>7, <3>8
  <2> QED BY <2>6, <2>7
<1>4. ASSUME NEW l \in Mutex, xQueueGenericSend(current, l), UNCHANGED <<pc, want>>
      PROVE  Lists'
  <2>1. CASE waiting[l] = <<>>
    BY <1>4, <2>1 DEF xQueueGenericSend, Lists
  <2>2. CASE waiting[l] /= <<>>
    <3> DEFINE w == Head(waiting[l])
    <3>1. waiting' = [waiting EXCEPT ![l] = Tail(@)] /\ ready' = ready \cup {w}
      BY <1>4, <2>2 DEF xQueueGenericSend
    <3>2. waiting[l] \in Seq(Task)
      BY DEF TypeOK
    <3>3. /\ w = waiting[l][1] /\ 1 \in DOMAIN waiting[l]
          /\ DOMAIN waiting[l] = 1 .. Len(waiting[l]) /\ Len(waiting[l]) \in Nat
          /\ DOMAIN Tail(waiting[l]) = 1 .. Len(waiting[l]) - 1
          /\ \A i \in 1 .. Len(waiting[l]) - 1 : Tail(waiting[l])[i] = waiting[l][i + 1]
      BY <2>2, <3>2, TailWhere
    <3>4. want[w] = l
      BY <3>3 DEF Lists
    <3> HIDE DEF w
    <3> SUFFICES ASSUME NEW m \in Mutex, NEW i \in DOMAIN waiting'[m]
                 PROVE  /\ pc[waiting'[m][i]] = "try" /\ want[waiting'[m][i]] = m
                        /\ waiting'[m][i] \notin ready'
                        /\ \A j \in DOMAIN waiting'[m] : waiting'[m][i] = waiting'[m][j] => i = j
      BY <1>4 DEF Lists
    <3>5. CASE m = l
      <4>1. waiting'[m] = Tail(waiting[l])
        BY <3>1, <3>5 DEF TypeOK
      <4>2. \A k \in DOMAIN waiting'[m] : k + 1 \in DOMAIN waiting[l] /\ k + 1 /= 1
                                          /\ waiting'[m][k] = waiting[l][k + 1]
        BY <3>3, <4>1
      <4>3. \A k \in DOMAIN waiting'[m], j \in DOMAIN waiting'[m] : k + 1 = j + 1 => k = j
        BY <3>3, <4>1
      <4> QED BY <3>1, <3>3, <3>5, <4>2, <4>3 DEF Lists
    <3>6. CASE m /= l
      <4>1. waiting'[m] = waiting[m]
        BY <3>1, <3>6 DEF TypeOK
      <4> QED BY <3>1, <3>4, <3>6, <4>1 DEF Lists
    <3> QED BY <3>5, <3>6
  <2> QED BY <2>1, <2>2
<1> QED BY <1>1, <1>2, <1>3, <1>4, Moves

\* A task on its way to a free mutex stays on its way until it has it.
LEMMA ClaimantStays ==
    ASSUME TypeOK, InCall, Ownership, Next,
           NEW u \in ready, pc[u] = "try", avail[want[u]] > 0
    PROVE  Obtain(u) \/ (u \in ready' /\ pc'[u] = "try" /\ want'[u] = want[u])
<1>0. u \in Task
  BY DEF TypeOK
<1>1. CASE TimeSlice
  BY <1>1 DEF TimeSlice, call
<1>2. ASSUME NEW t \in Task, Sleep(t) \/ Awake(t) \/ TakeAgain(t) \/ vTaskPrioritySet(t)
      PROVE  u \in ready' /\ pc'[u] = "try" /\ want'[u] = want[u]
  BY <1>2 DEF Sleep, Awake, TakeAgain, vTaskPrioritySet, Running, sched, call
<1>3. ASSUME NEW t \in Task, Return(t), t /= u
      PROVE  pc'[u] = "try" /\ want'[u] = want[u]
  BY <1>0, <1>3 DEF Return, TypeOK
<1>4. ASSUME NEW t \in Task, Refused(t) \/ Expire(t)
      PROVE  u \in ready' /\ pc'[u] = "try" /\ want'[u] = want[u]
  <2>1. Return(t) /\ ready' = ready /\ (pc[t] = "try" => avail[want[t]] = 0)
    BY <1>4 DEF Refused, Expire, Running, sched
  <2>2. t /= u
    BY <2>1
  <2> QED BY <1>3, <2>1, <2>2
<1>5. ASSUME NEW t \in Task, Take(t) \/ Wait(t) \/ Again(t)
      PROVE  u \in ready' /\ pc'[u] = "try" /\ want'[u] = want[u]
  <2>1. ready' = ready /\ (pc[t] = "try" => avail[want[t]] = 0)
    BY <1>5 DEF Take, Wait, Again, Running, sched
  <2>2. t /= u
    BY <2>1
  <2> QED BY <1>0, <1>5, <2>1, <2>2 DEF Take, Enter, Wait, Again, TypeOK
<1>6. ASSUME NEW t \in Task, Obtain(t), t /= u
      PROVE  u \in ready' /\ pc'[u] = "try" /\ want'[u] = want[u]
  BY <1>3, <1>6 DEF Obtain, sched
<1>7. ASSUME NEW t \in Task, Block(t)
      PROVE  u \in ready' /\ pc'[u] = "try" /\ want'[u] = want[u]
  BY <1>0, <1>7 DEF Block, Running, TypeOK
<1>8. ASSUME NEW t \in Task, NEW m \in Mutex, GiveBack(t, m)
      PROVE  u \in ready' /\ pc'[u] = "try" /\ want'[u] = want[u]
  <2>1. UNCHANGED <<pc, want>> /\ (UNCHANGED sched \/ xQueueGenericSend(t, m))
    BY <1>8, Given DEF call
  <2>2. ready \subseteq ready'
    BY <2>1 DEF sched, xQueueGenericSend
  <2> QED BY <2>1, <2>2
<1> QED BY <1>1, <1>2, <1>4, <1>5, <1>6, <1>7, <1>8 DEF Next, Step

\* A mutex is free because it was and nobody took it, or because it has been
\* given back.
LEMMA FreeMoves ==
    ASSUME TypeOK, InCall, Ownership, Next, NEW m \in Mutex, avail'[m] > 0
    PROVE  \/ avail[m] > 0 /\ \A u \in Task : want[u] = m => ~Obtain(u)
           \/ \E t \in Task : GiveBack(t, m) /\ xQueueGenericSend(t, m)
<1>1. ASSUME NEW t \in Task, Obtain(t)
      PROVE  avail[m] > 0 /\ want[t] /= m
  <2>1. avail' = [avail EXCEPT ![want[t]] = 0]
    BY <1>1, Obtained
  <2>2. avail'[m] = IF m = want[t] THEN 0 ELSE avail[m]
    BY <2>1 DEF TypeOK
  <2> QED BY <2>2
<1>2. CASE UNCHANGED avail
  BY <1>1, <1>2
<1>3. ASSUME NEW t \in Task, NEW l \in Mutex, GiveBack(t, l), xQueueGenericSend(t, l)
      PROVE  m = l \/ UNCHANGED avail[m]
  BY <1>3 DEF xQueueGenericSend, TypeOK
<1>4. ASSUME NEW t \in Task, NEW l \in Mutex, GiveBack(t, l)
      PROVE  UNCHANGED avail \/ xQueueGenericSend(t, l)
  BY <1>4, Given
<1>5. CASE \E t \in Task : TakeAgain(t)
  BY <1>2, <1>5 DEF TakeAgain
<1> QED BY <1>1, <1>2, <1>3, <1>4, <1>5, Steps

\* What is on a waiting list was on it before, in the same order, unless a task
\* has just begun to wait.
Kept ==
    \A m \in Mutex :
        /\ \A i \in DOMAIN waiting'[m] : \E k \in DOMAIN waiting[m] : waiting'[m][i] = waiting[m][k]
        /\ \A i, j \in DOMAIN waiting'[m] : i < j =>
            \E k, l \in DOMAIN waiting[m] :
                k < l /\ waiting'[m][i] = waiting[m][k] /\ waiting'[m][j] = waiting[m][l]

LEMMA ListMoves ==
    ASSUME TypeOK, InCall, Ownership, Next
    PROVE  Kept \/ \E t \in Task : Block(t)
<1>1. ASSUME UNCHANGED waiting
      PROVE  Kept
  BY <1>1 DEF Kept
<1>2. ASSUME NEW t \in Task, Awake(t)
      PROVE  Kept
  <2> SUFFICES ASSUME NEW m \in Mutex
               PROVE  /\ \A i \in DOMAIN waiting'[m] :
                            \E k \in DOMAIN waiting[m] : waiting'[m][i] = waiting[m][k]
                      /\ \A i, j \in DOMAIN waiting'[m] : i < j =>
                            \E k, l \in DOMAIN waiting[m] :
                                k < l /\ waiting'[m][i] = waiting[m][k] /\ waiting'[m][j] = waiting[m][l]
    BY DEF Kept
  <2> DEFINE q == waiting[m]
             r == waiting'[m]
  <2>1. q \in Seq(Task) /\ r = Without(q, t)
    BY <1>2 DEF Awake, TypeOK
  <2> HIDE DEF q, r
  <2>2. CASE r = q
    BY <2>2 DEF q, r
  <2>3. CASE \E n \in 1 .. Len(q) :
                /\ q[n] = t /\ DOMAIN r = 1 .. Len(q) - 1
                /\ \A i \in 1 .. Len(q) - 1 : r[i] = IF i < n THEN q[i] ELSE q[i + 1]
    <3>1. PICK n \in 1 .. Len(q) :
                /\ DOMAIN r = 1 .. Len(q) - 1
                /\ \A i \in 1 .. Len(q) - 1 : r[i] = IF i < n THEN q[i] ELSE q[i + 1]
      BY <2>3
    <3> DEFINE At(i) == IF i < n THEN i ELSE i + 1
    <3>2. Len(q) \in Nat /\ DOMAIN q = 1 .. Len(q)
      BY <2>1
    <3>3. \A i \in DOMAIN r : At(i) \in DOMAIN q /\ r[i] = q[At(i)]
      BY <3>1, <3>2
    <3>4. \A i, j \in DOMAIN r : i < j => At(i) < At(j)
      BY <3>1, <3>2
    <3> HIDE DEF At
    <3> QED BY <3>3, <3>4 DEF q, r
  <2>4. \/ Without(q, t) = q
        \/ \E n \in 1 .. Len(q) :
                /\ q[n] = t /\ DOMAIN Without(q, t) = 1 .. Len(q) - 1
                /\ \A i \in 1 .. Len(q) - 1 : Without(q, t)[i] = IF i < n THEN q[i] ELSE q[i + 1]
    BY <2>1, WithoutWhere
  <2> QED BY <2>1, <2>2, <2>3, <2>4
<1>3. ASSUME NEW l \in Mutex, xQueueGenericSend(current, l)
      PROVE  Kept
  <2>1. CASE waiting[l] = <<>>
    <3>1. UNCHANGED waiting
      BY <1>3, <2>1, Zenon DEF xQueueGenericSend
    <3> QED BY <1>1, <3>1
  <2>2. CASE waiting[l] /= <<>>
    <3>1. waiting' = [waiting EXCEPT ![l] = Tail(@)]
      BY <1>3, <2>2 DEF xQueueGenericSend
    <3>2. waiting[l] \in Seq(Task)
      BY DEF TypeOK
    <3>3. /\ DOMAIN waiting[l] = 1 .. Len(waiting[l]) /\ Len(waiting[l]) \in Nat
          /\ DOMAIN Tail(waiting[l]) = 1 .. Len(waiting[l]) - 1
          /\ \A i \in 1 .. Len(waiting[l]) - 1 : Tail(waiting[l])[i] = waiting[l][i + 1]
      BY <2>2, <3>2, TailWhere
    <3>4. \A m \in Mutex : waiting'[m] = IF m = l THEN Tail(waiting[l]) ELSE waiting[m]
      BY <3>1 DEF TypeOK
    <3>5. waiting'[l] = Tail(waiting[l])
      BY <3>4
    <3>6. \A i \in DOMAIN waiting'[l] : i + 1 \in DOMAIN waiting[l] /\ waiting'[l][i] = waiting[l][i + 1]
      BY <3>3, <3>5
    <3>7. \A i, j \in DOMAIN waiting'[l] : i < j => i + 1 < j + 1
      BY <3>3, <3>5
    <3> QED BY <3>4, <3>6, <3>7 DEF Kept
  <2> QED BY <2>1, <2>2
<1> QED BY <1>1, <1>2, <1>3, Moves

\* A task that begins to wait is on a list the holder of the mutex has not given
\* back.
LEMMA Blocked ==
    ASSUME TypeOK, InCall, NEW t \in Task, Block(t)
    PROVE  /\ want[t] \in Mutex /\ avail[want[t]] = 0 /\ t = current /\ pc[t] = "block"
           /\ vTaskPriorityInherit(holder[want[t]], t)
           /\ \A m \in Mutex : waiting'[m] = IF m = want[t] THEN Inserted(waiting[m], t) ELSE waiting[m]
           /\ UNCHANGED <<base, want, held, avail, holder, depth, history>>
<1>1. want[t] \in Mutex /\ t = current /\ pc[t] = "block"
  BY DEF Block, Running, InCall
<1>2. /\ avail[want[t]] = 0 /\ vTaskPriorityInherit(holder[want[t]], t)
      /\ waiting' = [waiting EXCEPT ![want[t]] = Inserted(@, t)]
      /\ UNCHANGED <<base, want, held, avail, holder, depth, history>>
  BY DEF Block
<1>3. \A m \in Mutex : waiting'[m] = IF m = want[t] THEN Inserted(waiting[m], t) ELSE waiting[m]
  BY <1>1, <1>2 DEF TypeOK
<1> QED BY <1>1, <1>2, <1>3

LEMMA ClaimsStep ==
    ASSUME TypeOK, InCall, Ownership, Counts, Lists, Claims, Next
    PROVE  Claims'
<1> SUFFICES ASSUME NEW m \in Mutex, avail'[m] > 0, waiting'[m] /= <<>>
             PROVE  \E u \in ready' : want'[u] = m /\ pc'[u] = "try"
  BY DEF Claims
<1>1. CASE avail[m] > 0 /\ \A u \in Task : want[u] = m => ~Obtain(u)
  <2>1. waiting[m] /= <<>>
    <3>1. waiting[m] \in Seq(Task) /\ waiting'[m] \in Seq(Task)
      BY TypeStep DEF TypeOK
    <3>2. CASE Kept
      <4>1. 1 \in DOMAIN waiting'[m]
        BY <3>1
      <4>2. DOMAIN waiting[m] /= {}
        BY <3>2, <4>1 DEF Kept
      <4> QED BY <4>2
    <3>3. ASSUME NEW t \in Task, Block(t)
          PROVE  waiting[m] /= <<>>
      BY <1>1, <3>3, Blocked
    <3> QED BY <3>2, <3>3, ListMoves
  <2>2. PICK u \in ready : want[u] = m /\ pc[u] = "try"
    BY <1>1, <2>1 DEF Claims
  <2> QED BY <1>1, <2>2, ClaimantStays DEF TypeOK
<1>2. ASSUME NEW t \in Task, GiveBack(t, m), xQueueGenericSend(t, m)
      PROVE  \E u \in ready' : want'[u] = m /\ pc'[u] = "try"
  <2>1. UNCHANGED <<pc, want>>
    BY <1>2, Given DEF call
  <2>2. waiting[m] /= <<>> /\ waiting[m] \in Seq(Task)
    BY <1>2 DEF xQueueGenericSend, TypeOK
  <2>3. Head(waiting[m]) = waiting[m][1] /\ 1 \in DOMAIN waiting[m]
    BY <2>2, TailWhere
  <2>4. Head(waiting[m]) \in ready'
    BY <1>2, <2>2 DEF xQueueGenericSend
  <2> QED BY <2>1, <2>3, <2>4 DEF Lists
<1> QED BY <1>1, <1>2, FreeMoves

-----------------------------------------------------------------------------
(* Who runs *)

LEMMA HighestStep ==
    ASSUME TypeOK, InCall, Ownership, HighestRuns, Next
    PROVE  HighestRuns'
<1>1. ASSUME current' \in Top(ready', prio')
      PROVE  HighestRuns'
  BY <1>1 DEF HighestRuns, Top
<1>2. CASE UNCHANGED <<current, ready, prio, overlooked>>
  BY <1>2 DEF HighestRuns
<1>3. ASSUME NEW u \in Task
      PROVE  prio[u] \in Nat /\ base[u] \in Nat
  <2>1. prio[u] \in Priority /\ base[u] \in Priority
    BY DEF TypeOK
  <2> QED BY <2>1, NumberedPriorities
<1>4. CASE TimeSlice
  BY <1>1, <1>4 DEF TimeSlice, Yield
<1>5. ASSUME NEW t \in Task, Sleep(t) \/ Block(t)
      PROVE  HighestRuns'
  BY <1>1, <1>5 DEF Sleep, Block, Yield
<1>6. ASSUME NEW t \in Task, Awake(t)
      PROVE  HighestRuns'
  <2>1. ready' = ready \cup {t} /\ UNCHANGED <<prio, overlooked>>
        /\ Yield(prio[t] >= prio[current] \/ \E u \in ready \ {current} : prio[u] = prio[current])
    BY <1>6 DEF Awake, priorities, history
  <2>2. CASE prio[t] >= prio[current] \/ \E u \in ready \ {current} : prio[u] = prio[current]
    BY <1>1, <2>1, <2>2 DEF Yield
  <2>3. CASE ~(prio[t] >= prio[current] \/ \E u \in ready \ {current} : prio[u] = prio[current])
    <3>1. current' = current /\ prio[t] <= prio[current]
      BY <1>3, <2>1, <2>3 DEF Yield, TypeOK
    <3> QED BY <2>1, <3>1 DEF HighestRuns
  <2> QED BY <2>2, <2>3
<1>7. ASSUME NEW t \in Task, vTaskPrioritySet(t)
      PROVE  HighestRuns'
  <2>1. PICK u \in Settable, p \in Priority :
            /\ p /= base[u]
            /\ prio' = IF base[u] = prio[u] THEN [prio EXCEPT ![u] = p] ELSE prio
            /\ UNCHANGED <<ready, overlooked>> /\ current = t
            /\ Yield(IF p > base[u] THEN u /= t /\ p >= prio[t] ELSE u = t)
    BY <1>7 DEF vTaskPrioritySet, Running
  <2>2. u \in Task /\ p \in Nat
    BY MutexAssumption, NumberedPriorities DEF Worker
  <2>3. CASE IF p > base[u] THEN u /= t /\ p >= prio[t] ELSE u = t
    BY <1>1, <2>1, <2>3 DEF Yield
  <2>4. CASE ~(IF p > base[u] THEN u /= t /\ p >= prio[t] ELSE u = t)
    <3>1. current' = current
      BY <2>1, <2>4 DEF Yield
    <3>2. CASE base[u] /= prio[u]
      BY <2>1, <3>1, <3>2 DEF HighestRuns
    <3>3. CASE base[u] = prio[u]
      <4>1. prio' = [prio EXCEPT ![u] = p] /\ prio[u] = base[u]
        BY <2>1, <3>3
      <4>2. overlooked \/ \A v \in ready : prio[v] <= prio[t]
        BY <2>1 DEF HighestRuns
      <4>3. IF p > base[u] THEN u = t \/ p < prio[t] ELSE u /= t /\ p < prio[u]
        BY <1>3, <2>1, <2>2, <2>4, <4>1
      <4>4. ASSUME ~overlooked, NEW v \in ready
            PROVE  prio'[v] <= prio'[t]
        <5>1. v \in Task /\ prio[v] <= prio[t] /\ prio[v] \in Nat /\ prio[t] \in Nat
          BY <1>3, <4>2, <4>4 DEF TypeOK
        <5>2. prio'[v] = IF v = u THEN p ELSE prio[v]
          BY <4>1, <5>1 DEF TypeOK
        <5>3. prio'[t] = IF t = u THEN p ELSE prio[t]
          BY <4>1 DEF TypeOK
        <5> QED BY <2>2, <4>1, <4>3, <5>1, <5>2, <5>3
      <4> QED BY <2>1, <3>1, <4>4 DEF HighestRuns
    <3> QED BY <3>2, <3>3
  <2> QED BY <2>3, <2>4
<1>8. ASSUME NEW t \in Task, NEW m \in Mutex, GiveBack(t, m)
      PROVE  HighestRuns'
  <2>1. current = t /\ (UNCHANGED <<sched, priorities, overlooked>> \/ xQueueGenericSend(t, m))
    BY <1>8, Given
  <2>2. CASE UNCHANGED <<sched, priorities, overlooked>>
    BY <1>2, <2>2 DEF sched, priorities
  <2>3. CASE xQueueGenericSend(t, m) /\ waiting[m] = <<>>
    <3>1. UNCHANGED <<ready, overlooked>> /\ Yield(prio' /= prio)
      BY <2>3 DEF xQueueGenericSend
    <3> QED BY <1>1, <1>2, <3>1 DEF Yield
  <2>4. CASE xQueueGenericSend(t, m) /\ waiting[m] /= <<>>
    <3> DEFINE w == Head(waiting[m])
    <3>1. /\ ready' = ready \cup {w} /\ Yield(prio[w] > prio'[t])
          /\ overlooked' = (overlooked \/ (prio' /= prio /\ prio[w] <= prio'[t]))
      BY <2>4 DEF xQueueGenericSend
    <3>2. w \in Task
      BY <2>4, TailWhere DEF TypeOK
    <3> HIDE DEF w
    <3>3. CASE prio[w] > prio'[t]
      BY <1>1, <3>1, <3>3 DEF Yield
    <3>4. CASE ~(prio[w] > prio'[t])
      <4>1. current' = current
        BY <3>1, <3>4 DEF Yield
      <4>2. CASE prio' = prio
        <5>1. prio[w] <= prio[t]
          BY <1>3, <3>2, <3>4, <4>2
        <5> QED BY <2>1, <3>1, <4>1, <4>2, <5>1 DEF HighestRuns
      <4>3. CASE prio' /= prio
        <5>1. prio'[t] \in Nat
          <6>1. prio'[t] = base[t] \/ prio'[t] = prio[t]
            BY <2>4 DEF xQueueGenericSend, xTaskPriorityDisinherit, TypeOK
          <6> QED BY <1>3, <6>1
        <5>2. prio[w] <= prio'[t]
          BY <1>3, <3>2, <3>4, <5>1
        <5> QED BY <3>1, <4>3, <5>2 DEF HighestRuns
      <4> QED BY <4>2, <4>3
    <3> QED BY <3>3, <3>4
  <2> QED BY <2>1, <2>2, <2>3, <2>4
<1>9. \/ UNCHANGED <<current, ready, prio, overlooked>> \/ TimeSlice
      \/ \E t \in Task : Sleep(t) \/ Block(t) \/ Awake(t) \/ vTaskPrioritySet(t)
      \/ \E t \in Task, m \in Mutex : GiveBack(t, m)
  BY DEF Next, Step, Take, TakeAgain, Obtain, Refused, Wait, Expire, Again, sched, priorities, history
<1> QED BY <1>2, <1>4, <1>5, <1>6, <1>7, <1>8, <1>9

-----------------------------------------------------------------------------
(* What a holder has of the tasks that wait *)

LEMMA Numbers ==
    ASSUME TypeOK, NEW t \in Task
    PROVE  prio[t] \in Nat /\ base[t] \in Nat
<1>1. prio[t] \in Priority /\ base[t] \in Priority
  BY DEF TypeOK
<1> QED BY <1>1, NumberedPriorities

\* A priority falls only where a task gives back the last mutex it holds.
LEMMA PriorityMoves ==
    ASSUME TypeOK, InCall, Ownership, Counts, Raised, Next, changed' = {}
    PROVE  /\ changed = {} /\ base' = base /\ (overlooked => overlooked')
           /\ Raised'
           /\ \A u \in Task :
                \/ prio'[u] >= prio[u]
                \/ u = current /\ pc[u] = "app" /\ \A m \in Mutex : holder'[m] /= u
<1>0. \A u \in Task : prio[u] \in Nat /\ base[u] \in Nat
  BY Numbers
<1>1. CASE UNCHANGED <<prio, base, listed, changed, overlooked>>
  BY <1>0, <1>1 DEF Raised
<1>2. ASSUME NEW t \in Task, Block(t)
      PROVE  /\ UNCHANGED <<base, changed, overlooked>> /\ Raised'
             /\ \A u \in Task : prio'[u] >= prio[u]
  <2> DEFINE h == holder[want[t]]
  <2>1. /\ UNCHANGED <<base, changed, overlooked>> /\ want[t] \in Mutex
        /\ vTaskPriorityInherit(h, t)
    BY <1>2, Blocked DEF history
  <2>2. h = None \/ h \in Task
    BY <2>1 DEF TypeOK
  <2> HIDE DEF h
  <2>3. CASE h /= None /\ prio[h] < prio[t]
    <3>1. prio' = [prio EXCEPT ![h] = prio[t]] /\ listed' = [listed EXCEPT ![h] = prio[t]]
      BY <2>1, <2>3 DEF vTaskPriorityInherit
    <3>2. \A u \in Task : prio'[u] = IF u = h THEN prio[t] ELSE prio[u]
      BY <3>1 DEF TypeOK
    <3>3. \A u \in Task : prio'[u] >= prio[u]
      BY <1>0, <2>3, <3>2
    <3>4. \A u \in Task : prio'[u] \in Nat
      BY <1>0, <3>2
    <3>5. listed = prio => listed' = prio'
      BY <3>1
    <3>6. \A u \in Task : prio[u] >= base[u] => prio'[u] >= base[u]
      BY <1>0, <3>3, <3>4
    <3> QED BY <2>1, <3>3, <3>5, <3>6 DEF Raised
  <2>4. CASE ~(h /= None /\ prio[h] < prio[t])
    <3>1. prio' = prio /\ listed' = listed
      BY <2>1, <2>4 DEF vTaskPriorityInherit
    <3> QED BY <1>0, <2>1, <3>1 DEF Raised
  <2> QED BY <2>3, <2>4
<1>3. ASSUME NEW t \in Task, vTaskPrioritySet(t)
      PROVE  FALSE
  BY <1>3 DEF vTaskPrioritySet
<1>4. ASSUME NEW t \in Task, NEW m \in Mutex, GiveBack(t, m)
      PROVE  /\ UNCHANGED <<base, changed>> /\ (overlooked => overlooked') /\ Raised'
             /\ \A u \in Task :
                  \/ prio'[u] >= prio[u]
                  \/ u = current /\ pc[u] = "app" /\ \A l \in Mutex : holder'[l] /= u
  <2>1. /\ current = t /\ pc[t] = "app" /\ holder[m] = t /\ changed' = changed
        /\ UNCHANGED <<priorities, overlooked>> \/ xQueueGenericSend(t, m)
    BY <1>4, Given
  <2>2. CASE UNCHANGED <<priorities, overlooked>>
    BY <1>0, <2>1, <2>2 DEF priorities, Raised
  <2>3. CASE xQueueGenericSend(t, m)
    <3>1. /\ base' = base /\ holder' = [holder EXCEPT ![m] = None] /\ xTaskPriorityDisinherit(t)
          /\ overlooked => overlooked'
      BY <2>3 DEF xQueueGenericSend
    <3>2. CASE prio[t] /= base[t] /\ held[t] = 1
      <4>1. prio' = [prio EXCEPT ![t] = base[t]] /\ listed' = [listed EXCEPT ![t] = base[t]]
        BY <3>1, <3>2 DEF xTaskPriorityDisinherit
      <4>2. HeldBy(t) = {m}
        BY <2>1, <3>2, HolderCounted
      <4>3. ASSUME NEW l \in Mutex
            PROVE  holder'[l] /= t
        <5>1. CASE l = m
          <6>1. holder \in [Mutex -> Task \cup {None}]
            BY <1>0 DEF TypeOK
          <6>2. holder'[m] = None
            BY <3>1, <6>1
          <6> QED BY <5>1, <6>2, MutexAssumption
        <5>2. CASE l /= m
          <6>1. holder'[l] = holder[l]
            BY <1>0, <3>1, <5>2 DEF TypeOK
          <6>2. holder[l] /= t
            BY <4>2, <5>2 DEF HeldBy
          <6> QED BY <6>1, <6>2
        <5> QED BY <5>1, <5>2
      <4>4. \A u \in Task : prio'[u] = IF u = t THEN base[t] ELSE prio[u]
        BY <4>1 DEF TypeOK
      <4>5. Raised'
        BY <1>0, <2>1, <3>1, <4>1, <4>4 DEF Raised
      <4> QED BY <1>0, <2>1, <3>1, <4>3, <4>4, <4>5
    <3>3. CASE ~(prio[t] /= base[t] /\ held[t] = 1)
      <4>1. prio' = prio /\ listed' = listed
        BY <3>1, <3>3 DEF xTaskPriorityDisinherit
      <4> QED BY <1>0, <2>1, <3>1, <4>1 DEF Raised
    <3> QED BY <3>2, <3>3
  <2> QED BY <2>1, <2>2, <2>3
<1>5. \/ UNCHANGED <<prio, base, listed, changed, overlooked>>
      \/ \E t \in Task : Block(t) \/ vTaskPrioritySet(t)
      \/ \E t \in Task, m \in Mutex : GiveBack(t, m)
  <2>1. TimeSlice => UNCHANGED <<priorities, history>>
    BY DEF TimeSlice
  <2>2. \A t \in Task : Sleep(t) \/ Awake(t) \/ Take(t) => UNCHANGED <<priorities, history>>
    BY DEF Sleep, Awake, Take
  <2>3. \A t \in Task : Refused(t) \/ Wait(t) \/ Expire(t) \/ Again(t) => UNCHANGED <<priorities, history>>
    BY DEF Refused, Wait, Expire, Again
  <2>4. \A t \in Task : TakeAgain(t) \/ Obtain(t) => UNCHANGED <<prio, base, listed, changed, overlooked>>
    BY DEF TakeAgain, Obtain, priorities
  <2> QED BY <2>1, <2>2, <2>3, <2>4 DEF Next, Step, priorities, history
<1>6. changed = {}
  BY <1>1, <1>2, <1>3, <1>4, <1>5
<1> QED BY <1>1, <1>2, <1>3, <1>4, <1>5, <1>6

\* A task that waits keeps its priority, or is raised.
LEMMA WaiterKeeps ==
    ASSUME TypeOK, TypeOK', InCall, Ownership, Counts, Raised, Next, changed' = {},
           NEW u \in Task, u \notin ready \/ pc[u] /= "app", NEW v \in Task, prio[u] >= base[v]
    PROVE  prio'[u] >= base'[v]
<1>1. prio'[u] >= prio[u] /\ base' = base
  BY PriorityMoves DEF TypeOK
<1>2. prio[u] \in Nat /\ base[v] \in Nat /\ prio'[u] \in Nat
  <2>1. prio'[u] \in Priority
    BY DEF TypeOK
  <2> QED BY <2>1, Numbers, NumberedPriorities
<1> QED BY <1>1, <1>2

LEMMA OrderedStep ==
    ASSUME TypeOK, TypeOK', InCall, Ownership, Counts, Lists, Raised, Ordered, Next
    PROVE  Ordered'
<1> SUFFICES ASSUME changed' = {}, NEW m \in Mutex, NEW i \in DOMAIN waiting'[m],
                    NEW j \in DOMAIN waiting'[m], i < j
             PROVE  prio'[waiting'[m][i]] >= base'[waiting'[m][j]]
  BY DEF Ordered
<1>1. changed = {} /\ base' = base
  BY PriorityMoves
<1>2. \A k \in DOMAIN waiting[m] : waiting[m][k] \in Task /\ waiting[m][k] \notin ready
  BY DEF TypeOK, Lists
<1>3. ASSUME NEW k \in DOMAIN waiting[m], NEW l \in DOMAIN waiting[m], k < l
      PROVE  prio'[waiting[m][k]] >= base'[waiting[m][l]]
  <2>1. prio[waiting[m][k]] >= base[waiting[m][l]]
    BY <1>1, <1>3 DEF Ordered
  <2> QED BY <1>2, <2>1, WaiterKeeps
<1>4. CASE Kept
  <2>1. PICK k, l \in DOMAIN waiting[m] :
            k < l /\ waiting'[m][i] = waiting[m][k] /\ waiting'[m][j] = waiting[m][l]
    BY <1>4 DEF Kept
  <2> QED BY <1>3, <2>1
<1>5. ASSUME NEW t \in Task, Block(t)
      PROVE  prio'[waiting'[m][i]] >= base'[waiting'[m][j]]
  <2> DEFINE q == waiting[m]
             r == waiting'[m]
  <2>1. t = current /\ pc[t] = "block" /\ r = IF m = want[t] THEN Inserted(q, t) ELSE q
    BY <1>5, Blocked
  <2>2. CASE m /= want[t]
    BY <1>3, <2>1, <2>2
  <2>3. CASE m = want[t]
    <3>0. q \in Seq(Task) /\ Len(q) \in Nat /\ DOMAIN q = 1 .. Len(q)
      BY DEF TypeOK
    <3>1. \E n \in 0 .. Len(q) :
            /\ DOMAIN Inserted(q, t) = 1 .. Len(q) + 1
            /\ \A k \in 1 .. Len(q) + 1 :
                 Inserted(q, t)[k] = IF k <= n THEN q[k] ELSE IF k = n + 1 THEN t ELSE q[k - 1]
            /\ \A k \in 1 .. n : listed[q[k]] >= listed[t]
            /\ n < Len(q) => ~(listed[q[n + 1]] >= listed[t])
      BY <3>0, InsertedWhere
    <3> HIDE DEF q
    <3>2. r = Inserted(q, t)
      BY <2>1, <2>3 DEF q
    <3> HIDE DEF r
    <3>3. PICK n \in 0 .. Len(q) :
            /\ DOMAIN r = 1 .. Len(q) + 1
            /\ \A k \in 1 .. Len(q) + 1 :
                 r[k] = IF k <= n THEN q[k] ELSE IF k = n + 1 THEN t ELSE q[k - 1]
            /\ \A k \in 1 .. n : listed[q[k]] >= listed[t]
            /\ n < Len(q) => ~(listed[q[n + 1]] >= listed[t])
      BY <3>1, <3>2
    <3>4. listed = prio /\ \A u \in Task : prio[u] >= base[u]
      BY <1>1 DEF Raised
    <3>5. \A k \in DOMAIN q : q[k] \in Task /\ q[k] \notin ready
      BY <1>2 DEF q
    <3>6. i \in 1 .. Len(q) + 1 /\ j \in 1 .. Len(q) + 1
      BY <3>3 DEF r
    <3>7. \A k, l \in DOMAIN q : k < l => prio'[q[k]] >= base'[q[l]]
      BY <1>3 DEF q
    <3>8. prio'[r[i]] >= base'[r[j]]
      <4>1. CASE i /= n + 1 /\ j /= n + 1
        <5> DEFINE At(k) == IF k <= n THEN k ELSE k - 1
        <5>1. At(i) \in DOMAIN q /\ At(j) \in DOMAIN q /\ At(i) < At(j)
          BY <3>0, <3>6, <4>1
        <5>2. r[i] = q[At(i)] /\ r[j] = q[At(j)]
          BY <3>3, <3>6, <4>1
        <5> HIDE DEF At
        <5> QED BY <3>7, <5>1, <5>2
      <4>2. CASE j = n + 1
        <5>1. r[j] = t /\ r[i] = q[i] /\ i \in 1 .. n /\ i \in DOMAIN q
          BY <3>0, <3>3, <3>6, <4>2
        <5>2. prio[q[i]] >= prio[t] /\ prio[t] >= base[t] /\ q[i] \in Task /\ q[i] \notin ready
          BY <3>3, <3>4, <3>5, <5>1
        <5>3. prio[q[i]] >= base[t]
          BY <5>2, Numbers
        <5> QED BY <5>1, <5>2, <5>3, WaiterKeeps
      <4>3. CASE i = n + 1
        <5>1. r[i] = t /\ r[j] = q[j - 1] /\ j - 1 \in DOMAIN q /\ n < Len(q) /\ n + 1 \in DOMAIN q
          BY <3>0, <3>3, <3>6, <4>3
        <5>2. ~(prio[q[n + 1]] >= prio[t]) /\ q[n + 1] \in Task /\ q[j - 1] \in Task
          BY <3>3, <3>4, <3>5, <5>1
        <5>3. prio[q[n + 1]] >= base[q[j - 1]]
          <6>1. CASE j - 1 = n + 1
            BY <3>4, <5>2, <6>1
          <6>2. CASE j - 1 /= n + 1
            <7>1. n + 1 < j - 1
              BY <3>6, <4>3, <6>2
            <7> QED BY <1>1, <5>1, <7>1 DEF Ordered, q
          <6> QED BY <6>1, <6>2
        <5>4. prio[t] >= base[q[j - 1]]
          BY <5>2, <5>3, Numbers
        <5> QED BY <2>1, <5>1, <5>2, <5>4, WaiterKeeps
      <4> QED BY <4>1, <4>2, <4>3
    <3> QED BY <3>8 DEF r
  <2> QED BY <2>2, <2>3
<1> QED BY <1>4, <1>5, ListMoves

LEMMA PromisedStep ==
    ASSUME TypeOK, TypeOK', InCall, Ownership, Counts, Lists, Raised, Ordered, Promised, Next
    PROVE  Promised'
<1> SUFFICES ASSUME changed' = {}, NEW m \in Mutex, avail'[m] > 0, waiting'[m] /= <<>>
             PROVE  \E u \in ready' :
                        /\ want'[u] = m /\ pc'[u] = "try"
                        /\ \A i \in DOMAIN waiting'[m] : prio'[u] >= base'[waiting'[m][i]]
  BY DEF Promised
<1>0. changed = {} /\ base' = base
  BY PriorityMoves
<1>1. \A k \in DOMAIN waiting[m] : waiting[m][k] \in Task
  BY DEF TypeOK
<1>2. CASE avail[m] > 0 /\ \A u \in Task : want[u] = m => ~Obtain(u)
  <2>1. \A i \in DOMAIN waiting'[m] : \E k \in DOMAIN waiting[m] : waiting'[m][i] = waiting[m][k]
    <3>1. ASSUME NEW t \in Task, Block(t)
          PROVE  waiting'[m] = waiting[m]
      BY <1>2, <3>1, Blocked
    <3> QED BY <3>1, ListMoves DEF Kept
  <2>2. waiting[m] /= <<>>
    <3>1. waiting'[m] \in Seq(Task)
      BY DEF TypeOK
    <3>2. 1 \in DOMAIN waiting'[m]
      BY <3>1
    <3>3. DOMAIN waiting[m] /= {}
      BY <2>1, <3>2
    <3> QED BY <3>3
  <2>3. PICK u \in ready : /\ want[u] = m /\ pc[u] = "try"
                           /\ \A i \in DOMAIN waiting[m] : prio[u] >= base[waiting[m][i]]
    BY <1>0, <1>2, <2>2 DEF Promised
  <2>4. u \in Task
    BY DEF TypeOK
  <2>5. u \in ready' /\ want'[u] = m /\ pc'[u] = "try"
    BY <1>2, <2>3, <2>4, ClaimantStays
  <2>6. \A k \in DOMAIN waiting[m] : prio'[u] >= base'[waiting[m][k]]
    BY <1>1, <2>3, <2>4, WaiterKeeps
  <2> QED BY <2>1, <2>5, <2>6
<1>3. ASSUME NEW t \in Task, GiveBack(t, m), xQueueGenericSend(t, m)
      PROVE  \E u \in ready' :
                /\ want'[u] = m /\ pc'[u] = "try"
                /\ \A i \in DOMAIN waiting'[m] : prio'[u] >= base'[waiting'[m][i]]
  <2>1. UNCHANGED <<pc, want>>
    BY <1>3, Given DEF call
  <2>2. waiting[m] /= <<>> /\ waiting[m] \in Seq(Task)
    BY <1>3 DEF xQueueGenericSend, TypeOK
  <2> DEFINE w == Head(waiting[m])
  <2>3. /\ w = waiting[m][1] /\ 1 \in DOMAIN waiting[m] /\ w \in Task
        /\ DOMAIN waiting[m] = 1 .. Len(waiting[m])
        /\ DOMAIN Tail(waiting[m]) = 1 .. Len(waiting[m]) - 1
        /\ \A i \in 1 .. Len(waiting[m]) - 1 : Tail(waiting[m])[i] = waiting[m][i + 1]
    BY <2>2, TailWhere
  <2>4. w \in ready' /\ waiting'[m] = Tail(waiting[m])
    <3>1. w \in ready' /\ waiting' = [waiting EXCEPT ![m] = Tail(@)]
      BY <1>3, <2>2 DEF xQueueGenericSend
    <3> QED BY <3>1 DEF TypeOK
  <2>5. Len(waiting[m]) \in Nat
    BY <2>2
  <2> HIDE DEF w
  <2>6. want[w] = m /\ pc[w] = "try"
    BY <2>3 DEF Lists
  <2>7. ASSUME NEW i \in DOMAIN waiting'[m]
        PROVE  prio'[w] >= base'[waiting'[m][i]]
    <3>1. i + 1 \in DOMAIN waiting[m] /\ 1 < i + 1 /\ waiting'[m][i] = waiting[m][i + 1]
      BY <2>3, <2>4, <2>5
    <3>2. prio[w] >= base[waiting[m][i + 1]]
      BY <1>0, <2>3, <3>1 DEF Ordered
    <3> QED BY <1>1, <2>3, <2>6, <3>1, <3>2, WaiterKeeps
  <2> QED BY <2>1, <2>4, <2>6, <2>7
<1> QED BY <1>2, <1>3, FreeMoves

LEMMA HolderStep ==
    ASSUME TypeOK, TypeOK', InCall, Ownership, Counts, Lists, HighestRuns, Raised, Promised,
           HolderIsBoosted, Next
    PROVE  HolderIsBoosted'
<1> SUFFICES ASSUME NEW m \in Mutex, NEW t \in Task, OnList(t, m)', holder'[m] /= None,
                    changed' = {}, ~overlooked'
             PROVE  prio'[holder'[m]] >= base'[t]
  BY DEF HolderIsBoosted
<1>0. changed = {} /\ base' = base /\ ~overlooked /\ holder'[m] \in Task
  <2>1. changed = {} /\ base' = base /\ (overlooked => overlooked')
    BY PriorityMoves
  <2>2. holder'[m] \in Task
    BY DEF TypeOK
  <2> QED BY <2>1, <2>2, Zenon
<1>1. OnList(t, m) \/ (Block(t) /\ want[t] = m)
  <2>1. PICK i \in DOMAIN waiting'[m] : waiting'[m][i] = t
    BY DEF OnList
  <2>2. CASE Kept
    BY <2>1, <2>2 DEF Kept, OnList
  <2>3. ASSUME NEW u \in Task, Block(u)
        PROVE  OnList(t, m) \/ (Block(t) /\ want[t] = m)
    <3>1. waiting'[m] = IF m = want[u] THEN Inserted(waiting[m], u) ELSE waiting[m]
      BY <2>3, Blocked
    <3>2. CASE m = want[u]
      <4>1. waiting[m] \in Seq(Task)
        BY DEF TypeOK
      <4>2. PICK n \in 0 .. Len(waiting[m]) :
                /\ DOMAIN Inserted(waiting[m], u) = 1 .. Len(waiting[m]) + 1
                /\ \A k \in 1 .. Len(waiting[m]) + 1 :
                     Inserted(waiting[m], u)[k] =
                        IF k <= n THEN waiting[m][k] ELSE IF k = n + 1 THEN u ELSE waiting[m][k - 1]
        <5> DEFINE q == waiting[m]
        <5>1. q \in Seq(Task)
          BY <4>1
        <5> HIDE DEF q
        <5>2. \E n \in 0 .. Len(q) :
                /\ DOMAIN Inserted(q, u) = 1 .. Len(q) + 1
                /\ \A k \in 1 .. Len(q) + 1 :
                     Inserted(q, u)[k] = IF k <= n THEN q[k] ELSE IF k = n + 1 THEN u ELSE q[k - 1]
          BY <5>1, InsertedWhere
        <5> QED BY <5>2 DEF q
      <4>3. DOMAIN waiting[m] = 1 .. Len(waiting[m]) /\ Len(waiting[m]) \in Nat
        BY <4>1
      <4>4. i \in 1 .. Len(waiting[m]) + 1
            /\ t = IF i <= n THEN waiting[m][i] ELSE IF i = n + 1 THEN u ELSE waiting[m][i - 1]
        BY <2>1, <3>1, <3>2, <4>2
      <4>5. CASE i = n + 1
        BY <2>3, <3>2, <4>2, <4>3, <4>4, <4>5
      <4>6. CASE i <= n
        <5>1. i \in DOMAIN waiting[m] /\ waiting[m][i] = t
          BY <4>3, <4>4, <4>6
        <5> QED BY <5>1 DEF OnList
      <4>7. CASE ~(i <= n) /\ i /= n + 1
        <5>1. i - 1 \in DOMAIN waiting[m] /\ waiting[m][i - 1] = t
          BY <4>2, <4>3, <4>4, <4>7
        <5> QED BY <5>1 DEF OnList
      <4> QED BY <4>5, <4>6, <4>7
    <3>3. CASE m /= want[u]
      BY <2>1, <3>1, <3>3 DEF OnList
    <3> QED BY <3>2, <3>3
  <2> QED BY <2>2, <2>3, ListMoves
<1>2. \/ holder'[m] = holder[m]
      \/ \E h \in Task : Obtain(h) /\ want[h] = m /\ holder'[m] = h
  <2>1. ASSUME NEW h \in Task, Obtain(h)
        PROVE  holder'[m] = IF m = want[h] THEN h ELSE holder[m]
    <3>1. holder' = [holder EXCEPT ![want[h]] = h]
      BY <2>1, Obtained
    <3> QED BY <3>1 DEF TypeOK
  <2>2. ASSUME NEW u \in Task, NEW l \in Mutex, GiveBack(u, l)
        PROVE  holder'[m] = holder[m]
    <3>1. UNCHANGED holder \/ holder' = [holder EXCEPT ![l] = None]
      BY <2>2, Given DEF xQueueGenericSend
    <3> QED BY <3>1 DEF TypeOK
  <2>3. (\E u \in Task : TakeAgain(u)) => holder' = holder
    BY DEF TakeAgain
  <2> QED BY <2>1, <2>2, <2>3, Steps
<1>3. ASSUME NEW h \in Task, Obtain(h), want[h] = m, holder'[m] = h
      PROVE  prio'[holder'[m]] >= base'[t]
  <2>1. h = current /\ avail[m] > 0 /\ pc[h] = "try" /\ prio' = prio
    BY <1>3, Obtained DEF Obtain
  <2>2. OnList(t, m)
    BY <1>1, <2>1, Blocked
  <2>3. waiting[m] /= <<>> /\ \E i \in DOMAIN waiting[m] : waiting[m][i] = t
    <3>1. waiting[m] \in Seq(Task)
      BY DEF TypeOK
    <3> QED BY <2>2, <3>1 DEF OnList
  <2>4. PICK u \in ready : prio[u] >= base[t]
    BY <1>0, <2>1, <2>3 DEF Promised
  <2>5. prio[u] <= prio[h] /\ u \in Task
    BY <1>0, <2>1 DEF HighestRuns, TypeOK
  <2>6. prio[h] >= base[t]
    BY <2>4, <2>5, Numbers
  <2> QED BY <1>0, <1>3, <2>1, <2>6
<1>4. CASE holder'[m] = holder[m]
  <2> DEFINE h == holder[m]
  <2>1. h \in Task /\ h /= None /\ holder'[m] = h /\ prio'[h] >= prio[h]
    BY <1>0, <1>4, PriorityMoves
  <2>2. prio[h] \in Nat /\ base[t] \in Nat /\ prio'[h] \in Nat /\ prio[t] \in Nat
    <3>1. prio'[h] \in Priority
      BY <2>1 DEF TypeOK
    <3> QED BY <2>1, <3>1, Numbers, NumberedPriorities
  <2>3. CASE OnList(t, m)
    <3>1. prio[h] >= base[t]
      BY <1>0, <2>1, <2>3 DEF HolderIsBoosted
    <3> HIDE DEF h
    <3> QED BY <1>0, <2>1, <2>2, <3>1
  <2>4. CASE Block(t) /\ want[t] = m
    <3>1. vTaskPriorityInherit(h, t)
      BY <2>4, Blocked
    <3>2. prio[t] >= base[t]
      BY <1>0 DEF Raised
    <3> HIDE DEF h
    <3>3. prio'[h] >= prio[t]
      <4>1. CASE prio[h] < prio[t]
        <5>1. prio' = [prio EXCEPT ![h] = prio[t]]
          BY <2>1, <3>1, <4>1 DEF vTaskPriorityInherit
        <5> QED BY <2>1, <2>2, <5>1 DEF TypeOK
      <4>2. CASE ~(prio[h] < prio[t])
        BY <2>1, <2>2, <4>2
      <4> QED BY <4>1, <4>2
    <3> QED BY <1>0, <2>1, <2>2, <3>2, <3>3
  <2> QED BY <1>1, <2>3, <2>4
<1> QED BY <1>2, <1>3, <1>4

-----------------------------------------------------------------------------
(* The theorems *)

LEMMA Stutter == ASSUME Inv, UNCHANGED vars PROVE Inv'
<1>1. UNCHANGED <<current, ready, prio, base, listed>> /\ UNCHANGED <<pc, want, patience, expired>>
      /\ UNCHANGED vars
  BY DEF vars, sched, priorities, call, mutexes, history
<1>2. TypeOK' /\ InCall' /\ Claims' /\ BoostReturned' /\ HighestRuns'
  BY <1>1 DEF Inv, TypeOK, InCall, Claims, BoostReturned, HighestRuns, OnList,
              vars, sched, priorities, call, mutexes, history
<1>3. Ownership' /\ Lists'
  BY <1>1 DEF Inv, Ownership, Lists, vars, sched, priorities, call, mutexes, history
<1>4. Counts'
  <2>1. UNCHANGED <<held, holder, nest>>
    BY <1>1 DEF vars, sched, priorities, call, mutexes, history
  <2>2. Counts
    BY DEF Inv
  <2> QED BY <2>1, <2>2 DEF Counts, HeldBy
<1>5. Raised' /\ Ordered'
  BY <1>1 DEF Inv, Raised, Ordered, vars, sched, priorities, call, mutexes, history
<1>6. Promised' /\ HolderIsBoosted'
  BY <1>1 DEF Inv, Promised, HolderIsBoosted, OnList, vars, sched, priorities, call, mutexes, history
<1> QED BY <1>2, <1>3, <1>4, <1>5, <1>6 DEF Inv

\* The inductive invariant: mutexes, counts, lists and calls agree after
\* every critical section of xQueueGenericReceive and xQueueGenericSend.
THEOREM MutexInvariant == Spec => []Inv
<1>1. ASSUME Inv, Next
      PROVE  Inv'
  <2>1. TypeOK' /\ InCall' /\ Ownership' /\ Counts' /\ Lists' /\ Claims'
    BY <1>1, TypeStep, InCallStep, OwnershipStep, CountsStep, ListsStep, ClaimsStep DEF Inv
  <2>2. BoostReturned' /\ HighestRuns'
    BY <1>1, BoostStep, HighestStep DEF Inv
  <2>3. Raised'
    BY <1>1, PriorityMoves DEF Inv, Raised
  <2>4. Ordered' /\ Promised' /\ HolderIsBoosted'
    BY <1>1, <2>1, OrderedStep, PromisedStep, HolderStep DEF Inv
  <2> QED BY <2>1, <2>2, <2>3, <2>4 DEF Inv
<1>2. Inv /\ [Next]_vars => Inv'
  BY <1>1, Stutter
<1> QED BY InitInv, <1>2, PTL DEF Spec

\* A task without a mutex runs at its own priority, however vTaskPriorityInherit
\* and vTaskPrioritySet were mixed with timeouts and gives in any order.
THEOREM PriorityReturned == Spec => []BoostReturned
<1>1. Inv => BoostReturned
  BY DEF Inv
<1> QED BY MutexInvariant, <1>1, PTL

\* No lower task runs while a higher one is ready, except after the give of a
\* mutex that ignores what xTaskPriorityDisinherit returns.
THEOREM HighestTaskRuns == Spec => []HighestRuns
<1>1. Inv => HighestRuns
  BY DEF Inv
<1> QED BY MutexInvariant, <1>1, PTL

\* As long as nobody sets priorities, a mutex is never held at a lower priority
\* than the one of a task that waits for it, through nested mutexes, timeouts
\* and lists whose items have been raised in place, until a give overlooks a
\* switch.
THEOREM BoostedHolder == Spec => []HolderIsBoosted
<1>1. Inv => HolderIsBoosted
  BY DEF Inv
<1> QED BY MutexInvariant, <1>1, PTL

\* While a task waits for a mutex whose holder can run, nothing runs that is
\* lower than the task on its own account and holds no mutex: vTaskSwitchContext
\* takes the highest, the holder has been raised, and what has not been raised
\* runs at its own priority.
THEOREM MiddleTasksWait == Spec => []MiddleWaits
<1>1. Inv => MiddleWaits
  <2> SUFFICES ASSUME Inv, NEW m \in Mutex, NEW t \in Task, OnList(t, m), holder[m] \in ready,
                      changed = {}, ~overlooked, ~(held[current] > 0)
               PROVE  base[current] >= base[t]
    BY DEF MiddleWaits
  <2>1. current \in Task /\ holder[m] \in Task /\ holder[m] /= None
    BY MutexAssumption DEF Inv, TypeOK
  <2>2. prio[holder[m]] >= base[t] /\ prio[holder[m]] <= prio[current]
    BY <2>1 DEF Inv, HolderIsBoosted, HighestRuns
  <2>3. held[current] = 0
    BY <2>1 DEF Inv, TypeOK
  <2>4. prio[current] = base[current]
    BY <2>1, <2>3 DEF Inv, BoostReturned
  <2>5. /\ prio[holder[m]] \in Nat /\ base[t] \in Nat /\ prio[current] \in Nat
    BY <2>1, Numbers DEF Inv
  <2> QED BY <2>2, <2>4, <2>5
<1> QED BY MutexInvariant, <1>1, PTL

\* A free mutex with waiting tasks has one of them on the way to take it.
THEOREM NoLostGive == Spec => []FreeIsTaken
<1>1. Inv => FreeIsTaken
  BY DEF Inv, FreeIsTaken, Claims
<1> QED BY MutexInvariant, <1>1, PTL

\* Every step of xSemaphoreTake and xSemaphoreGive is one of the lock table,
\* so no two tasks are ever told that they have the same mutex.
THEOREM MutualExclusion == Spec => ImplementsLocks
<1>1. Init => Locks!Init
  BY DEF Init, Locks!Init
<1>2. ASSUME Inv, [Next]_vars
      PROVE  [Locks!Next]_nest
  <2>1. CASE UNCHANGED nest
    BY <2>1
  <2>2. ASSUME NEW t \in Task, TakeAgain(t)
        PROVE  Locks!Next
    <3>1. PICK m \in Recursive : holder[m] = t /\ nest' = [nest EXCEPT ![t][m] = @ + 1]
      BY <2>2 DEF TakeAgain
    <3>2. \A u \in Task \ {t} : nest[u][m] = 0
      <4> SUFFICES ASSUME NEW u \in Task \ {t} PROVE nest[u][m] = 0
        OBVIOUS
      <4>1. nest[u][m] \in Nat /\ ~(nest[u][m] > 0)
        BY <1>2, <3>1, MutexAssumption DEF Inv, TypeOK, Ownership
      <4> QED BY <4>1
    <3> QED BY <3>1, <3>2, MutexAssumption DEF Locks!Next, Locks!Acquire
  <2>3. ASSUME NEW t \in Task, Obtain(t)
        PROVE  Locks!Next
    <3>1. want[t] \in Mutex /\ \A u \in Task : nest[u][want[t]] = 0
      BY <1>2, <2>3, Obtained DEF Inv
    <3>2. nest' = [nest EXCEPT ![t][want[t]] = @ + 1]
      BY <2>3 DEF Obtain
    <3>3. Locks!Acquire(t, want[t])
      BY <3>1, <3>2 DEF Locks!Acquire
    <3> QED BY <3>1, <3>3 DEF Locks!Next
  <2>4. ASSUME NEW t \in Task, NEW m \in Mutex, GiveBack(t, m)
        PROVE  Locks!Next
    <3>1. nest[t][m] > 0 /\ nest' = [nest EXCEPT ![t][m] = @ - 1]
      BY <1>2, <2>4, Given DEF Inv
    <3> QED BY <3>1 DEF Locks!Next, Locks!Release
  <2> QED BY <1>2, <2>1, <2>2, <2>3, <2>4, Steps DEF vars, history
<1> QED BY <1>1, <1>2, MutexInvariant, PTL DEF Spec, ImplementsLocks, Locks!Spec
=============================================================================
