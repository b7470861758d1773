------------------------------ MODULE KernelList ------------------------------
(***************************************************************************)
(* The doubly linked lists of freertos/Source/list.c and include/list.h,   *)
(* one list with the items that may be in it.  Every operation runs inside *)
(* a critical section of the kernel and is one step.  The ready lists of   *)
(* tasks.c use vListInsertEnd and listGET_OWNER_OF_NEXT_ENTRY, the delayed *)
(* and event lists vListInsert, and vTaskPrioritySet and                   *)
(* vTaskPriorityInherit write the value of an item where it is.            *)
(***************************************************************************)
EXTENDS Naturals, Sequences, FiniteSets

CONSTANTS
    Item,           \* the list items
    End,            \* &pxList->xListEnd
    MaxValue,       \* portMAX_DELAY
    Uses            \* what the list is for: of "ready", "delayed", "event"

ASSUME ListAssumption ==
    /\ IsFiniteSet(Item) /\ End \notin Item /\ MaxValue \in Nat \ {0}
    /\ Uses \subseteq {"ready", "delayed", "event"}

Node == Item \cup {End}
Value == 0 .. MaxValue

VARIABLES
    use,                    \* which of them this list is; never changes
    pxNext, pxPrevious,     \* of the items and of the end marker
    pxIndex,
    listed,                 \* the items whose pvContainer is the list
    xItemValue,             \* of the items; the marker's is portMAX_DELAY
    uxNumberOfItems,
    served                  \* what listGET_OWNER_OF_NEXT_ENTRY returned last

links == <<pxNext, pxPrevious, pxIndex, listed, uxNumberOfItems>>
listVars == <<use, links, xItemValue, served>>

\* vListInitialise, with items that vListInitialiseItem has been called for.
vListInitialise ==
    /\ pxIndex = End
    /\ pxNext = [n \in Node |-> End] /\ pxPrevious = [n \in Node |-> End]
    /\ listed = {} /\ uxNumberOfItems = 0

ListInit ==
    /\ use \in Uses
    /\ vListInitialise
    /\ xItemValue = [i \in Item |-> 0]
    /\ served = End
-----------------------------------------------------------------------------
\* The four assignments both insertions end with, between p and its successor.
Link(i, p) ==
    LET s == pxNext[p] IN
    /\ pxNext' = [pxNext EXCEPT ![i] = s, ![p] = i]
    /\ pxPrevious' = [pxPrevious EXCEPT ![i] = p, ![s] = i]
    /\ listed' = listed \cup {i}
    /\ uxNumberOfItems' = uxNumberOfItems + 1

\* Mutant: the item is put behind the one pxIndex points to.
vListInsertEnd_behind(i) ==
    /\ i \notin listed
    /\ Link(i, pxIndex)
    /\ UNCHANGED <<use, pxIndex, xItemValue, served>>

vListInsertEnd(i) ==
    /\ i \notin listed
    /\ Link(i, pxPrevious[pxIndex])
    /\ UNCHANGED <<use, pxIndex, xItemValue, served>>

\* The k-th node from the marker on.
Walk == [n \in Node |->
    LET w[k \in 0 .. Cardinality(Item)] == IF k = 0 THEN n ELSE pxNext[w[k - 1]] IN w]
ValueOf(n) == IF n = End THEN MaxValue ELSE xItemValue[n]

\* Mutant: the loop stops at an equal value.
Position_equal(v) ==
    IF v = MaxValue THEN pxPrevious[End]
    ELSE Walk[End][CHOOSE k \in 0 .. Cardinality(listed) :
            /\ ValueOf(Walk[End][k + 1]) >= v
            /\ \A j \in 1 .. k : ValueOf(Walk[End][j]) < v]

\* Mutant: the item is put last.
Position_last(v) == pxPrevious[End]

\* Where the loop of vListInsert stops: the first node whose successor has a
\* greater value.  For portMAX_DELAY, which the marker has too, it would not.
Position(v) ==
    IF v = MaxValue THEN pxPrevious[End]
    ELSE Walk[End][CHOOSE k \in 0 .. Cardinality(listed) :
            /\ ValueOf(Walk[End][k + 1]) > v
            /\ \A j \in 1 .. k : ValueOf(Walk[End][j]) <= v]

\* listSET_LIST_ITEM_VALUE and vListInsert.
vListInsert(i, v) ==
    /\ i \notin listed
    /\ xItemValue' = [xItemValue EXCEPT ![i] = v]
    /\ Link(i, Position(v))
    /\ UNCHANGED <<use, pxIndex, served>>

\* Mutant: the link back is not repaired.
uxListRemove_oneWay(i) ==
    /\ i \in listed
    /\ pxNext' = [pxNext EXCEPT ![pxPrevious[i]] = pxNext[i]]
    /\ pxIndex' = IF pxIndex = i THEN pxPrevious[i] ELSE pxIndex
    /\ listed' = listed \ {i}
    /\ uxNumberOfItems' = uxNumberOfItems - 1
    /\ UNCHANGED <<use, pxPrevious, xItemValue, served>>

uxListRemove(i) ==
    /\ i \in listed
    /\ pxPrevious' = [pxPrevious EXCEPT ![pxNext[i]] = pxPrevious[i]]
    /\ pxNext' = [pxNext EXCEPT ![pxPrevious[i]] = pxNext[i]]
    /\ pxIndex' = IF pxIndex = i THEN pxPrevious[i] ELSE pxIndex
    /\ listed' = listed \ {i}
    /\ uxNumberOfItems' = uxNumberOfItems - 1
    /\ UNCHANGED <<use, xItemValue, served>>

FirstItem(n) == IF n = End THEN pxNext[n] ELSE n

\* listGET_OWNER_OF_NEXT_ENTRY
NextEntry ==
    /\ uxNumberOfItems > 0
    /\ pxIndex' = FirstItem(pxNext[pxIndex])
    /\ served' = pxIndex'
    /\ UNCHANGED <<use, pxNext, pxPrevious, listed, uxNumberOfItems, xItemValue>>

\* listSET_LIST_ITEM_VALUE alone, in vTaskPrioritySet and vTaskPriorityInherit.
SetValue(i, v) ==
    /\ xItemValue' = [xItemValue EXCEPT ![i] = v]
    /\ UNCHANGED <<use, links, served>>
-----------------------------------------------------------------------------
ListNext ==
    \/ \E i \in Item : uxListRemove(i)
    \/ /\ use = "ready"
       /\ \/ NextEntry
          \/ \E i \in Item : vListInsertEnd(i)
    \/ \E i \in Item, v \in Value :
        \/ use \in {"delayed", "event"} /\ vListInsert(i, v)
        \/ use = "event" /\ SetValue(i, v)

ListSpec == ListInit /\ [][ListNext]_listVars

\* The scheduler keeps selecting tasks.
ListFairSpec == ListSpec /\ WF_listVars(NextEntry)
-----------------------------------------------------------------------------
ListTypeOK ==
    /\ use \in Uses
    /\ pxNext \in [Node -> Node] /\ pxPrevious \in [Node -> Node]
    /\ pxIndex \in Node /\ listed \subseteq Item
    /\ xItemValue \in [Item -> Value]
    /\ uxNumberOfItems \in Nat
    /\ served \in Node

\* The ring an observer would write down: from behind pxIndex around to pxIndex.
Ring == [k \in 1 .. uxNumberOfItems + 1 |-> Walk[pxNext[pxIndex]][k - 1]]

\* The pointers implement the ring: every insertion, removal and step of
\* pxIndex, in any order, is one of the ring's.
Promise == INSTANCE ListRing WITH ring <- Ring, value <- xItemValue

ImplementsRing == Promise!Spec

\* The links form one ring through the marker and exactly the items whose
\* pvContainer is the list, both ways round, and pxIndex is in it.
LinksAgree ==
    /\ ListTypeOK
    /\ {Walk[End][k] : k \in 0 .. uxNumberOfItems} = listed \cup {End}
    /\ Cardinality(listed) = uxNumberOfItems
    /\ \A n \in listed \cup {End} : pxPrevious[pxNext[n]] = n
    /\ pxIndex \in listed \cup {End}

HeadIsLeast == \A i \in listed : ValueOf(pxNext[End]) <= xItemValue[i]

\* The head entry of a delayed list has the least value in it, however tasks
\* come and go: the first delayed task is the next to wake (tasks.c:1904, 3126).
HeadIsFirst == use = "delayed" => HeadIsLeast

\* Every task in a ready list is selected again or leaves the list, however
\* often the others leave and come back before the next switch: "so the tasks
\* of the same priority get an equal share of the processor time" (tasks.c:292).
EqualShare ==
    \A i \in Item : [](use = "ready" /\ i \in listed => <>(served = i \/ i \notin listed))
=============================================================================
