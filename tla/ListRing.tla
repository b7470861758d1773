------------------------------ MODULE ListRing ------------------------------
(***************************************************************************)
(* What a FreeRTOS list promises: its items and its end marker stand in a  *)
(* ring, written here from the one after pxIndex to pxIndex itself.        *)
(* Walking the ring serves the items; insertion by value keeps them in     *)
(* order after the marker, behind those of the same value.                 *)
(***************************************************************************)
EXTENDS Naturals, Sequences

CONSTANTS Item, End, Value

VARIABLES ring, value, served

vars == <<ring, value, served>>

Init == ring = <<End>> /\ value \in [Item -> Value] /\ served = End

In(i) == \E k \in 1 .. Len(ring) : ring[k] = i

\* Before the k-th element of the ring.
PutBefore(k, i) == ring' = SubSeq(ring, 1, k - 1) \o <<i>> \o SubSeq(ring, k, Len(ring))

InsertEnd(i) ==
    /\ ~In(i)
    /\ PutBefore(Len(ring), i)
    /\ UNCHANGED <<value, served>>

\* How far the k-th element is from the marker, which comes last itself.
Rank(k) == LET e == CHOOSE e \in 1 .. Len(ring) : ring[e] = End
           IN IF k > e THEN k - e ELSE k + Len(ring) - e

\* Before the first element of a greater value, at the marker at the latest.
Insert(i, v) ==
    /\ ~In(i)
    /\ value' = [value EXCEPT ![i] = v]
    /\ LET Later == {k \in 1 .. Len(ring) : ring[k] = End \/ value[ring[k]] > v}
       IN \E k \in Later : (\A j \in Later : Rank(k) <= Rank(j)) /\ PutBefore(k, i)
    /\ UNCHANGED served

Remove(i) ==
    /\ \E k \in 1 .. Len(ring) :
        ring[k] = i /\ ring' = SubSeq(ring, 1, k - 1) \o SubSeq(ring, k + 1, Len(ring))
    /\ UNCHANGED <<value, served>>

Rotate(s) == Tail(s) \o <<Head(s)>>

Serve ==
    /\ Len(ring) > 1
    /\ ring' = IF Head(ring) = End THEN Rotate(Rotate(ring)) ELSE Rotate(ring)
    /\ served' = ring'[Len(ring)]
    /\ UNCHANGED value

SetValue(i, v) == value' = [value EXCEPT ![i] = v] /\ UNCHANGED <<ring, served>>

Next ==
    \/ Serve
    \/ \E i \in Item : InsertEnd(i) \/ Remove(i) \/ \E v \in Value : Insert(i, v) \/ SetValue(i, v)

Spec == Init /\ [][Next]_vars
=============================================================================
