---------------------------- MODULE UartProofs ----------------------------
(***************************************************************************)
(* Proofs about src/uart.c: the receive ring for every ring size, depth of *)
(* the hardware FIFO and number of characters, the transmit path for every *)
(* set of tasks and texts.                                                 *)
(***************************************************************************)
EXTENDS Uart, SequenceTheorems, FiniteSetTheorems, WellFoundedInduction, TLAPS

USE RxAssumption

(***************************************************************************)
(* Index arithmetic.  The successor of a slot wraps at the end of the      *)
(* array; with it, Used has a form free of the modulus.                    *)
(***************************************************************************)
LEMMA NextSlot ==
    ASSUME NEW i \in Slot
    PROVE  /\ next(i) \in Slot
           /\ next(i) = IF i + 1 = UART_BUFSIZE THEN 0 ELSE i + 1
  BY SMT DEF next, Slot

LEMMA Distance ==
    ASSUME NEW h \in Slot, NEW t \in Slot
    PROVE  /\ (h - t) % UART_BUFSIZE = IF h >= t THEN h - t
                                       ELSE h - t + UART_BUFSIZE
           /\ (h - t) % UART_BUFSIZE \in 0 .. UART_BUFSIZE - 1
  BY SMT DEF Slot

(***************************************************************************)
(* Type correctness.                                                       *)
(***************************************************************************)

\* Every variable of the receive path keeps its type: in particular the
\* uint8_t indices of UARTFifo_t never leave the array.
THEOREM TypeCorrect == Spec => []TypeOK
<1>1. Init => TypeOK
  BY SMT DEF Init, TypeOK, Slot, Char
<1>2. TypeOK /\ [Next]_vars => TypeOK'
  <2> SUFFICES ASSUME TypeOK, [Next]_vars PROVE TypeOK'
    OBVIOUS
  <2> USE DEF TypeOK
  <2>1. CASE Arrive
    <3>1. arrived + 1 \in Char
      BY <2>1, SMT DEF Arrive, Char
    <3>2. Append(rbr, arrived + 1) \in Seq(Char)
      BY <3>1
    <3> QED BY <2>1, <3>1, <3>2 DEF Arrive
  <2>2. CASE UART_IRQHandler
    <3>1. Head(rbr) \in Char /\ Tail(rbr) \in Seq(Char)
      BY <2>2, SMT DEF UART_IRQHandler
    <3>2. next(head) \in Slot
      BY NextSlot
    <3>3. Append(stored, Head(rbr)) \in Seq(Char)
      BY <3>1
    <3>4. [buffer EXCEPT ![head] = Head(rbr)] \in [Slot -> Char]
      BY <3>1
    <3> QED BY <2>2, <3>1, <3>2, <3>3, <3>4 DEF UART_IRQHandler, fifo_put
  <2>3. CASE UARTGetChar
    BY <2>3, SMT DEF UARTGetChar
  <2>4. CASE GetEmpty
    BY <2>4, SMT DEF GetEmpty, vars
  <2>5. CASE GetNonEmpty
    BY <2>5, SMT DEF GetNonEmpty
  <2>6. CASE GetLoad
    BY <2>6, SMT DEF GetLoad
  <2>7. CASE GetAdvance
    <3>1. next(tail) \in Slot
      BY NextSlot
    <3> QED BY <2>7, <3>1, SMT DEF GetAdvance
  <2>8. CASE UNCHANGED vars
    BY <2>8, SMT DEF vars
  <2> QED
    BY <2>1, <2>2, <2>3, <2>4, <2>5, <2>6, <2>7, <2>8 DEF Next, fifo_get
<1> QED
  BY <1>1, <1>2, PTL DEF Spec

(***************************************************************************)
(* The ring delivers what was stored.  The invariant relates each occupied *)
(* slot to the stored character it must hold, by its distance from tail;   *)
(* the reader's two intermediate states remember that the ring was not     *)
(* empty, and that the character loaded is still the one in the slot.      *)
(***************************************************************************)
Dist(i) == IF i >= tail THEN i - tail ELSE i - tail + UART_BUFSIZE

RingInv ==
    /\ TypeOK
    /\ Len(got) <= Len(stored)
    /\ Len(stored) - Len(got) = Used
    /\ \A k \in 1 .. Len(got) : got[k] = stored[k]
    /\ \A i \in Slot : Dist(i) < Used => buffer[i] = stored[Len(got) + 1 + Dist(i)]
    /\ pc \in {"load", "advance"} => head /= tail
    /\ pc = "advance" => c = buffer[tail]

\* fifo_put writes the free slot at head, at distance Used from tail, and
\* touches no occupied one.
LEMMA PutKeepsRing ==
    ASSUME RingInv, TypeOK', UART_IRQHandler PROVE RingInv'
<1> USE DEF RingInv
<1>1. /\ pc' = pc /\ c' = c /\ tail' = tail /\ got' = got
  BY DEF UART_IRQHandler
<1>2. CASE next(head) = tail
  <2>1. buffer' = buffer /\ head' = head /\ stored' = stored
    BY <1>2 DEF UART_IRQHandler, fifo_put
  <2>2. Used' = Used /\ \A i : Dist(i)' = Dist(i)
    BY <1>1, <2>1 DEF Used, Dist
  <2> QED BY <1>1, <2>1, <2>2, SMT
<1>3. CASE next(head) /= tail
  <2> DEFINE x == Head(rbr)
  <2>1. /\ buffer' = [buffer EXCEPT ![head] = x]
        /\ head' = next(head)
        /\ stored' = Append(stored, x)
        /\ x \in Char
    BY <1>3, SMT DEF UART_IRQHandler, fifo_put, TypeOK
  <2> HIDE DEF x
  <2> USE DEF TypeOK
  <2>2. /\ Used = IF head >= tail THEN head - tail
                  ELSE head - tail + UART_BUFSIZE
        /\ Used' = IF next(head) >= tail THEN next(head) - tail
                   ELSE next(head) - tail + UART_BUFSIZE
    BY <1>1, <2>1, NextSlot, Distance DEF Used
  <2>3. Used' = Used + 1 /\ Dist(head) = Used /\ Used \in Nat
    <3>1. next(head) = IF head + 1 = UART_BUFSIZE THEN 0 ELSE head + 1
      BY NextSlot
    <3> QED BY <1>3, <2>2, <3>1, SMT DEF Dist, Slot
  <2>4. Len(stored') = Len(stored) + 1
    BY <2>1, SMT
  <2>5. \A k \in 1 .. Len(stored) : stored'[k] = stored[k]
    BY <2>1, SMT
  <2>6. stored'[Len(stored) + 1] = x
    BY <2>1, SMT
  <2>7. \A k \in 1 .. Len(got') : got'[k] = stored'[k]
    BY <1>1, <2>5, SMT
  <2>8. ASSUME NEW i \in Slot, Dist(i)' < Used'
        PROVE  buffer'[i] = stored'[Len(got') + 1 + Dist(i)']
    <3>1. Dist(i)' = Dist(i) /\ Dist(i) \in Nat
      BY <1>1, SMT DEF Dist, Slot
    <3>2. CASE i = head
      BY <1>1, <2>1, <2>3, <2>6, <3>1, <3>2, SMT
    <3>3. CASE i /= head
      <4>1. Dist(i) < Used
        <5>1. Dist(i) < Used + 1
          BY <2>3, <2>8, <3>1
        <5>2. Dist(i) /= Used
          BY <2>3, <3>3, SMT DEF Dist, Slot
        <5> QED BY <2>3, <3>1, <5>1, <5>2, SMT
      <4>2. buffer'[i] = buffer[i]
        BY <2>1, <3>3
      <4>3. Len(got) + 1 + Dist(i) \in 1 .. Len(stored)
        BY <3>1, <4>1, <2>3, SMT
      <4> QED BY <1>1, <2>5, <3>1, <4>1, <4>2, <4>3
    <3> QED BY <3>2, <3>3
  <2>9. pc' \in {"load", "advance"} => head' /= tail'
    BY <1>1, <1>3, <2>1
  <2>10. pc' = "advance" => c' = buffer'[tail']
    BY <1>1, <2>1 DEF Slot
  <2>11. Len(got') <= Len(stored') /\ Len(stored') - Len(got') = Used'
    <3>1. Len(got') = Len(got)
      BY <1>1
    <3>2. Len(got) \in Nat /\ Len(stored) \in Nat
      BY DEF TypeOK
    <3> HIDE DEF TypeOK
    <3> QED BY <2>3, <2>4, <3>1, <3>2, SMT
  <2> QED BY <2>7, <2>8, <2>9, <2>10, <2>11
<1> QED BY <1>2, <1>3

\* Moving tail past the oldest character lowers every distance by one.
LEMMA AdvanceKeepsRing ==
    ASSUME RingInv, TypeOK', GetAdvance PROVE RingInv'
<1> USE DEF RingInv
<1>1. /\ head /= tail /\ c = buffer[tail] /\ pc' = "idle"
      /\ tail' = next(tail) /\ got' = Append(got, c)
      /\ buffer' = buffer /\ head' = head /\ stored' = stored
  BY DEF GetAdvance
<1>2. head \in Slot /\ tail \in Slot /\ got \in Seq(Char) /\ stored \in Seq(Char)
  BY DEF TypeOK
<1>3. next(tail) = IF tail + 1 = UART_BUFSIZE THEN 0 ELSE tail + 1
  BY <1>2, NextSlot
<1>4. /\ Used = IF head >= tail THEN head - tail
                ELSE head - tail + UART_BUFSIZE
      /\ Used' = IF head >= next(tail) THEN head - next(tail)
                 ELSE head - next(tail) + UART_BUFSIZE
  BY <1>1, <1>2, NextSlot, Distance DEF Used
<1>5. Used' = Used - 1 /\ Used \in Nat \ {0} /\ Dist(tail) = 0
  BY <1>1, <1>2, <1>3, <1>4, SMT DEF Dist, Slot
<1>6. /\ Len(got') = Len(got) + 1
      /\ Len(got) \in Nat /\ Len(stored) \in Nat
      /\ \A k \in 1 .. Len(got) : got'[k] = got[k]
      /\ got'[Len(got) + 1] = c
  BY <1>1, <1>2, SMT
<1>7. c = stored[Len(got) + 1]
  BY <1>1, <1>2, <1>5, <1>6, SMT
<1>8. \A k \in 1 .. Len(got') : got'[k] = stored'[k]
  BY <1>1, <1>6, <1>7, SMT
<1>9. ASSUME NEW i \in Slot, Dist(i)' < Used'
      PROVE  buffer'[i] = stored'[Len(got') + 1 + Dist(i)']
  <2>1. Dist(i)' = IF i >= next(tail) THEN i - next(tail)
                   ELSE i - next(tail) + UART_BUFSIZE
    BY <1>1 DEF Dist
  <2>2. Dist(i) \in Nat /\ (i /= tail => Dist(i)' = Dist(i) - 1)
    <3>1. Dist(i) = IF i >= tail THEN i - tail ELSE i - tail + UART_BUFSIZE
      BY DEF Dist
    <3> QED BY <1>2, <1>3, <2>1, <3>1, SMT DEF Slot
  <2>3. i = tail => Dist(i)' = UART_BUFSIZE - 1
    BY <1>2, <1>3, <2>1, SMT DEF Slot
  <2>4. Used <= UART_BUFSIZE - 1
    BY <1>2, <1>4, SMT DEF Slot
  <2>5. i /= tail
    BY <1>5, <1>9, <2>3, <2>4, SMT
  <2>6. Dist(i) < Used /\ Len(got') + 1 + Dist(i)' = Len(got) + 1 + Dist(i)
    <3>1. Dist(i)' = Dist(i) - 1 /\ Dist(i)' < Used'
      BY <1>9, <2>2, <2>5
    <3> HIDE DEF RingInv
    <3> QED BY <1>5, <1>6, <2>2, <3>1, SMT
  <2> QED BY <1>1, <2>6
<1>10. Len(got') <= Len(stored') /\ Len(stored') - Len(got') = Used'
  BY <1>1, <1>5, <1>6, SMT
<1> QED BY <1>1, <1>8, <1>9, <1>10

THEOREM RingInvariant == Spec => []RingInv
<1>1. Init => RingInv
  <2> SUFFICES ASSUME Init PROVE RingInv
    OBVIOUS
  <2>1. TypeOK
    BY SMT DEF Init, TypeOK, Slot, Char
  <2>2. Used = 0
    BY <2>1, Distance, SMT DEF Init, Used, TypeOK
  <2> QED BY <2>1, <2>2, SMT DEF Init, RingInv, Dist, Slot
<1>2. RingInv /\ TypeOK' /\ [Next]_vars => RingInv'
  <2> SUFFICES ASSUME RingInv, TypeOK', [Next]_vars PROVE RingInv'
    OBVIOUS
  <2>1. CASE UART_IRQHandler
    BY <2>1, PutKeepsRing
  <2>2. CASE GetAdvance
    BY <2>2, AdvanceKeepsRing
  <2>3. CASE Arrive \/ UARTGetChar \/ GetEmpty \/ GetNonEmpty \/ GetLoad
             \/ UNCHANGED vars
    <3>1. /\ buffer' = buffer /\ head' = head /\ tail' = tail
          /\ stored' = stored /\ got' = got
      BY <2>3 DEF Arrive, UARTGetChar, GetEmpty, GetNonEmpty, GetLoad, vars
    <3>2. Used' = Used /\ \A i : Dist(i)' = Dist(i)
      BY <3>1 DEF Used, Dist
    <3>3. /\ pc' \in {"load", "advance"} => head' /= tail'
          /\ pc' = "advance" => c' = buffer'[tail']
      BY <2>3, <3>1 DEF RingInv, Arrive, UARTGetChar, GetEmpty,
                        GetNonEmpty, GetLoad, vars
    <3> QED BY <3>1, <3>2, <3>3 DEF RingInv
  <2> QED BY <2>1, <2>2, <2>3 DEF Next, fifo_get
<1> QED
  BY <1>1, <1>2, TypeCorrect, PTL DEF Spec

(***************************************************************************)
(* The ring is the queue it promises to be.                                *)
(***************************************************************************)
LEMMA WrappedSlot ==
    ASSUME NEW t \in Slot, NEW k \in 1 .. UART_BUFSIZE
    PROVE  /\ (t + k - 1) % UART_BUFSIZE \in Slot
           /\ (t + k - 1) % UART_BUFSIZE = IF t + k - 1 < UART_BUFSIZE THEN t + k - 1
                                           ELSE t + k - 1 - UART_BUFSIZE
  BY SMT DEF Slot

\* Contents without the modulus.
LEMMA WhatItHolds ==
    ASSUME NEW h \in Slot, NEW t \in Slot, NEW b \in [Slot -> Char], NEW n, n = (h - t) % UART_BUFSIZE,
           NEW s, s = [k \in 1 .. n |-> b[(t + k - 1) % UART_BUFSIZE]]
    PROVE  /\ n \in 0 .. UART_BUFSIZE - 1
           /\ s \in Seq(Char) /\ Len(s) = n
           /\ \A k \in 1 .. n : s[k] = b[IF t + k - 1 < UART_BUFSIZE THEN t + k - 1
                                         ELSE t + k - 1 - UART_BUFSIZE]
<1>1. n \in 0 .. UART_BUFSIZE - 1
  BY Distance
<1>2. ASSUME NEW k \in 1 .. n
      PROVE  /\ (t + k - 1) % UART_BUFSIZE \in Slot
             /\ (t + k - 1) % UART_BUFSIZE = IF t + k - 1 < UART_BUFSIZE THEN t + k - 1
                                             ELSE t + k - 1 - UART_BUFSIZE
  <2>1. k \in 1 .. UART_BUFSIZE
    BY <1>1
  <2> QED BY <2>1, WrappedSlot
<1>3. \A k \in 1 .. n : b[(t + k - 1) % UART_BUFSIZE] \in Char
  BY <1>2
<1>4. s \in Seq(Char) /\ Len(s) = n
  BY <1>1, <1>3
<1>5. \A k \in 1 .. n : s[k] = b[(t + k - 1) % UART_BUFSIZE]
  OBVIOUS
<1> QED BY <1>1, <1>2, <1>4, <1>5

LEMMA PutIsPut ==
    ASSUME RingInv, TypeOK', UART_IRQHandler
    PROVE  Ring!Put \/ UNCHANGED <<Contents, got>>
<1>1. tail' = tail /\ got' = got /\ rbr /= <<>> /\ TypeOK
  BY DEF UART_IRQHandler, RingInv
<1>2. CASE next(head) = tail
  <2>1. buffer' = buffer /\ head' = head
    BY <1>2 DEF UART_IRQHandler, fifo_put
  <2> QED BY <1>1, <2>1 DEF Contents, Used
<1>3. CASE next(head) /= tail
  <2> DEFINE x == Head(rbr)
  <2>1. buffer' = [buffer EXCEPT ![head] = x] /\ head' = next(head) /\ x \in Char
    BY <1>1, <1>3 DEF UART_IRQHandler, fifo_put, TypeOK
  <2> HIDE DEF x
  <2>2. head \in Slot /\ tail \in Slot /\ buffer \in [Slot -> Char]
    BY <1>1 DEF TypeOK
  <2>3. /\ Used = IF head >= tail THEN head - tail ELSE head - tail + UART_BUFSIZE
        /\ Used' = IF next(head) >= tail THEN next(head) - tail ELSE next(head) - tail + UART_BUFSIZE
        /\ next(head) = IF head + 1 = UART_BUFSIZE THEN 0 ELSE head + 1
    BY <1>1, <2>1, <2>2, NextSlot, Distance DEF Used
  <2>4. Used' = Used + 1 /\ Used \in Nat /\ Used < UART_BUFSIZE - 1
    BY <1>3, <2>2, <2>3, SMT DEF Slot
  <2>5. /\ Contents \in Seq(Char) /\ Len(Contents) = Used
        /\ \A k \in 1 .. Used : Contents[k] = buffer[IF tail + k - 1 < UART_BUFSIZE THEN tail + k - 1
                                                     ELSE tail + k - 1 - UART_BUFSIZE]
    BY <2>2, WhatItHolds DEF Contents, Used
  <2>6. /\ Contents' \in Seq(Char) /\ Len(Contents') = Used'
        /\ \A k \in 1 .. Used' : Contents'[k] = buffer'[IF tail + k - 1 < UART_BUFSIZE THEN tail + k - 1
                                                        ELSE tail + k - 1 - UART_BUFSIZE]
    <3>1. head' \in Slot /\ tail' \in Slot /\ buffer' \in [Slot -> Char]
      BY DEF TypeOK
    <3> QED BY <1>1, <3>1, WhatItHolds DEF Contents, Used
  <2>7. ASSUME NEW k \in 1 .. Used
        PROVE  Contents'[k] = Contents[k]
    <3> DEFINE i == IF tail + k - 1 < UART_BUFSIZE THEN tail + k - 1 ELSE tail + k - 1 - UART_BUFSIZE
    <3>1. i \in Slot /\ i /= head /\ k \in 1 .. Used'
      BY <2>2, <2>3, <2>4, SMT DEF Slot
    <3>2. Contents'[k] = buffer'[i] /\ Contents[k] = buffer[i]
      BY <2>5, <2>6, <3>1
    <3> HIDE DEF i
    <3> QED BY <2>1, <2>2, <3>1, <3>2
  <2>8. Contents'[Used + 1] = x
    <3> DEFINE i == IF tail + (Used + 1) - 1 < UART_BUFSIZE THEN tail + (Used + 1) - 1
                    ELSE tail + (Used + 1) - 1 - UART_BUFSIZE
    <3>1. i = head /\ Used + 1 \in 1 .. Used'
      BY <2>2, <2>3, <2>4, SMT DEF Slot
    <3>2. Contents'[Used + 1] = buffer'[i]
      BY <2>6, <3>1
    <3> HIDE DEF i
    <3> QED BY <2>1, <2>2, <3>1, <3>2
  <2>9. Contents' = Append(Contents, x)
    <3> DEFINE longer == Append(Contents, x)
    <3>1. /\ longer \in Seq(Char) /\ Len(longer) = Used + 1
          /\ \A k \in 1 .. Used : longer[k] = Contents[k]
          /\ longer[Used + 1] = x
      BY <2>1, <2>4, <2>5, AppendProperties
    <3>2. \A k \in 1 .. Used + 1 : k \in 1 .. Used \/ k = Used + 1
      BY <2>4
    <3>3. \A k \in 1 .. Used + 1 : Contents'[k] = longer[k]
      BY <2>7, <2>8, <3>1, <3>2
    <3> HIDE DEF longer
    <3>4. Len(Contents') = Used + 1 /\ Contents' \in Seq(Char)
      BY <2>4, <2>6
    <3>5. Contents' = longer
      BY <3>1, <3>3, <3>4, SeqEqual
    <3> QED BY <3>5 DEF longer
  <2> QED BY <1>1, <2>1, <2>4, <2>5, <2>9 DEF Ring!Put
<1> QED BY <1>2, <1>3

LEMMA AdvanceIsTake ==
    ASSUME RingInv, TypeOK', GetAdvance
    PROVE  Ring!Take
<1>1. /\ TypeOK /\ head /= tail /\ c = buffer[tail] /\ tail' = next(tail) /\ got' = Append(got, c)
      /\ buffer' = buffer /\ head' = head
  BY DEF GetAdvance, RingInv
<1>2. head \in Slot /\ tail \in Slot /\ buffer \in [Slot -> Char]
  BY <1>1 DEF TypeOK
<1>3. /\ Used = IF head >= tail THEN head - tail ELSE head - tail + UART_BUFSIZE
      /\ Used' = IF head >= next(tail) THEN head - next(tail) ELSE head - next(tail) + UART_BUFSIZE
      /\ next(tail) = IF tail + 1 = UART_BUFSIZE THEN 0 ELSE tail + 1
  BY <1>1, <1>2, NextSlot, Distance DEF Used
<1>4. Used' = Used - 1 /\ Used \in Nat \ {0} /\ Used < UART_BUFSIZE
  BY <1>1, <1>2, <1>3, SMT DEF Slot
<1>5. /\ Contents \in Seq(Char) /\ Len(Contents) = Used
      /\ \A k \in 1 .. Used : Contents[k] = buffer[IF tail + k - 1 < UART_BUFSIZE THEN tail + k - 1
                                                   ELSE tail + k - 1 - UART_BUFSIZE]
  BY <1>2, WhatItHolds DEF Contents, Used
<1>6. /\ Contents' \in Seq(Char) /\ Len(Contents') = Used'
      /\ \A k \in 1 .. Used' : Contents'[k] = buffer[IF next(tail) + k - 1 < UART_BUFSIZE
                                                     THEN next(tail) + k - 1
                                                     ELSE next(tail) + k - 1 - UART_BUFSIZE]
  <2>1. head' \in Slot /\ tail' \in Slot /\ buffer' \in [Slot -> Char]
    BY DEF TypeOK
  <2>2. /\ Contents' \in Seq(Char) /\ Len(Contents') = Used'
        /\ \A k \in 1 .. Used' : Contents'[k] = buffer'[IF tail' + k - 1 < UART_BUFSIZE THEN tail' + k - 1
                                                        ELSE tail' + k - 1 - UART_BUFSIZE]
    BY <2>1, WhatItHolds DEF Contents, Used
  <2> QED BY <1>1, <2>2
<1>7. Contents[1] = c
  <2>1. 1 \in 1 .. Used /\ tail + 1 - 1 = tail /\ tail < UART_BUFSIZE
    BY <1>2, <1>4, SMT DEF Slot
  <2> QED BY <1>1, <1>5, <2>1
<1>8. ASSUME NEW k \in 1 .. Used - 1
      PROVE  Contents'[k] = Contents[k + 1]
  <2> DEFINE i == IF next(tail) + k - 1 < UART_BUFSIZE THEN next(tail) + k - 1
                  ELSE next(tail) + k - 1 - UART_BUFSIZE
             j == IF tail + (k + 1) - 1 < UART_BUFSIZE THEN tail + (k + 1) - 1
                  ELSE tail + (k + 1) - 1 - UART_BUFSIZE
  <2>1. i = j /\ k \in 1 .. Used' /\ k + 1 \in 1 .. Used
    BY <1>2, <1>3, <1>4, SMT DEF Slot
  <2>2. Contents'[k] = buffer[i] /\ Contents[k + 1] = buffer[j]
    BY <1>5, <1>6, <2>1
  <2> HIDE DEF i, j
  <2> QED BY <2>1, <2>2
<1>9. Contents /= <<>> /\ Head(Contents) = c
  <2>1. Contents /= <<>>
    BY <1>4, <1>5
  <2> QED BY <1>5, <1>7, <2>1
<1>10. Contents' = Tail(Contents)
  <2> DEFINE rest == Tail(Contents)
  <2>1. /\ rest \in Seq(Char) /\ Len(rest) = Used - 1
        /\ \A k \in 1 .. Used - 1 : rest[k] = Contents[k + 1]
    BY <1>4, <1>5, <1>9, HeadTailProperties
  <2> HIDE DEF rest
  <2>2. Contents' \in Seq(Char) /\ Len(Contents') = Used - 1
    BY <1>4, <1>6
  <2>3. \A k \in 1 .. Used - 1 : Contents'[k] = rest[k]
    BY <1>8, <2>1
  <2>4. Contents' = rest
    BY <2>1, <2>2, <2>3, SeqEqual
  <2> QED BY <2>4 DEF rest
<1> QED BY <1>1, <1>9, <1>10 DEF Ring!Take

LEMMA RingImplements == Spec => ImplementsQueue
<1>1. Init => Ring!Init
  <2> SUFFICES ASSUME Init PROVE Ring!Init
    OBVIOUS
  <2>1. head = 0 /\ tail = 0 /\ got = <<>> /\ 0 \in Slot
    BY DEF Init, Slot
  <2>2. Used = 0
    BY <2>1, Distance DEF Used
  <2>3. Contents = <<>>
    BY <2>2 DEF Contents
  <2> QED BY <2>1, <2>3 DEF Ring!Init
<1>2. RingInv /\ TypeOK' /\ [Next]_vars => [Ring!Next]_<<Contents, got>>
  <2> SUFFICES ASSUME RingInv, TypeOK', [Next]_vars PROVE [Ring!Next]_<<Contents, got>>
    OBVIOUS
  <2>1. CASE UART_IRQHandler
    BY <2>1, PutIsPut DEF Ring!Next
  <2>2. CASE GetAdvance
    BY <2>2, AdvanceIsTake DEF Ring!Next
  <2>3. CASE Arrive \/ UARTGetChar \/ GetEmpty \/ GetNonEmpty \/ GetLoad \/ UNCHANGED vars
    <3>1. buffer' = buffer /\ head' = head /\ tail' = tail /\ got' = got
      BY <2>3 DEF Arrive, UARTGetChar, GetEmpty, GetNonEmpty, GetLoad, vars
    <3> QED BY <3>1 DEF Contents, Used
  <2> QED BY <2>1, <2>2, <2>3 DEF Next, fifo_get
<1> QED BY <1>1, <1>2, TypeCorrect, RingInvariant, PTL DEF Spec, ImplementsQueue, Ring!Spec

(***************************************************************************)
(* What FlattenSeq does to a line: the '\r' of OnLine are put in text by   *)
(* text.  Induction is over the sets of numbers that satisfy a claim.      *)
(***************************************************************************)
HIDE RxAssumption

LEMMA NatMinimum ==
    ASSUME NEW T, T \subseteq Nat, T /= {}
    PROVE  \E x \in T : \A y \in T : x <= y
<1> DEFINE R == OpToRel(<, Nat)
<1>1. IsWellFoundedOn(R, Nat)
  BY NatLessThanWellFounded
<1>2. \A x \in Nat, y \in Nat : y < x => <<y, x>> \in R
  BY DEF OpToRel
<1> HIDE DEF R
<1>3. \E x \in T : \A y \in T : ~ (<<y, x>> \in R)
  BY <1>1, WFMin
<1>4. PICK x \in T : \A y \in T : ~ (<<y, x>> \in R)
  BY <1>3
<1>5. ASSUME NEW y \in T
      PROVE  x <= y
  <2>1. x \in Nat /\ y \in Nat
    OBVIOUS
  <2>2. ~ (y < x)
    BY <1>2, <1>4, <2>1
  <2> QED BY <2>1, <2>2
<1> QED BY <1>5

LEMMA NatInduct ==
    ASSUME NEW P, 0 \in P, \A n \in Nat : n \in P => n + 1 \in P
    PROVE  Nat \subseteq P
<1> SUFFICES ASSUME Nat \ P /= {} PROVE FALSE
  OBVIOUS
<1>1. PICK x \in Nat \ P : \A y \in Nat \ P : x <= y
  BY NatMinimum
<1>2. x /= 0 /\ x - 1 \in Nat
  BY <1>1
<1>3. x - 1 \in P
  BY <1>1, <1>2
<1> QED BY <1>1, <1>2, <1>3

\* The function by which FlattenSeq joins the elements one after the other.
IsJoin(ss, k, g) == g = [i \in 1 .. k |-> IF i = 1 THEN ss[i] ELSE g[i - 1] \o ss[i]]

LEMMA JoinLonger ==
    ASSUME NEW ss, NEW k \in Nat, NEW g, IsJoin(ss, k, g)
    PROVE  \E h : IsJoin(ss, k + 1, h)
<1> DEFINE h == [i \in 1 .. k + 1 |-> IF i = 1 THEN ss[i] ELSE g[i - 1] \o ss[i]]
<1>1. \A i \in 1 .. k : g[i] = IF i = 1 THEN ss[i] ELSE g[i - 1] \o ss[i]
  <2>1. DOMAIN g = 1 .. k
    BY DEF IsJoin
  <2> QED BY Zenon DEF IsJoin
<1>2. \A i \in 1 .. k + 1 : h[i] = IF i = 1 THEN ss[i] ELSE g[i - 1] \o ss[i]
  OBVIOUS
<1>3. \A i \in 1 .. k : i \in 1 .. k + 1
  OBVIOUS
<1>4. \A i \in 1 .. k : h[i] = g[i]
  BY <1>1, <1>2, <1>3, Zenon
<1>5. \A i \in 1 .. k + 1 : i /= 1 => i - 1 \in 1 .. k
  OBVIOUS
<1>6. \A i \in 1 .. k + 1 : i /= 1 => h[i - 1] = g[i - 1]
  BY <1>4, <1>5, Zenon
<1>7. h = [i \in 1 .. k + 1 |-> IF i = 1 THEN ss[i] ELSE h[i - 1] \o ss[i]]
  <2>1. \A i \in 1 .. k + 1 : h[i] = IF i = 1 THEN ss[i] ELSE h[i - 1] \o ss[i]
    BY <1>2, <1>6, Zenon
  <2> DEFINE f == [i \in 1 .. k + 1 |-> IF i = 1 THEN ss[i] ELSE h[i - 1] \o ss[i]]
  <2>2. \A i \in 1 .. k + 1 : h[i] = f[i]
    BY <2>1, Zenon
  <2> QED BY <2>2, Zenon
<1> HIDE DEF h
<1> QED BY <1>7, Zenon DEF IsJoin

LEMMA FlattenJoins ==
    ASSUME NEW S, NEW ss \in Seq(Seq(S)), ss /= <<>>
    PROVE  \E g \in [1 .. Len(ss) -> Seq(S)] :
              /\ FlattenSeq(ss) = g[Len(ss)]
              /\ g[1] = ss[1]
              /\ \A i \in 1 .. Len(ss) - 1 : g[i + 1] = g[i] \o ss[i + 1]
<1>0. \A x, y \in Seq(S) : x \o y \in Seq(S)
  BY ConcatProperties
<1> DEFINE P == {k \in Nat : \E g : IsJoin(ss, k, g)}
<1>1. Len(ss) \in Nat \ {0} /\ \A i \in 1 .. Len(ss) : ss[i] \in Seq(S)
  OBVIOUS
<1>2. 0 \in P
  <2> DEFINE g == [i \in 1 .. 0 |-> <<>>]
  <2>1. g = [i \in 1 .. 0 |-> IF i = 1 THEN ss[i] ELSE g[i - 1] \o ss[i]]
    <3>1. 1 .. 0 = {}
      OBVIOUS
    <3> QED BY <3>1
  <2> HIDE DEF g
  <2> QED BY <2>1 DEF IsJoin
<1>3. \A k \in Nat : k \in P => k + 1 \in P
  BY JoinLonger
<1>4. Len(ss) \in P
  <2> HIDE DEF P
  <2> QED BY <1>1, <1>2, <1>3, NatInduct
<1>5. \E g : IsJoin(ss, Len(ss), g)
  BY <1>4
<1>6. \E g : IsJoin(ss, Len(ss), g) /\ FlattenSeq(ss) = g[Len(ss)]
  BY <1>1, <1>5, Zenon DEF FlattenSeq, IsJoin
<1>7. PICK g : IsJoin(ss, Len(ss), g) /\ FlattenSeq(ss) = g[Len(ss)]
  BY <1>6
<1>8. DOMAIN g = 1 .. Len(ss)
  BY <1>7 DEF IsJoin
<1>9. \A i \in 1 .. Len(ss) : g[i] = IF i = 1 THEN ss[i] ELSE g[i - 1] \o ss[i]
  BY <1>7, Zenon DEF IsJoin
<1>10. g[1] = ss[1]
  BY <1>1, <1>9
<1>11. ASSUME NEW i \in 1 .. Len(ss) - 1
       PROVE  g[i + 1] = g[i] \o ss[i + 1]
  <2>1. i + 1 \in 1 .. Len(ss) /\ i + 1 /= 1 /\ (i + 1) - 1 = i
    BY <1>1
  <2>2. g[i + 1] = g[(i + 1) - 1] \o ss[i + 1]
    BY <1>9, <2>1, Zenon
  <2> QED BY <2>1, <2>2
<1>12. \A i \in 1 .. Len(ss) : g[i] \in Seq(S)
  <2> DEFINE Q == {k \in Nat : k + 1 <= Len(ss) => g[k + 1] \in Seq(S)}
  <2>1. 0 \in Q
    BY <1>1, <1>10
  <2>2. ASSUME NEW k \in Nat, k \in Q
        PROVE  k + 1 \in Q
    <3>1. CASE k + 2 <= Len(ss)
      <4>1. k + 1 \in 1 .. Len(ss) - 1 /\ k + 1 <= Len(ss) /\ (k + 1) + 1 \in 1 .. Len(ss)
        BY <1>1, <3>1
      <4>2. g[k + 1] \in Seq(S) /\ ss[(k + 1) + 1] \in Seq(S)
        BY <1>1, <2>2, <4>1
      <4>3. g[(k + 1) + 1] \in Seq(S)
        <5>1. g[(k + 1) + 1] = g[k + 1] \o ss[(k + 1) + 1]
          BY <1>11, <4>1
        <5> QED BY <1>0, <4>2, <5>1
      <4> QED BY <4>3
    <3>2. CASE ~(k + 2 <= Len(ss))
      BY <1>1, <3>2
    <3> QED BY <3>1, <3>2
  <2>3. Nat \subseteq Q
    <3> HIDE DEF Q
    <3> QED BY <2>1, <2>2, NatInduct
  <2>4. ASSUME NEW i \in 1 .. Len(ss)
        PROVE  g[i] \in Seq(S)
    <3>1. i - 1 \in Nat /\ (i - 1) + 1 = i /\ i <= Len(ss)
      BY <1>1
    <3>2. i - 1 \in Q
      BY <2>3, <3>1
    <3> QED BY <3>1, <3>2
  <2> QED BY <2>4
<1>13. g \in [1 .. Len(ss) -> Seq(S)]
  <2>1. g = [i \in 1 .. Len(ss) |-> g[i]]
    BY <1>7, <1>8, Zenon DEF IsJoin
  <2> QED BY <1>12, <2>1
<1> QED BY <1>7, <1>10, <1>11, <1>13

LEMMA JoinsInAnyOrder ==
    \A S : \A x, y, z \in Seq(S) : (x \o y) \o z = x \o (y \o z)
<1> SUFFICES ASSUME NEW S, NEW x \in Seq(S), NEW y \in Seq(S), NEW z \in Seq(S)
             PROVE  (x \o y) \o z = x \o (y \o z)
  OBVIOUS
<1> QED BY ConcatAssociative

\* The first element of a flattened sequence can be put in front of the others.
LEMMA FlattenFirst ==
    ASSUME NEW S
    PROVE  \A ss \in Seq(Seq(S)) : ss /= <<>> =>
              /\ FlattenSeq(Tail(ss)) \in Seq(S) /\ ss[1] \in Seq(S)
              /\ FlattenSeq(ss) = ss[1] \o FlattenSeq(Tail(ss))
<1>0. \A x, y, z \in Seq(S) : (x \o y) \o z = x \o (y \o z)
  BY JoinsInAnyOrder, SMT
<1> SUFFICES ASSUME NEW ss \in Seq(Seq(S)), ss /= <<>>
             PROVE  /\ FlattenSeq(Tail(ss)) \in Seq(S) /\ ss[1] \in Seq(S)
                    /\ FlattenSeq(ss) = ss[1] \o FlattenSeq(Tail(ss))
  OBVIOUS
<1> DEFINE rest == Tail(ss)
<1>1. /\ Len(ss) \in Nat \ {0} /\ ss[1] \in Seq(S)
      /\ rest \in Seq(Seq(S)) /\ Len(rest) = Len(ss) - 1
      /\ \A i \in 1 .. Len(rest) : rest[i] = ss[i + 1]
  BY HeadTailProperties
<1>2. PICK g \in [1 .. Len(ss) -> Seq(S)] :
         /\ FlattenSeq(ss) = g[Len(ss)]
         /\ g[1] = ss[1]
         /\ \A i \in 1 .. Len(ss) - 1 : g[i + 1] = g[i] \o ss[i + 1]
  BY FlattenJoins
<1> HIDE DEF rest
<1>3. CASE rest = <<>>
  <2>1. FlattenSeq(rest) = <<>>
    BY <1>3 DEF FlattenSeq
  <2>2. Len(ss) = 1
    BY <1>1, <1>3
  <2>3. ss[1] \o <<>> = ss[1] /\ <<>> \in Seq(S)
    BY <1>1, ConcatEmptySeq
  <2> QED BY <1>1, <1>2, <2>1, <2>2, <2>3 DEF rest
<1>4. CASE rest /= <<>>
  <2>0. rest \in Seq(Seq(S))
    BY <1>1
  <2>1. PICK h \in [1 .. Len(rest) -> Seq(S)] :
           /\ FlattenSeq(rest) = h[Len(rest)]
           /\ h[1] = rest[1]
           /\ \A i \in 1 .. Len(rest) - 1 : h[i + 1] = h[i] \o rest[i + 1]
    BY <1>4, <2>0, FlattenJoins
  <2>2. Len(rest) \in Nat \ {0}
    BY <1>4, <2>0, EmptySeq
  <2> DEFINE P == {k \in Nat : k + 1 <= Len(rest) => g[k + 2] = ss[1] \o h[k + 1]}
  <2>3. 0 \in P
    <3>1. 1 \in 1 .. Len(ss) - 1 /\ 1 \in 1 .. Len(rest) /\ 1 + 1 = 2 /\ 0 + 2 = 2 /\ 0 + 1 = 1
      BY <1>1, <2>2
    <3>2. g[2] = g[1] \o ss[2]
      BY <1>2, <3>1
    <3>3. rest[1] = ss[2]
      BY <1>1, <3>1
    <3>4. g[0 + 2] = ss[1] \o h[0 + 1]
      BY <1>2, <2>1, <3>1, <3>2, <3>3
    <3> QED BY <3>4
  <2>4. ASSUME NEW k \in Nat, k \in P
        PROVE  k + 1 \in P
    <3>1. CASE k + 2 <= Len(rest)
      <4>1. /\ k + 1 \in Nat /\ k + 1 \in 1 .. Len(rest) - 1 /\ k + 1 <= Len(rest) /\ k + 2 \in 1 .. Len(rest)
            /\ k + 2 \in 1 .. Len(ss) - 1 /\ (k + 1) + 1 = k + 2 /\ (k + 2) + 1 = k + 3
            /\ k + 3 \in 1 .. Len(ss)
        BY <1>1, <2>2, <3>1
      <4>2. g[k + 2] = ss[1] \o h[k + 1]
        BY <2>4, <4>1
      <4>3. g[k + 3] = g[k + 2] \o ss[k + 3]
        BY <1>2, <4>1
      <4>4. h[k + 2] = h[k + 1] \o ss[k + 3]
        <5>1. h[k + 2] = h[k + 1] \o rest[k + 2]
          BY <2>1, <4>1
        <5>2. rest[k + 2] = ss[k + 3]
          BY <1>1, <4>1
        <5> QED BY <5>1, <5>2
      <4>5. h[k + 1] \in Seq(S) /\ ss[k + 3] \in Seq(S)
        BY <2>1, <4>1
      <4>6. (ss[1] \o h[k + 1]) \o ss[k + 3] = ss[1] \o (h[k + 1] \o ss[k + 3])
        <5>1. ss[1] \in Seq(S)
          BY <1>1
        <5> QED BY <1>0, <4>5, <5>1, Zenon
      <4>7. g[(k + 1) + 2] = ss[1] \o h[(k + 1) + 1]
        <5>1. (k + 1) + 2 = k + 3 /\ (k + 1) + 1 = k + 2
          OBVIOUS
        <5> QED BY <4>2, <4>3, <4>4, <4>6, <5>1
      <4> QED BY <4>1, <4>7, Zenon
    <3>2. CASE ~(k + 2 <= Len(rest))
      <4>1. k + 1 \in Nat /\ ~((k + 1) + 1 <= Len(rest))
        BY <2>2, <3>2
      <4> QED BY <4>1, Zenon
    <3> QED BY <3>1, <3>2
  <2>5. Nat \subseteq P
    <3> HIDE DEF P
    <3> QED BY <2>3, <2>4, NatInduct
  <2>6. g[Len(ss)] = ss[1] \o h[Len(rest)]
    <3>1. Len(rest) - 1 \in Nat /\ (Len(rest) - 1) + 1 = Len(rest) /\ (Len(rest) - 1) + 2 = Len(ss)
      BY <1>1, <2>2
    <3>2. Len(rest) - 1 \in P
      BY <2>5, <3>1
    <3>3. (Len(rest) - 1) + 1 <= Len(rest)
      BY <2>2
    <3>4. g[(Len(rest) - 1) + 2] = ss[1] \o h[(Len(rest) - 1) + 1]
      BY <3>2, <3>3
    <3> QED BY <3>1, <3>4
  <2>7. h[Len(rest)] \in Seq(S)
    <3>1. Len(rest) \in 1 .. Len(rest)
      BY <2>2
    <3> QED BY <3>1, Zenon
  <2> QED BY <1>1, <1>2, <2>1, <2>6, <2>7 DEF rest
<1> QED BY <1>3, <1>4

\* What goes on the line.
Chars == STRING \cup {"\r", "\n"}

\* What the first character of a text puts on the line.
First(call, x) == IF call /= "raw" /\ x = "\n" THEN <<"\r", "\n">> ELSE <<x>>

LEMMA NothingOnLine ==
    ASSUME NEW call
    PROVE  OnLine(call, <<>>) = <<>>
<1>1. ASSUME NEW e
      PROVE  FlattenSeq(e) = e \/ Len(e) /= 0
  BY <1>1 DEF FlattenSeq
<1> DEFINE pieces == [k \in DOMAIN <<>> |-> IF <<>>[k] = "\n" THEN <<"\r", "\n">> ELSE <<<<>>[k]>>]
<1>2. pieces = <<>>
  OBVIOUS
<1>3. FlattenSeq(<<>>) = <<>>
  BY DEF FlattenSeq
<1> QED BY <1>2, <1>3 DEF OnLine

LEMMA LineFirst ==
    ASSUME NEW call, NEW text \in Seq(Chars), text /= <<>>
    PROVE  /\ OnLine(call, Tail(text)) \in Seq(Chars)
           /\ OnLine(call, text) = First(call, text[1]) \o OnLine(call, Tail(text))
           /\ text[1] \in Chars /\ Tail(text) \in Seq(Chars)
<1>1. /\ text[1] \in Chars /\ Tail(text) \in Seq(Chars) /\ Len(text) \in Nat \ {0}
      /\ Len(Tail(text)) = Len(text) - 1
      /\ \A i \in 1 .. Len(Tail(text)) : Tail(text)[i] = text[i + 1]
  BY HeadTailProperties
<1>2. CASE call = "raw"
  <2>1. text = <<text[1]>> \o Tail(text)
    <3>1. <<text[1]>> \in Seq(Chars) /\ Len(<<text[1]>>) = 1 /\ <<text[1]>>[1] = text[1]
      BY <1>1
    <3> DEFINE b == <<text[1]>> \o Tail(text)
    <3>2. /\ b \in Seq(Chars) /\ Len(b) = Len(text)
          /\ \A i \in 1 .. Len(text) : b[i] = IF i <= 1 THEN <<text[1]>>[i] ELSE Tail(text)[i - 1]
      BY <1>1, <3>1, ConcatProperties
    <3>3. \A i \in 1 .. Len(text) : b[i] = text[i]
      BY <1>1, <3>1, <3>2
    <3> HIDE DEF b
    <3>4. b = text
      BY <3>2, <3>3, SeqEqual
    <3> QED BY <3>4 DEF b
  <2> QED BY <1>1, <1>2, <2>1 DEF OnLine, First
<1>3. CASE call /= "raw"
  <2> DEFINE piece(x) == IF x = "\n" THEN <<"\r", "\n">> ELSE <<x>>
             pieces == [k \in DOMAIN text |-> piece(text[k])]
             rest == [k \in DOMAIN Tail(text) |-> piece(Tail(text)[k])]
  <2>1. OnLine(call, text) = FlattenSeq(pieces) /\ OnLine(call, Tail(text)) = FlattenSeq(rest)
    BY <1>3, Zenon DEF OnLine
  <2>2. ASSUME NEW x \in Chars
        PROVE  piece(x) \in Seq(Chars)
    <3>1. "\r" \in Chars /\ "\n" \in Chars
      BY DEF Chars
    <3>2. <<"\r", "\n">> \in Seq(Chars) /\ <<x>> \in Seq(Chars)
      BY <3>1
    <3> QED BY <3>2
  <2> HIDE DEF piece
  <2>3. pieces \in Seq(Seq(Chars)) /\ Len(pieces) = Len(text)
    <3>1. \A k \in 1 .. Len(text) : piece(text[k]) \in Seq(Chars)
      BY <2>2
    <3> QED BY <1>1, <3>1
  <2>4. rest \in Seq(Seq(Chars)) /\ Len(rest) = Len(text) - 1
    <3>1. \A k \in 1 .. Len(Tail(text)) : piece(Tail(text)[k]) \in Seq(Chars)
      BY <1>1, <2>2
    <3> QED BY <1>1, <3>1
  <2>5. Tail(pieces) = rest
    <3>1. pieces /= <<>>
      BY <1>1, <2>3
    <3>2. /\ Tail(pieces) \in Seq(Seq(Chars)) /\ Len(Tail(pieces)) = Len(text) - 1
          /\ \A i \in 1 .. Len(text) - 1 : Tail(pieces)[i] = pieces[i + 1]
      BY <2>3, <3>1, HeadTailProperties
    <3>3. \A i \in 1 .. Len(text) - 1 : rest[i] = pieces[i + 1]
      BY <1>1
    <3> HIDE DEF pieces, rest
    <3> QED BY <2>4, <3>2, <3>3, SeqEqual
  <2>6. pieces[1] = piece(text[1]) /\ pieces /= <<>>
    BY <1>1, <2>3
  <2> HIDE DEF pieces, rest
  <2>7. FlattenSeq(rest) \in Seq(Chars) /\ FlattenSeq(pieces) = pieces[1] \o FlattenSeq(rest)
    BY <2>3, <2>5, <2>6, FlattenFirst
  <2>8. piece(text[1]) = First(call, text[1])
    BY <1>3 DEF piece, First
  <2> QED BY <1>1, <2>1, <2>6, <2>7, <2>8
<1> QED BY <1>2, <1>3

LEMMA LineType ==
    ASSUME NEW call, NEW text \in Seq(Chars)
    PROVE  OnLine(call, text) \in Seq(Chars)
<1>1. CASE text = <<>>
  <2>1. <<>> \in Seq(Chars)
    OBVIOUS
  <2> QED BY <1>1, <2>1, NothingOnLine
<1>2. CASE text /= <<>>
  <2>1. /\ OnLine(call, Tail(text)) \in Seq(Chars) /\ text[1] \in Chars
        /\ OnLine(call, text) = First(call, text[1]) \o OnLine(call, Tail(text))
    BY <1>2, LineFirst
  <2>2. First(call, text[1]) \in Seq(Chars)
    <3>1. "\r" \in Chars /\ "\n" \in Chars
      BY DEF Chars
    <3>2. <<"\r", "\n">> \in Seq(Chars) /\ <<text[1]>> \in Seq(Chars)
      BY <2>1, <3>1
    <3> QED BY <3>2 DEF First
  <2> QED BY <2>1, <2>2, ConcatProperties
<1> QED BY <1>1, <1>2

\* A character that was to come comes.
LEMMA OneMoves ==
    \A done \in Seq(Chars), x \in Chars, rest \in Seq(Chars) :
        Append(done, x) \o rest = done \o (<<x>> \o rest)
<1> SUFFICES ASSUME NEW done \in Seq(Chars), NEW x \in Chars, NEW rest \in Seq(Chars)
             PROVE  Append(done, x) \o rest = done \o (<<x>> \o rest)
  OBVIOUS
<1>1. Append(done, x) = done \o <<x>> /\ <<x>> \in Seq(Chars)
  BY AppendIsConcat
<1> QED BY <1>1, ConcatAssociative

LEMMA TwoAreJoined ==
    ASSUME NEW x, NEW y
    PROVE  <<x>> \o <<y>> = <<x, y>>
<1> DEFINE both == <<x>> \o <<y>>
<1>1. <<x>> \in Seq({x, y}) /\ <<y>> \in Seq({x, y}) /\ <<x, y>> \in Seq({x, y})
  OBVIOUS
<1>2. Len(<<x>>) = 1 /\ Len(<<y>>) = 1 /\ <<x>>[1] = x /\ <<y>>[1] = y
  OBVIOUS
<1>3. /\ both \in Seq({x, y}) /\ Len(both) = Len(<<x>>) + Len(<<y>>)
      /\ \A i \in 1 .. Len(<<x>>) + Len(<<y>>) :
            both[i] = IF i <= Len(<<x>>) THEN <<x>>[i] ELSE <<y>>[i - Len(<<x>>)]
  BY <1>1, ConcatProperties
<1>4. Len(both) = 2 /\ both[1] = x /\ both[2] = y
  BY <1>2, <1>3
<1>5. Len(<<x, y>>) = 2 /\ <<x, y>>[1] = x /\ <<x, y>>[2] = y
  OBVIOUS
<1> HIDE DEF both
<1>6. both = <<x, y>>
  <2>1. \A i \in 1 .. 2 : i = 1 \/ i = 2
    OBVIOUS
  <2>2. \A i \in 1 .. Len(both) : both[i] = <<x, y>>[i]
    BY <1>4, <1>5, <2>1
  <2> QED BY <1>1, <1>3, <1>4, <1>5, <2>2, SeqEqual
<1> QED BY <1>6 DEF both

LEMMA EmptyOrNot == \A s \in Seq(Chars) : s = <<>> <=> Len(s) = 0
<1> SUFFICES ASSUME NEW s \in Seq(Chars) PROVE s = <<>> <=> Len(s) = 0
  OBVIOUS
<1> QED BY EmptySeq

(***************************************************************************)
(* The transmit FIFO has room for every task that is past its poll.        *)
(***************************************************************************)
TxType ==
    /\ thr \in Nat
    /\ sender \in [Senders -> {"idle", "poll", "return", "write"}]
    /\ how \in [Senders -> {"raw", "string"}]
    /\ todo \in [Senders -> Seq(Chars)]
    /\ asked \in [Senders -> Seq(Chars)]
    /\ sent \in [Senders -> Seq(Chars)]

\* Who has polled and not written, and who has two characters to write.
Polled == {s \in Senders : sender[s] \in {"return", "write"}}
Twice == {s \in Senders : sender[s] = "return"}

\* The FIFO was empty when each of them polled, so what it holds now is what
\* the others have written since, at most two characters each.
Room == thr + Cardinality(Polled) + Cardinality(Twice) <= 2 * Cardinality(Senders)

Calls ==
    \A s \in Senders :
        /\ todo[s] = <<>> <=> sender[s] = "idle"
        /\ sender[s] = "return" => how[s] /= "raw" /\ todo[s][1] = "\n"

TxInv == TxType /\ Calls /\ Room /\ TextsArriveWhole

LEMMA Counted ==
    ASSUME NEW A \in SUBSET Senders
    PROVE  /\ IsFiniteSet(A) /\ Cardinality(A) \in Nat /\ Cardinality(Senders) \in Nat
           /\ Cardinality(A) <= Cardinality(Senders)
<1>1. IsFiniteSet(Senders)
  BY TxAssumption
<1>2. IsFiniteSet(A) /\ Cardinality(A) <= Cardinality(Senders)
  BY <1>1, FS_Subset
<1> QED BY <1>1, <1>2, FS_CardinalityType

LEMMA CallStep ==
    ASSUME TxInv, NEW s \in Senders, NEW call \in {"raw", "string"}, NEW text \in Seq(Chars),
           text /= <<>>, Call(s, call, text)
    PROVE  TxInv'
<1>1. /\ sender[s] = "idle" /\ thr' = thr
      /\ sender' = [sender EXCEPT ![s] = "poll"] /\ how' = [how EXCEPT ![s] = call]
      /\ todo' = [todo EXCEPT ![s] = text] /\ asked' = [asked EXCEPT ![s] = OnLine(call, text)]
      /\ sent' = [sent EXCEPT ![s] = <<>>]
  BY DEF Call
<1>2. OnLine(call, text) \in Seq(Chars)
  BY LineType
<1>3. <<>> \in Seq(Chars)
  OBVIOUS
<1>4. TxType'
  BY <1>1, <1>2, <1>3 DEF TxInv, TxType
<1>5. Calls'
  BY <1>1 DEF TxInv, TxType, Calls
<1>6. Room'
  <2>1. Polled' = Polled /\ Twice' = Twice
    BY <1>1 DEF TxInv, TxType, Polled, Twice
  <2> QED BY <1>1, <2>1 DEF TxInv, Room
<1>7. TextsArriveWhole'
  <2>1. ASSUME NEW u \in Senders
        PROVE  (sent[u] \o Remaining(u) = asked[u])'
    <3>1. CASE u = s
      <4>1. sent'[s] = <<>> /\ asked'[s] = OnLine(call, text) /\ Remaining(s)' = OnLine(call, text)
        BY <1>1 DEF TxInv, TxType, Remaining
      <4> QED BY <1>2, <3>1, <4>1, ConcatEmptySeq
    <3>2. CASE u /= s
      <4>1. sent'[u] = sent[u] /\ asked'[u] = asked[u] /\ Remaining(u)' = Remaining(u)
        BY <1>1, <3>2 DEF TxInv, TxType, Remaining
      <4> QED BY <4>1 DEF TxInv, TextsArriveWhole
    <3> QED BY <3>1, <3>2
  <2> QED BY <2>1 DEF TextsArriveWhole
<1> QED BY <1>4, <1>5, <1>6, <1>7 DEF TxInv

LEMMA PollStep ==
    ASSUME TxInv, NEW s \in Senders, Poll(s)
    PROVE  TxInv'
<1> DEFINE next_pc == IF how[s] = "string" /\ todo[s][1] = "\n" THEN "return" ELSE "write"
<1>1. /\ sender[s] = "poll" /\ thr = 0 /\ UNCHANGED <<thr, how, todo, asked, sent>>
      /\ sender' = [sender EXCEPT ![s] = next_pc]
  BY DEF Poll
<1>2. TxType'
  BY <1>1 DEF TxInv, TxType
<1>3. Calls'
  BY <1>1 DEF TxInv, TxType, Calls
<1>4. Room'
  <2>1. Polled' \in SUBSET Senders /\ Twice' \in SUBSET Senders
    BY DEF Polled, Twice
  <2>2. /\ Cardinality(Polled') \in Nat /\ Cardinality(Twice') \in Nat /\ Cardinality(Senders) \in Nat
        /\ Cardinality(Polled') <= Cardinality(Senders) /\ Cardinality(Twice') <= Cardinality(Senders)
    BY <2>1, Counted
  <2> QED BY <1>1, <2>2 DEF Room
<1>5. TextsArriveWhole'
  <2>1. ASSUME NEW u \in Senders
        PROVE  (sent[u] \o Remaining(u) = asked[u])'
    <3>1. sent[u] \o Remaining(u) = asked[u]
      BY DEF TxInv, TextsArriveWhole
    <3>2. CASE u = s
      <4>1. todo[s] \in Seq(Chars) /\ todo[s] /= <<>> /\ how[s] \in {"raw", "string"}
        BY <1>1 DEF TxInv, TxType, Calls
      <4>2. OnLine(how[s], todo[s]) = First(how[s], todo[s][1]) \o OnLine(how[s], Tail(todo[s]))
        BY <4>1, LineFirst
      <4>3. Remaining(s) = OnLine(how[s], todo[s])
        BY <1>1 DEF Remaining
      <4>4. CASE next_pc = "return"
        <5>1. sender'[s] = "return"
          BY <1>1, <4>4 DEF TxInv, TxType
        <5>2. Remaining(s)' = OnLine(how[s], todo[s])
          BY <1>1, <5>1 DEF Remaining
        <5> QED BY <1>1, <3>1, <3>2, <4>3, <5>2
      <4>5. CASE next_pc /= "return"
        <5>1. sender'[s] = "write"
          BY <1>1, <4>5 DEF TxInv, TxType
        <5>2. First(how[s], todo[s][1]) = <<todo[s][1]>>
          BY <4>1, <4>5 DEF First
        <5>3. Remaining(s)' = <<todo[s][1]>> \o OnLine(how[s], Tail(todo[s]))
          BY <1>1, <5>1 DEF Remaining
        <5> QED BY <1>1, <3>1, <3>2, <4>2, <4>3, <5>2, <5>3
      <4> QED BY <4>4, <4>5
    <3>3. CASE u /= s
      <4>1. sent'[u] = sent[u] /\ asked'[u] = asked[u] /\ Remaining(u)' = Remaining(u)
        BY <1>1, <3>3 DEF TxInv, TxType, Remaining
      <4> QED BY <3>1, <4>1
    <3> QED BY <3>2, <3>3
  <2> QED BY <2>1 DEF TextsArriveWhole
<1> QED BY <1>2, <1>3, <1>4, <1>5 DEF TxInv

\* A write finds room: whoever is past his poll is counted in it.
LEMMA RoomForOne ==
    ASSUME TxInv, NEW s \in Senders, sender[s] \in {"return", "write"}
    PROVE  thr < ThrDepth
<1>1. Polled \in SUBSET Senders /\ Twice \in SUBSET Senders /\ s \in Polled
  BY DEF Polled, Twice
<1>2. /\ Cardinality(Polled) \in Nat /\ Cardinality(Twice) \in Nat /\ Cardinality(Senders) \in Nat
      /\ IsFiniteSet(Polled)
  BY <1>1, Counted
<1>3. Cardinality(Polled) /= 0
  BY <1>1, <1>2, FS_EmptySet
<1> QED BY <1>2, <1>3, TxAssumption DEF TxInv, TxType, Room

LEMMA ReturnStep ==
    ASSUME TxInv, NEW s \in Senders, CarriageReturn(s)
    PROVE  TxInv'
<1>1. /\ sender[s] = "return" /\ thr < ThrDepth
      /\ sender' = [sender EXCEPT ![s] = "write"] /\ UNCHANGED <<how, todo, asked>>
      /\ thr' = thr + 1 /\ sent' = [sent EXCEPT ![s] = Append(sent[s], "\r")]
  <2>1. sender[s] = "return"
    BY DEF CarriageReturn
  <2>2. thr < ThrDepth
    BY <2>1, RoomForOne
  <2> QED BY <2>1, <2>2 DEF CarriageReturn, Put
<1>2. "\r" \in Chars /\ "\n" \in Chars
  BY DEF Chars
<1>3. /\ todo[s] \in Seq(Chars) /\ todo[s] /= <<>> /\ todo[s][1] = "\n" /\ how[s] /= "raw"
      /\ sent[s] \in Seq(Chars)
  BY <1>1 DEF TxInv, TxType, Calls
<1>4. Append(sent[s], "\r") \in Seq(Chars)
  BY <1>2, <1>3
<1>5. TxType'
  BY <1>1, <1>4 DEF TxInv, TxType
<1>6. Calls'
  BY <1>1 DEF TxInv, TxType, Calls
<1>7. Room'
  <2>1. Polled' = Polled /\ Twice' = Twice \ {s} /\ s \in Twice
    BY <1>1 DEF TxInv, TxType, Polled, Twice
  <2>2. Polled \in SUBSET Senders /\ Twice \in SUBSET Senders
    BY DEF Polled, Twice
  <2>3. /\ Cardinality(Polled) \in Nat /\ Cardinality(Twice) \in Nat /\ Cardinality(Senders) \in Nat
        /\ IsFiniteSet(Twice)
    BY <2>2, Counted
  <2>4. Cardinality(Twice') = Cardinality(Twice) - 1
    BY <2>1, <2>3, FS_RemoveElement
  <2>5. thr \in Nat
    BY DEF TxInv, TxType
  <2>6. Cardinality(Polled') = Cardinality(Polled)
    BY <2>1
  <2> QED BY <1>1, <2>3, <2>4, <2>5, <2>6 DEF TxInv, Room
<1>8. TextsArriveWhole'
  <2>1. ASSUME NEW u \in Senders
        PROVE  (sent[u] \o Remaining(u) = asked[u])'
    <3>1. sent[u] \o Remaining(u) = asked[u]
      BY DEF TxInv, TextsArriveWhole
    <3>2. CASE u = s
      <4> DEFINE rest == OnLine(how[s], Tail(todo[s]))
      <4>1. rest \in Seq(Chars) /\ OnLine(how[s], todo[s]) = First(how[s], todo[s][1]) \o rest
        BY <1>3, LineFirst
      <4>2. Remaining(s) = OnLine(how[s], todo[s])
        BY <1>1 DEF Remaining
      <4>3. Remaining(s)' = <<"\n">> \o rest
        BY <1>1, <1>3 DEF TxInv, TxType, Remaining
      <4> HIDE DEF rest
      <4>4. <<"\r", "\n">> \o rest = <<"\r">> \o (<<"\n">> \o rest)
        <5>1. <<"\r">> \in Seq(Chars) /\ <<"\n">> \in Seq(Chars) /\ <<"\r">> \o <<"\n">> = <<"\r", "\n">>
          BY <1>2, TwoAreJoined
        <5> QED BY <4>1, <5>1, ConcatAssociative
      <4>5. <<"\n">> \o rest \in Seq(Chars)
        BY <1>2, <4>1
      <4>6. Append(sent[s], "\r") \o (<<"\n">> \o rest) = sent[s] \o (<<"\r">> \o (<<"\n">> \o rest))
        BY <1>2, <1>3, <4>5, OneMoves
      <4>7. sent'[s] = Append(sent[s], "\r") /\ asked'[s] = asked[s]
        BY <1>1 DEF TxInv, TxType
      <4>8. First(how[s], todo[s][1]) = <<"\r", "\n">>
        BY <1>3 DEF First
      <4> QED BY <3>1, <3>2, <4>1, <4>2, <4>3, <4>4, <4>6, <4>7, <4>8
    <3>3. CASE u /= s
      <4>1. sent'[u] = sent[u] /\ asked'[u] = asked[u] /\ Remaining(u)' = Remaining(u)
        BY <1>1, <3>3 DEF TxInv, TxType, Remaining
      <4> QED BY <3>1, <4>1
    <3> QED BY <3>2, <3>3
  <2> QED BY <2>1 DEF TextsArriveWhole
<1> QED BY <1>5, <1>6, <1>7, <1>8 DEF TxInv

LEMMA WriteStep ==
    ASSUME TxInv, NEW s \in Senders, Write(s)
    PROVE  TxInv'
<1> DEFINE x == todo[s][1]
           rest == OnLine(how[s], Tail(todo[s]))
<1>1. /\ sender[s] = "write" /\ thr < ThrDepth
      /\ sender' = [sender EXCEPT ![s] = IF Len(todo[s]) = 1 THEN "idle" ELSE "poll"]
      /\ todo' = [todo EXCEPT ![s] = Tail(todo[s])] /\ UNCHANGED <<how, asked>>
      /\ thr' = thr + 1 /\ sent' = [sent EXCEPT ![s] = Append(sent[s], x)]
  <2>1. sender[s] = "write"
    BY DEF Write
  <2>2. thr < ThrDepth
    BY <2>1, RoomForOne
  <2> QED BY <2>1, <2>2 DEF Write, Put
<1>2. todo[s] \in Seq(Chars) /\ todo[s] /= <<>> /\ sent[s] \in Seq(Chars)
  BY <1>1 DEF TxInv, TxType, Calls
<1>3. rest \in Seq(Chars) /\ x \in Chars /\ Tail(todo[s]) \in Seq(Chars)
  BY <1>2, LineFirst
<1>4. Append(sent[s], x) \in Seq(Chars)
  BY <1>2, <1>3
<1>5. Tail(todo[s]) = <<>> <=> Len(todo[s]) = 1
  <2>1. Len(Tail(todo[s])) = Len(todo[s]) - 1 /\ Len(todo[s]) \in Nat
    BY <1>2
  <2>2. Tail(todo[s]) = <<>> <=> Len(Tail(todo[s])) = 0
    BY <1>3, EmptyOrNot
  <2> QED BY <2>1, <2>2
<1>6. TxType'
  BY <1>1, <1>3, <1>4 DEF TxInv, TxType
<1>7. Calls'
  BY <1>1, <1>5 DEF TxInv, TxType, Calls
<1>8. Room'
  <2>1. Polled' = Polled \ {s} /\ Twice' = Twice /\ s \in Polled
    BY <1>1 DEF TxInv, TxType, Polled, Twice
  <2>2. Polled \in SUBSET Senders /\ Twice \in SUBSET Senders
    BY DEF Polled, Twice
  <2>3. /\ Cardinality(Polled) \in Nat /\ Cardinality(Twice) \in Nat /\ Cardinality(Senders) \in Nat
        /\ IsFiniteSet(Polled)
    BY <2>2, Counted
  <2>4. Cardinality(Polled') = Cardinality(Polled) - 1
    BY <2>1, <2>3, FS_RemoveElement
  <2>5. thr \in Nat
    BY DEF TxInv, TxType
  <2>6. Cardinality(Twice') = Cardinality(Twice)
    BY <2>1
  <2> QED BY <1>1, <2>3, <2>4, <2>5, <2>6 DEF TxInv, Room
<1>9. TextsArriveWhole'
  <2>1. ASSUME NEW u \in Senders
        PROVE  (sent[u] \o Remaining(u) = asked[u])'
    <3>1. sent[u] \o Remaining(u) = asked[u]
      BY DEF TxInv, TextsArriveWhole
    <3>2. CASE u = s
      <4>1. Remaining(s) = <<x>> \o rest
        BY <1>1 DEF Remaining
      <4>2. sender'[s] /= "write" /\ todo'[s] = Tail(todo[s]) /\ how'[s] = how[s]
        BY <1>1 DEF TxInv, TxType
      <4>3. Remaining(s)' = rest
        BY <4>2 DEF Remaining
      <4>4. sent'[s] = Append(sent[s], x) /\ asked'[s] = asked[s]
        BY <1>1 DEF TxInv, TxType
      <4> HIDE DEF x, rest
      <4>5. Append(sent[s], x) \o rest = sent[s] \o (<<x>> \o rest)
        BY <1>2, <1>3, OneMoves
      <4> QED BY <3>1, <3>2, <4>1, <4>3, <4>4, <4>5
    <3>3. CASE u /= s
      <4>1. sent'[u] = sent[u] /\ asked'[u] = asked[u] /\ Remaining(u)' = Remaining(u)
        BY <1>1, <3>3 DEF TxInv, TxType, Remaining
      <4> QED BY <3>1, <4>1
    <3> QED BY <3>2, <3>3
  <2> QED BY <2>1 DEF TextsArriveWhole
<1> QED BY <1>6, <1>7, <1>8, <1>9 DEF TxInv

LEMMA TxStart == TxInit => TxInv
<1> SUFFICES ASSUME TxInit PROVE TxInv
  OBVIOUS
<1>1. <<>> \in Seq(Chars)
  OBVIOUS
<1>2. TxType
  BY <1>1 DEF TxInit, TxType
<1>3. Calls
  BY DEF TxInit, Calls
<1>4. Room
  <2>1. Polled = {} /\ Twice = {}
    BY DEF TxInit, Polled, Twice
  <2>2. Cardinality(Senders) \in Nat
    BY TxAssumption, FS_CardinalityType
  <2>3. Cardinality(Polled) = 0 /\ Cardinality(Twice) = 0
    BY <2>1, FS_EmptySet
  <2> QED BY <2>2, <2>3 DEF TxInit, Room
<1>5. TextsArriveWhole
  <2>1. \A s \in Senders : Remaining(s) = <<>>
    BY NothingOnLine DEF TxInit, Remaining
  <2>2. <<>> \o <<>> = <<>>
    BY <1>1, ConcatEmptySeq
  <2> QED BY <2>1, <2>2 DEF TxInit, TextsArriveWhole
<1> QED BY <1>2, <1>3, <1>4, <1>5 DEF TxInv

LEMMA TxStep == TxInv /\ [Transmit]_txVars => TxInv'
<1> SUFFICES ASSUME TxInv, [Transmit]_txVars PROVE TxInv'
  OBVIOUS
<1>1. CASE UNCHANGED txVars
  <2>1. UNCHANGED <<thr, sender, how, todo, asked, sent>>
    BY <1>1 DEF txVars
  <2>2. TxType' /\ Calls'
    BY <2>1 DEF TxInv, TxType, Calls
  <2>3. Room'
    BY <2>1 DEF TxInv, Room, Polled, Twice
  <2>4. TextsArriveWhole'
    BY <2>1 DEF TxInv, TextsArriveWhole, Remaining
  <2> QED BY <2>2, <2>3, <2>4 DEF TxInv
<1>2. CASE Shift
  <2>1. thr > 0 /\ thr' = thr - 1 /\ UNCHANGED <<sender, how, todo, asked, sent>>
    BY <1>2 DEF Shift
  <2>2. TxType' /\ Calls'
    BY <2>1 DEF TxInv, TxType, Calls
  <2>3. Room'
    <3>1. Polled \in SUBSET Senders /\ Twice \in SUBSET Senders /\ Polled' = Polled /\ Twice' = Twice
      BY <2>1 DEF Polled, Twice
    <3>2. /\ Cardinality(Polled) \in Nat /\ Cardinality(Twice) \in Nat /\ Cardinality(Senders) \in Nat
      BY <3>1, Counted
    <3>3. thr \in Nat
      BY DEF TxInv, TxType
    <3> QED BY <2>1, <3>1, <3>2, <3>3 DEF TxInv, Room
  <2>4. TextsArriveWhole'
    BY <2>1 DEF TxInv, TextsArriveWhole, Remaining
  <2> QED BY <2>2, <2>3, <2>4 DEF TxInv
<1>3. ASSUME NEW s \in Senders, UARTSend(s) \/ UARTSendStr(s)
      PROVE  TxInv'
  <2>1. PICK text \in Texts : Call(s, "raw", text) \/ Call(s, "string", text)
    BY <1>3 DEF UARTSend, UARTSendStr
  <2>2. text \in Seq(Chars) /\ text /= <<>>
    BY TxAssumption DEF Chars
  <2> QED BY <2>1, <2>2, CallStep
<1>4. ASSUME NEW s \in Senders, UARTPutChar(s)
      PROVE  TxInv'
  <2>1. PICK text \in Texts : Call(s, "raw", <<text[1]>>)
    BY <1>4 DEF UARTPutChar
  <2>2. text \in Seq(Chars) /\ text /= <<>>
    BY TxAssumption DEF Chars
  <2>3. <<text[1]>> \in Seq(Chars) /\ <<text[1]>> /= <<>>
    BY <2>2
  <2> QED BY <2>1, <2>3, CallStep
<1> QED BY <1>1, <1>2, <1>3, <1>4, PollStep, ReturnStep, WriteStep DEF Transmit

(***************************************************************************)
(* The port, which does both.                                              *)
(***************************************************************************)
LEMMA ReceivePart == PortSpec => Spec
<1>1. UARTInit => Init
  BY DEF UARTInit
<1>2. [Receive \/ Send]_PortVars => [Next]_vars
  BY DEF Receive, Send, PortVars
<1> QED BY <1>1, <1>2, PTL DEF PortSpec, Spec

\* UARTGetChar returns the stored characters, each once, in order, whatever
\* interrupts arrive between its accesses to the ring.
THEOREM ReaderOrder == PortSpec => []ReadsWhatWasStored
<1>1. RingInv => ReadsWhatWasStored
  BY DEF RingInv, ReadsWhatWasStored
<1> QED BY <1>1, RingInvariant, ReceivePart, PTL

\* No stored character is overwritten before it is returned.
THEOREM RingConserves == PortSpec => []RingHoldsTheRest
<1>1. RingInv => RingHoldsTheRest
  <2> SUFFICES ASSUME RingInv PROVE RingHoldsTheRest
    OBVIOUS
  <2>1. Len(got) \in Nat /\ Len(stored) \in Nat
    BY DEF RingInv, TypeOK
  <2>2. Used \in Int
    BY Distance DEF RingInv, TypeOK, Used
  <2> QED BY <2>1, <2>2, SMT DEF RingInv, RingHoldsTheRest
<1> QED BY <1>1, RingInvariant, ReceivePart, PTL

\* The ring with its two users at work is a queue of UART_BUFSIZE - 1
\* characters, put and taken in one step each.
THEOREM RingIsQueue == PortSpec => ImplementsQueue
  BY RingImplements, ReceivePart

\* Every character that a task prints goes into the transmit FIFO, in order
\* and with its '\r', however the writers interleave.
THEOREM TextsSent == PortSpec => []TextsArriveWhole
<1>1. UARTInit => TxInit
  BY DEF UARTInit
<1>2. [Receive \/ Send]_PortVars => [Transmit]_txVars
  BY DEF Receive, Send, PortVars
<1>3. TxInv => TextsArriveWhole
  BY DEF TxInv
<1> QED BY <1>1, <1>2, <1>3, TxStart, TxStep, PTL DEF PortSpec
=============================================================================
