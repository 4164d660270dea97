---------------------------- MODULE MtRingProofs ----------------------------
(***************************************************************************)
(* The ring buffer of a channel implements a bounded FIFO queue, for every *)
(* capacity and every set of elements.                                     *)
(***************************************************************************)
EXTENDS MtRing, SequenceTheorems, TLAPS

\* The indices are those of slots, and tail is where head and len say.
RingInv ==
    /\ buffer \in [0 .. Slots - 1 -> Payloads]
    /\ head \in 0 .. Slots - 1 /\ tail \in 0 .. Slots - 1
    /\ len \in 0 .. Slots
    /\ tail = (head + len) % Slots

\* The slot at distance k from slot h, without a division.
SlotAt(h, k) == IF h + k < Slots THEN h + k ELSE h + k - Slots

\* The index arithmetic of mt_chan_buffer_push and mt_chan_buffer_pop comes down
\* to SlotAt.
LEMMA SlotFromHead ==
    ASSUME NEW h \in 0 .. Slots - 1, NEW k \in 0 .. Slots
    PROVE  (h + k) % Slots = SlotAt(h, k) /\ SlotAt(h, k) \in 0 .. Slots - 1
  <1>1. h + k \in Nat /\ h + k < 2 * Slots /\ Slots \in Nat \ {0}
    BY RingAssumption
  <1>2. (h + k) % Slots = IF h + k < Slots THEN h + k ELSE h + k - Slots
    BY <1>1
  <1> QED BY <1>1, <1>2 DEF SlotAt

\* Two distances add up, within one turn of the ring.
LEMMA SlotSum ==
    ASSUME NEW h \in 0 .. Slots - 1, NEW j \in 0 .. Slots, NEW k \in 0 .. Slots, j + k <= Slots
    PROVE  SlotAt(SlotAt(h, j), k) = SlotAt(h, j + k)
  BY RingAssumption DEF SlotAt

\* What a buffer b holds, n elements from slot h on.
ElementsFrom(b, h, n) == [i \in 1 .. n |-> b[(h + i - 1) % Slots]]

\* It is a sequence of elements.
LEMMA ElementAt ==
    ASSUME NEW b \in [0 .. Slots - 1 -> Payloads],
           NEW h \in 0 .. Slots - 1, NEW n \in 0 .. Slots
    PROVE  /\ ElementsFrom(b, h, n) \in Seq(Payloads) /\ Len(ElementsFrom(b, h, n)) = n
           /\ \A i \in 1 .. n : ElementsFrom(b, h, n)[i] = b[SlotAt(h, i - 1)]
  <1> DEFINE c == ElementsFrom(b, h, n)
  <1>1. \A i \in 1 .. n :
           (h + i - 1) % Slots = SlotAt(h, i - 1) /\ SlotAt(h, i - 1) \in 0 .. Slots - 1
    <2> TAKE i \in 1 .. n
    <2>1. i - 1 \in 0 .. Slots /\ h + (i - 1) = h + i - 1
      BY RingAssumption
    <2> QED BY <2>1, SlotFromHead
  <1>2. c = [i \in 1 .. n |-> b[SlotAt(h, i - 1)]]
    BY <1>1 DEF ElementsFrom
  <1>3. \A i \in 1 .. n : b[SlotAt(h, i - 1)] \in Payloads
    BY <1>1
  <1>4. n \in Nat /\ c \in [1 .. n -> Payloads]
    BY <1>2, <1>3, RingAssumption
  <1>5. c \in Seq(Payloads)
    BY <1>4, SeqDef
  <1>6. Len(c) = n
    BY <1>4, <1>5, LenProperties
  <1> HIDE DEF c
  <1>7. \A i \in 1 .. n : c[i] = b[SlotAt(h, i - 1)]
    BY <1>2
  <1> QED BY <1>5, <1>6, <1>7 DEF c

LEMMA RingInitInv == RingInit => RingInv
  <1>1. (0 + 0) % Slots = 0
    BY RingAssumption
  <1> QED BY <1>1, RingAssumption DEF RingInit, RingInv

\* A push writes behind the last element, into a slot that holds none.
LEMMA PushAppends ==
    ASSUME RingInv, NEW v \in Payloads, mt_chan_buffer_push(v)
    PROVE  RingInv' /\ Fifo!Enqueue(v)
  <1>1. tail = SlotAt(head, len) /\ len + 1 \in 0 .. Slots
    <2>1. head \in 0 .. Slots - 1 /\ len \in 0 .. Slots /\ len + 1 \in 0 .. Slots
      BY RingAssumption DEF RingInv, mt_chan_buffer_push
    <2> QED BY <2>1, SlotFromHead DEF RingInv
  <1>2. tail' = (head + (len + 1)) % Slots /\ tail' \in 0 .. Slots - 1
    <2>1. tail' = SlotAt(tail, 1) /\ tail' \in 0 .. Slots - 1
      <3>1. 1 \in 0 .. Slots /\ tail \in 0 .. Slots - 1
        BY RingAssumption DEF RingInv
      <3> QED BY <3>1, SlotFromHead DEF mt_chan_buffer_push
    <2>2. (head + (len + 1)) % Slots = SlotAt(head, len + 1)
      BY <1>1, SlotFromHead DEF RingInv
    <2>3. SlotAt(tail, 1) = SlotAt(head, len + 1)
      <3>1. head \in 0 .. Slots - 1 /\ len \in 0 .. Slots /\ 1 \in 0 .. Slots /\ len + 1 <= Slots
        BY <1>1, RingAssumption DEF RingInv
      <3> QED BY <1>1, <3>1, SlotSum
    <2> QED BY <2>1, <2>2, <2>3
  <1>3. RingInv'
    BY <1>1, <1>2 DEF RingInv, mt_chan_buffer_push
  <1>4. /\ Contents \in Seq(Payloads) /\ Len(Contents) = len
        /\ \A i \in 1 .. len : Contents[i] = buffer[SlotAt(head, i - 1)]
    <2>1. Contents = ElementsFrom(buffer, head, len)
      BY DEF Contents, ElementsFrom
    <2> QED BY <2>1, ElementAt DEF RingInv
  <1>5. /\ Contents' \in Seq(Payloads) /\ Len(Contents') = len + 1
        /\ \A i \in 1 .. len + 1 : Contents'[i] = buffer'[SlotAt(head, i - 1)]
    <2>1. /\ buffer' \in [0 .. Slots - 1 -> Payloads] /\ head' = head /\ len' = len + 1
          /\ head' \in 0 .. Slots - 1 /\ len' \in 0 .. Slots
      BY <1>3 DEF RingInv, mt_chan_buffer_push
    <2>2. Contents' = ElementsFrom(buffer', head', len')
      BY DEF Contents, ElementsFrom
    <2>3. /\ Contents' \in Seq(Payloads) /\ Len(Contents') = len'
          /\ \A i \in 1 .. len' : Contents'[i] = buffer'[SlotAt(head', i - 1)]
      BY <2>1, <2>2, ElementAt
    <2> QED BY <2>1, <2>3
  <1>6. \A i \in 1 .. len : SlotAt(head, i - 1) # tail /\ SlotAt(head, i - 1) \in DOMAIN buffer
    BY <1>1, RingAssumption DEF RingInv, SlotAt
  <1>7. \A i \in 1 .. len : Contents'[i] = Contents[i]
    BY <1>4, <1>5, <1>6 DEF RingInv, mt_chan_buffer_push
  <1>8. Contents'[len + 1] = v
    <2>1. SlotAt(head, (len + 1) - 1) = tail /\ len + 1 \in 1 .. len + 1
      BY <1>1 DEF RingInv
    <2> QED BY <2>1, <1>5 DEF RingInv, mt_chan_buffer_push
  <1>9. Contents' = Append(Contents, v)
    BY <1>4, <1>5, <1>7, <1>8 DEF RingInv
  <1> QED BY <1>3, <1>4, <1>9 DEF Fifo!Enqueue, mt_chan_buffer_push

\* A pop takes the first element and leaves the others as they were.
LEMMA PopTakesFirst ==
    ASSUME RingInv, mt_chan_buffer_pop
    PROVE  RingInv' /\ Fifo!Dequeue
  <1>0. /\ head \in 0 .. Slots - 1 /\ len \in 1 .. Slots /\ len - 1 \in 0 .. Slots /\ 1 \in 0 .. Slots
        /\ taken' = <<buffer[head]>> /\ len' = len - 1 /\ buffer' = buffer /\ tail' = tail
    BY RingAssumption DEF RingInv, mt_chan_buffer_pop
  <1>1. head' = SlotAt(head, 1) /\ head' \in 0 .. Slots - 1
    BY <1>0, SlotFromHead DEF mt_chan_buffer_pop
  <1>2. tail = (head' + (len - 1)) % Slots
    <2>1. (head' + (len - 1)) % Slots = SlotAt(head', len - 1)
      BY <1>0, <1>1, SlotFromHead
    <2>2. tail = SlotAt(head, len)
      BY SlotFromHead DEF RingInv
    <2>3. 1 + (len - 1) = len /\ 1 + (len - 1) <= Slots
      BY <1>0, RingAssumption
    <2>4. SlotAt(head', len - 1) = SlotAt(head, len)
      BY <1>0, <1>1, <2>3, SlotSum
    <2> QED BY <2>1, <2>2, <2>4
  <1>3. RingInv'
    BY <1>0, <1>1, <1>2 DEF RingInv
  <1>4. /\ Contents \in Seq(Payloads) /\ Len(Contents) = len
        /\ \A i \in 1 .. len : Contents[i] = buffer[SlotAt(head, i - 1)]
    <2>1. Contents = ElementsFrom(buffer, head, len)
      BY DEF Contents, ElementsFrom
    <2> QED BY <2>1, ElementAt DEF RingInv
  <1>5. /\ Contents' \in Seq(Payloads) /\ Len(Contents') = len - 1
        /\ \A i \in 1 .. len - 1 : Contents'[i] = buffer[SlotAt(head', i - 1)]
    <2>1. /\ buffer \in [0 .. Slots - 1 -> Payloads] /\ buffer' = buffer /\ len' = len - 1
          /\ head' \in 0 .. Slots - 1 /\ len' \in 0 .. Slots
      BY <1>0, <1>1 DEF RingInv
    <2>2. Contents' = ElementsFrom(buffer', head', len')
      BY DEF Contents, ElementsFrom
    <2>3. /\ Contents' \in Seq(Payloads) /\ Len(Contents') = len'
          /\ \A i \in 1 .. len' : Contents'[i] = buffer'[SlotAt(head', i - 1)]
      BY <2>1, <2>2, ElementAt
    <2> QED BY <2>1, <2>3
  <1>6. \A i \in 1 .. len - 1 : SlotAt(head', i - 1) = SlotAt(head, (i + 1) - 1)
    <2> TAKE i \in 1 .. len - 1
    <2>1. i - 1 \in 0 .. Slots /\ 1 + (i - 1) = (i + 1) - 1 /\ 1 + (i - 1) <= Slots
      BY <1>0, RingAssumption
    <2> QED BY <1>0, <1>1, <2>1, SlotSum
  <1>7. \A i \in 1 .. len - 1 : Contents'[i] = Contents[i + 1]
    <2> TAKE i \in 1 .. len - 1
    <2>1. i + 1 \in 1 .. len
      BY <1>0
    <2>2. Contents[i + 1] = buffer[SlotAt(head, (i + 1) - 1)]
      BY <2>1, <1>4
    <2> QED BY <2>2, <1>5, <1>6
  <1>8. Contents' = Tail(Contents)
    BY <1>0, <1>4, <1>5, <1>7
  <1>9. Contents # <<>> /\ Head(Contents) = buffer[head]
    <2>1. SlotAt(head, 1 - 1) = head /\ 1 \in 1 .. len
      BY <1>0, RingAssumption DEF SlotAt
    <2>2. Contents[1] = buffer[head]
      BY <1>4, <2>1
    <2> QED BY <1>0, <1>4, <2>2
  <1> QED BY <1>0, <1>3, <1>8, <1>9 DEF Fifo!Dequeue

\* Every step keeps RingInv and is a step of the queue, or leaves it alone.
LEMMA RingStep ==
    ASSUME RingInv, [RingNext]_ringVars
    PROVE  RingInv' /\ [Fifo!Next]_<<Contents, taken>>
  <1>1. CASE \E v \in Payloads : mt_chan_buffer_push(v)
    BY <1>1, PushAppends DEF Fifo!Next
  <1>2. CASE mt_chan_buffer_pop
    BY <1>2, PopTakesFirst DEF Fifo!Next
  <1>3. CASE UNCHANGED ringVars
    BY <1>3 DEF ringVars, RingInv, Contents
  <1> QED BY <1>1, <1>2, <1>3 DEF RingNext

\* The ring buffer of a channel implements a bounded FIFO queue: the elements
\* that mt_chan_buffer_pop copies out are those mt_chan_buffer_push copied in,
\* each once and in order, for every capacity.
THEOREM RingImplementsFifo == RingSpec => RingIsFifo
  <1>1. RingInit => RingInv /\ Fifo!Init
    <2>1. RingInit => Contents = <<>>
      BY DEF RingInit, Contents
    <2> QED BY <2>1, RingInitInv DEF RingInit, Fifo!Init
  <1>2. RingInv /\ [RingNext]_ringVars => RingInv' /\ [Fifo!Next]_<<Contents, taken>>
    BY RingStep
  <1> QED BY <1>1, <1>2, PTL DEF RingSpec, RingIsFifo, Fifo!Spec
=============================================================================
