------------------------------- MODULE MtRing -------------------------------
(***************************************************************************)
(* The ring buffer of a channel (channel.c), which MtChannel keeps as a    *)
(* sequence.                                                               *)
(***************************************************************************)
EXTENDS Naturals

CONSTANTS
    Slots,      \* ch->capacity
    Payloads    \* what an element may be

ASSUME RingAssumption == Slots \in Nat \ {0}

VARIABLES buffer, head, tail, len,
          taken     \* what the last operation copied out

ringVars == <<buffer, head, tail, len, taken>>

\* The buffer is not initialised.
RingInit ==
    /\ buffer \in [0 .. Slots - 1 -> Payloads]
    /\ head = 0 /\ tail = 0 /\ len = 0
    /\ taken = <<>>

\* Mutated form: the index is reset one element early.
PushWrapsEarly(v) ==
    /\ len < Slots
    /\ buffer' = [buffer EXCEPT ![tail] = v]
    /\ tail' = IF tail + 2 > Slots - 1 THEN 0 ELSE tail + 1
    /\ len' = len + 1
    /\ taken' = <<>> /\ UNCHANGED head

\* Every caller has found a free slot, with the lock held.
mt_chan_buffer_push(v) ==
    /\ len < Slots
    /\ buffer' = [buffer EXCEPT ![tail] = v]
    /\ tail' = (tail + 1) % Slots
    /\ len' = len + 1
    /\ taken' = <<>> /\ UNCHANGED head

\* Every caller has found an element, with the lock held.
mt_chan_buffer_pop ==
    /\ len > 0
    /\ taken' = <<buffer[head]>>
    /\ head' = (head + 1) % Slots
    /\ len' = len - 1
    /\ UNCHANGED <<buffer, tail>>

RingNext == (\E v \in Payloads : mt_chan_buffer_push(v)) \/ mt_chan_buffer_pop

RingSpec == RingInit /\ [][RingNext]_ringVars

-----------------------------------------------------------------------------
\* The elements from the head on.
Contents == [i \in 1 .. len |-> buffer[(head + i - 1) % Slots]]

Fifo == INSTANCE MtFifo WITH Elems <- Payloads, Bound <- Slots, queue <- Contents, out <- taken

\* The ring buffer is the bounded queue that mt_chan_send and mt_chan_recv use
\* it as: with head, tail and len kept apart and wrapping separately, no element
\* is lost, overwritten, repeated or overtaken.
RingIsFifo == Fifo!Spec
=============================================================================
