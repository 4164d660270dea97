------------------------------- MODULE MtFifo -------------------------------
(***************************************************************************)
(* What the other modules take a queue of the runtime to be: a sequence    *)
(* that is appended to at its end and taken from at its front, and from    *)
(* which an element may be withdrawn.                                      *)
(***************************************************************************)
EXTENDS Naturals, Sequences

CONSTANTS Elems, Bound

VARIABLES
    queue,
    out       \* what the last operation handed out: nothing or one element

Init == queue = <<>> /\ out = <<>>

Enqueue(x) ==
    /\ Len(queue) < Bound
    /\ queue' = Append(queue, x) /\ out' = <<>>

Dequeue ==
    /\ queue # <<>>
    /\ queue' = Tail(queue) /\ out' = <<Head(queue)>>

Withdraw(i) ==
    /\ queue' = SubSeq(queue, 1, i - 1) \o SubSeq(queue, i + 1, Len(queue))
    /\ out' = <<queue[i]>>

Next ==
    \/ \E x \in Elems : Enqueue(x)
    \/ Dequeue
    \/ \E i \in DOMAIN queue : Withdraw(i)

Spec == Init /\ [][Next]_<<queue, out>>
=============================================================================
