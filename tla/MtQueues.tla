------------------------------ MODULE MtQueues ------------------------------
(***************************************************************************)
(* Insertion into and removal from the linked lists and the heap of the    *)
(* runtime, which the model keeps as sequences.                            *)
(***************************************************************************)
EXTENDS Integers, Sequences, Functions

\* The elements of q that belong to S, in the order of q.
Keep(q, S) ==
    LET kept[i \in 0 .. Len(q)] ==
          IF i = 0 THEN <<>>
          ELSE IF q[i] \in S THEN Append(kept[i - 1], q[i]) ELSE kept[i - 1]
    IN  kept[Len(q)]

\* q after the removal of t.
Without(q, t) == Keep(q, {u \in Range(q) : u # t})

\* q with x inserted at position i.
Inserted(q, i, x) == SubSeq(q, 1, i - 1) \o <<x>> \o SubSeq(q, i, Len(q))
=============================================================================
