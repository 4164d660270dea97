------------------------------ MODULE MtLists ------------------------------
(***************************************************************************)
(* The intrusive linked lists of tasks: the run queue (run_queue.c) and    *)
(* the wait queues of channels and handles (wait_queue.c), which are the   *)
(* same list over another link field.                                      *)
(***************************************************************************)
EXTENDS Naturals, Sequences, FiniteSets

CONSTANTS Nodes, Null

ASSUME ListAssumption == IsFiniteSet(Nodes) /\ Null \notin Nodes

VARIABLES
    list,      \* head, tail, the link field of each task, and the count
    popped     \* what the last operation handed out

listVars == <<list, popped>>

Empty == [head |-> Null, tail |-> Null, next |-> [t \in Nodes |-> Null], count |-> 0]

mt_chan_waitq_push(l, t) ==
    [l EXCEPT !.head = IF l.tail = Null THEN t ELSE @,
              !.tail = t,
              !.next = IF l.tail = Null THEN [@ EXCEPT ![t] = Null]
                       ELSE [@ EXCEPT ![t] = Null, ![l.tail] = t],
              !.count = @ + 1]

mt_chan_waitq_pop(l) ==
    [l EXCEPT !.head = l.next[l.head],
              !.tail = IF l.next[l.head] = Null THEN Null ELSE @,
              !.next[l.head] = Null,
              !.count = @ - 1]

\* The tasks on the list after p, from the head if p is Null, in order.
RECURSIVE After(_, _)
After(l, p) ==
    LET t == IF p = Null THEN l.head ELSE l.next[p] IN
    IF t = Null THEN <<>> ELSE <<t>> \o After(l, t)

\* The walk to t along the links ends with the task whose link leads to t.
RECURSIVE Before(_, _, _)
Before(l, t, p) ==
    LET u == IF p = Null THEN l.head ELSE l.next[p] IN
    IF u = t THEN p ELSE Before(l, t, u)

\* Mutated form: the tail still is the task that has been removed.
RemoveKeepsTail(l, t) ==
    LET p == Before(l, t, Null) IN
    [l EXCEPT !.head = IF p = Null THEN l.next[t] ELSE @,
              !.next = IF p = Null THEN [@ EXCEPT ![t] = Null]
                       ELSE [@ EXCEPT ![p] = l.next[t], ![t] = Null],
              !.count = @ - 1]

\* For a task that is on the list.
mt_waitq_remove(l, t) ==
    LET p == Before(l, t, Null) IN
    [l EXCEPT !.head = IF p = Null THEN l.next[t] ELSE @,
              !.tail = IF @ = t THEN p ELSE @,
              !.next = IF p = Null THEN [@ EXCEPT ![t] = Null]
                       ELSE [@ EXCEPT ![p] = l.next[t], ![t] = Null],
              !.count = @ - 1]

-----------------------------------------------------------------------------
OnList == After(list, Null)
IsOnList(t) == \E i \in DOMAIN OnList : OnList[i] = t

ListInit == list = Empty /\ popped = <<>>

\* A task that becomes READY is on no list.
mt_runq_push(t) ==
    /\ ~IsOnList(t)
    /\ list' = mt_chan_waitq_push(list, t) /\ popped' = <<>>

mt_runq_pop ==
    /\ list.head # Null
    /\ list' = mt_chan_waitq_pop(list) /\ popped' = <<list.head>>

\* The removal of a task that is not on the list changes nothing.
mt_runq_remove(t) ==
    /\ IsOnList(t)
    /\ list' = mt_waitq_remove(list, t) /\ popped' = <<t>>

ListNext == mt_runq_pop \/ \E t \in Nodes : mt_runq_push(t) \/ mt_runq_remove(t)

-----------------------------------------------------------------------------
Queue == INSTANCE MtFifo WITH
            Elems <- Nodes, Bound <- Cardinality(Nodes), queue <- OnList, out <- popped

\* The linked list is the FIFO queue, with removal, that the scheduler and the
\* channels use it as: whatever is pushed, popped and cut out of its middle or
\* its end, a walk from the head meets the tasks in the order of their arrival.
ListIsFifo == Queue!Spec

\* The tail is where the walk ends, the count is its length, and a task that is
\* not on the list has no link into it (the counts are read by
\* mt_chan_destroy and the deadlock test, the tail by the next push).
ListExact ==
    /\ list.tail = IF OnList = <<>> THEN Null ELSE OnList[Len(OnList)]
    /\ list.count = Len(OnList)
    /\ \A t \in Nodes : ~IsOnList(t) => list.next[t] = Null
=============================================================================
