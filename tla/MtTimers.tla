------------------------------ MODULE MtTimers ------------------------------
(***************************************************************************)
(* The timer heap (timer.c): a binary heap in an array, ordered by         *)
(* deadline and then by sequence number.  Index 1 of the sequence is index *)
(* 0 of the array.                                                         *)
(***************************************************************************)
EXTENDS MtTime, SequencesExt

CONSTANTS
    Sleepers,    \* the tasks
    Timeouts,    \* the timeouts they ask for, in ms
    MaxSeq,      \* bound: how many timers are set
    MaxNow       \* bound: when the clock stops

ASSUME TimersAssumption ==
    /\ Timeouts \subseteq Word
    /\ MaxSeq \in Nat /\ MaxNow \in Word

VARIABLES
    items,       \* g_rt.timers.items: records [task, wake_ns, timer_seq]
    next_seq,
    now,         \* mt_now_ns
    woken        \* the tasks that the last operation woke, in order

timerVars == <<items, next_seq, now, woken>>

mt_timer_less(a, b) ==
    IF a.wake_ns # b.wake_ns THEN a.wake_ns < b.wake_ns ELSE a.timer_seq < b.timer_seq

mt_timer_swap(h, i, j) == [h EXCEPT ![i] = h[j], ![j] = h[i]]

\* Item i moves towards the root while it is less than its parent.  The result
\* is the heap and where the item has come to.
RECURSIVE SiftUp(_, _)
SiftUp(h, i) ==
    LET parent == i \div 2 IN
    IF i > 1 /\ mt_timer_less(h[i], h[parent]) THEN SiftUp(mt_timer_swap(h, i, parent), parent)
    ELSE [heap |-> h, at |-> i]

\* The least of item i and its children, i itself if they are equal.
Smallest(h, i) ==
    CHOOSE j \in {i, 2 * i, 2 * i + 1} \cap DOMAIN h :
        \A k \in {i, 2 * i, 2 * i + 1} \cap DOMAIN h : ~mt_timer_less(h[k], h[j])

\* Item i moves away from the root while one of its children is less.
RECURSIVE SiftDown(_, _)
SiftDown(h, i) ==
    IF h = <<>> \/ Smallest(h, i) = i THEN h
    ELSE SiftDown(mt_timer_swap(h, i, Smallest(h, i)), Smallest(h, i))

\* The last item takes the place of item i, which leaves the heap.
Replaced(h, i) == Front([h EXCEPT ![i] = Last(h)])

mt_timer_pop(h) == SiftDown(Replaced(h, 1), 1)

\* Mutated form: the item that fills the gap only moves down.
RemoveSiftsDown(h, i) == IF i = Len(h) THEN Front(h) ELSE SiftDown(Replaced(h, i), i)

\* The removal of item i.
TimerRemoved(h, i) ==
    IF i = Len(h) THEN Front(h)
    ELSE LET up == SiftUp(Replaced(h, i), i) IN SiftDown(up.heap, up.at)

\* The heap after all expired timers have been popped, and their tasks.
RECURSIVE Expired(_, _)
Expired(h, ts) ==
    IF h = <<>> \/ h[1].wake_ns > now THEN [heap |-> h, tasks |-> ts]
    ELSE Expired(mt_timer_pop(h), Append(ts, h[1].task))

-----------------------------------------------------------------------------
TimersInit == items = <<>> /\ next_seq = 0 /\ now = 0 /\ woken = <<>>

\* The tasks that are not in the heap.
AwakeTasks == Sleepers \ {x.task : x \in Range(items)}

\* A task that is not in the heap parks until ms have passed.  (Any such task:
\* nothing is remembered of those outside the heap.)
mt_timer_push_state(ms) ==
    LET x == [task |-> CHOOSE t \in AwakeTasks : TRUE,
              wake_ns |-> mt_deadline_from_timeout(now, ms), timer_seq |-> next_seq] IN
    /\ next_seq < MaxSeq /\ AwakeTasks # {}
    /\ items' = SiftUp(Append(items, x), Len(items) + 1).heap
    /\ next_seq' = next_seq + 1
    /\ woken' = <<>> /\ UNCHANGED now

\* A task is cancelled, or woken by something else than its timer.
mt_timer_remove(t) ==
    /\ \E i \in DOMAIN items : items[i].task = t /\ items' = TimerRemoved(items, i)
    /\ woken' = <<>> /\ UNCHANGED <<next_seq, now>>

mt_wake_expired_timers ==
    LET after == Expired(items, <<>>) IN
    /\ after.tasks # <<>>
    /\ items' = after.heap /\ woken' = after.tasks
    /\ UNCHANGED <<next_seq, now>>

\* Time passes, by one ms (external).
Tick == now < MaxNow /\ now' = now + NsPerMs /\ woken' = <<>> /\ UNCHANGED <<items, next_seq>>

TimersNext ==
    \/ \E ms \in Timeouts : mt_timer_push_state(ms)
    \/ \E t \in Sleepers : mt_timer_remove(t)
    \/ mt_wake_expired_timers
    \/ Tick

-----------------------------------------------------------------------------
\* The items in the order of mt_timer_less.
InOrder ==
    LET s == SortSeq(items, mt_timer_less) IN
    [i \in DOMAIN s |-> [task |-> s[i].task, wake_ns |-> s[i].wake_ns]]

Schedule == INSTANCE MtSchedule WITH sleepers <- InOrder, TimeMax <- WordMax, Unit <- NsPerMs

\* The heap is the ordered schedule that the scheduler uses it as: after any
\* pushes, pops and removals the tasks whose deadline has passed, and only
\* those, are woken, in the order of their deadlines and of their calls, and the
\* deadlines are the sums asked for, cut off at UINT64_MAX.
HeapIsSchedule == Schedule!Spec
=============================================================================
