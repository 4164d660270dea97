----------------------------- MODULE MtSchedule -----------------------------
(***************************************************************************)
(* What the other modules take the timer heap to be: the sleeping tasks in *)
(* the order in which they are to be woken, those with the same deadline   *)
(* in the order in which they went to sleep.                               *)
(***************************************************************************)
EXTENDS Integers, SequencesExt

CONSTANTS Sleepers, Timeouts, TimeMax, Unit

VARIABLES
    sleepers,    \* records [task, wake_ns]
    now,
    woken        \* the tasks that the last operation woke, in order

\* The exact deadline, cut off where time ends.
Deadline(ms) == IF now + ms * Unit > TimeMax THEN TimeMax ELSE now + ms * Unit

Init == sleepers = <<>> /\ now = 0 /\ woken = <<>>

\* The place after all those that are to be woken no later.
Sleep(t, ms) ==
    LET d == Deadline(ms)
        earlier == SelectSeq(sleepers, LAMBDA x : x.wake_ns <= d)
    IN  /\ woken' = <<>> /\ UNCHANGED now
        /\ sleepers' = InsertAt(sleepers, Len(earlier) + 1, [task |-> t, wake_ns |-> d])

Wake(t) ==
    /\ woken' = <<>> /\ UNCHANGED now
    /\ sleepers' = SelectSeq(sleepers, LAMBDA x : x.task # t)

\* All those whose time has come, and nobody else.
Expire ==
    LET due == SelectSeq(sleepers, LAMBDA x : x.wake_ns <= now) IN
    /\ due # <<>>
    /\ woken' = [i \in DOMAIN due |-> due[i].task]
    /\ sleepers' = SelectSeq(sleepers, LAMBDA x : x.wake_ns > now)
    /\ UNCHANGED now

Tick == now' > now /\ woken' = <<>> /\ UNCHANGED sleepers

Next ==
    \/ Tick
    \/ Expire
    \/ \E t \in {x.task : x \in ToSet(sleepers)} : Wake(t)
    \/ \E t \in Sleepers \ {x.task : x \in ToSet(sleepers)}, ms \in Timeouts : Sleep(t, ms)

Spec == Init /\ [][Next]_<<sleepers, now, woken>>
=============================================================================
