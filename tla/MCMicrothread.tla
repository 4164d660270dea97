--------------------------- MODULE MCMicrothread ---------------------------
(***************************************************************************)
(* The small instances of Microthread on which TLC runs.  Each              *)
(* configuration picks the workers, tasks, channels and calls that the      *)
(* question it asks needs.                                                 *)
(***************************************************************************)
EXTENDS Microthread, TLC

CONSTANTS w1, w2, w3, t1, t2, t3, c0, c1, v1, v2

\* The workers are interchangeable.
WorkerSymmetry == Permutations(Workers)

\* So are the values, where no select call names one.
ValueSymmetry == WorkerSymmetry \cup Permutations(Values)

BootOne == <<t1>>
BootTwo == <<t1, t2>>
BootThree == <<t1, t2, t3>>

\* c0 is unbuffered, c1 has one slot.
Capacities == [c \in Chans |-> IF c = c0 THEN 0 ELSE 1]

RecvFrom(c) == [op |-> "recv", ch |-> c, value |-> NoValue]
SendTo(c, v) == [op |-> "send", ch |-> c, value |-> v]
Select(cases, timeout, default) == [cases |-> cases, timeout |-> timeout, default |-> default]

\* Selects over both channels, one with a timeout.
SelectsTwo == {Select(<<RecvFrom(c0), SendTo(c1, v1)>>, "none", FALSE),
               Select(<<SendTo(c0, v1), RecvFrom(c1)>>, "later", FALSE)}

\* The same, and a select with a default case.
SelectsThree == SelectsTwo \cup {Select(<<RecvFrom(c1)>>, "none", TRUE)}

\* The one call of a task that only receives.
SelectRecv == {Select(<<RecvFrom(c1)>>, "none", FALSE)}
=============================================================================
