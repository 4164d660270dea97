-------------------------------- MODULE MCIo --------------------------------
(***************************************************************************)
(* The small instances of MicrothreadIo on which TLC runs.                 *)
(***************************************************************************)
EXTENDS MicrothreadIo, TLC

CONSTANTS w1, w2, t1, t2, n1, n2, f1, f2

BootTwo == <<t1, t2>>
NoCapacity == [c \in {} |-> 0]

\* Which task makes which descriptor calls.
Ops(a, b) == [x \in Actors |-> CASE x = t1 -> a [] x = t2 -> b [] OTHER -> {}]
OneWaits == Ops({<<"wait", n1>>}, {})
WaitAndClose == Ops({"wait"} \X Fds, {"wait", "close"} \X Fds)
Loops == Ops({<<"accept", n1>>}, {"write", "close", "release"} \X {n2})

\* A select that returns at once.
SelectAtOnce == {[cases |-> <<>>, timeout |-> "zero", default |-> FALSE]}

\* Any readiness, or all or nothing.
AnyEvents == SUBSET Directions
AllEvents == {{}, Directions}

Symmetry == Permutations(Workers) \cup Permutations(Files)
=============================================================================
