----------------------------- MODULE MtFdProofs -----------------------------
(***************************************************************************)
(* What is proved of the list of descriptor waiters, for any number of     *)
(* workers, tasks and descriptors: nobody shares a direction of a number,  *)
(* and a wait is decided once.                                             *)
(*                                                                         *)
(* Every step changes the list in one of five ways (WaiterStep); each of   *)
(* them keeps the invariant.                                               *)
(***************************************************************************)
EXTENDS MicrothreadIo, MtQueueProofs

IsWaiter(x) ==
    /\ DOMAIN x = {"task", "fd", "events", "generation", "state", "rc", "of"}
    /\ x.events # {}

\* The list is a sequence of waiters, each waiting for something.
ListOk ==
    /\ fd_waiters \in Seq(Range(fd_waiters))
    /\ \A x \in Range(fd_waiters) : IsWaiter(x)

\* OneWaiterPerDirection is inductive once the waiters are known to be told
\* apart by what they wait for.
FdInv == ListOk /\ OneWaiterPerDirection

Prepend ==
    \E t, fd, g : \E es \in (SUBSET Directions) \ {{}} :
        /\ ~mt_fd_waiter_conflicts(fd, es)
        /\ fd_waiters' = <<FdWaiter(t, fd, es, g)>> \o fd_waiters

WaiterStep ==
    \/ fd_waiters' = fd_waiters
    \/ \E T, rc : fd_waiters' = Reserve(T, rc)
    \/ \E t : fd_waiters' = mt_fd_free_waiter(t)
    \/ Prepend
    \/ fd_waiters' = <<>>

-----------------------------------------------------------------------------
(* The steps                                                               *)

\* What the worker loop does to the list.
LEMMA SchedulingWaiters ==
    ASSUME NEW w \in Workers, IoScheduling(w)
    PROVE  WaiterStep
<1>1. CASE IoTurns(w)
  BY <1>1 DEF IoTurns, mt_fd_waiter_deactivate, WaiterStep
<1>2. CASE IoPicks(w)
  BY <1>2 DEF IoPicks, waitVars, WaiterStep
<1>3. CASE mt_poll_fd_waiters_once(w)
  BY <1>3 DEF mt_poll_fd_waiters_once, QuietVars, waitVars, WaiterStep
<1>4. CASE ResumesTurn(w)
  BY <1>4 DEF ResumesTurn, QuietVars, waitVars, WaiterStep
<1>5. CASE PollsIdle(w)
  BY <1>5 DEF PollsIdle, QuietVars, waitVars, WaiterStep
<1>6. CASE PollReturns(w)
  BY <1>6 DEF PollReturns, waitVars, WaiterStep
<1>7. CASE HandleEvent(w)
  <2>1. CASE UNCHANGED waitVars
    BY <2>1 DEF waitVars, WaiterStep
  <2>2. CASE \E x, rc : mt_fd_ready_waiter(<<x>>, rc, mt_notify_all(pc))
    BY <2>2 DEF mt_fd_ready_waiter, mt_fd_waiter_deactivate, WaiterStep
  <2> QED
    BY <1>7, <2>1, <2>2, Zenon DEF HandleEvent
<1>8. CASE PollEnds(w)
  BY <1>8 DEF PollEnds, waitVars, WaiterStep
<1>9. CASE UNCHANGED ioVars
  BY <1>9 DEF ioVars, waitVars, WaiterStep
<1> QED
  BY <1>1, <1>2, <1>3, <1>4, <1>5, <1>6, <1>7, <1>8, <1>9 DEF IoScheduling, Polling

\* What a descriptor call does to it.
LEMMA CallWaiters ==
    ASSUME NEW w, FdCall(w)
    PROVE  WaiterStep
<1>1. CASE UNCHANGED waitVars
  BY <1>1 DEF waitVars, WaiterStep
<1>2. CASE WaitReturns(w)
  BY <1>2 DEF WaitReturns, WaiterStep
<1>3. CASE \E fd \in Fds : mt_fd_close(w, fd)
  BY <1>3 DEF mt_fd_close, mt_fd_ready_waiter, mt_fd_waiter_deactivate, WaiterStep
<1>4. CASE \E fd \in Fds : \E op \in {"adopt", "read", "write", "accept"} : AdoptSetsFlag(w, op, fd)
  BY <1>1, <1>4 DEF AdoptSetsFlag
<1>5. CASE \E fd \in Fds : mt_fd_release(w, fd) \/ \E f \in Files : TryAccepts(w, f, fd)
  BY <1>1, <1>5 DEF mt_fd_release, TryAccepts
<1>6. CASE mt_fd_adopt(w) \/ ReleaseRestoresFlag(w) \/ TryFails(w) \/ TryTransfers(w)
  BY <1>1, <1>6 DEF mt_fd_adopt, ReleaseRestoresFlag, TryFails, TryTransfers
<1>7. CASE AcceptDrops(w) \/ WaitReturnsAtOnce(w) \/ CloseFile(w) \/ CloseEnds(w)
  BY <1>1, <1>7 DEF AcceptDrops, WaitReturnsAtOnce, CloseFile, CloseEnds
<1> QED
  BY <1>2, <1>3, <1>4, <1>5, <1>6, <1>7 DEF FdCall

\* What a wait, a cancellation and a shutdown do to it, and so every step.
LEMMA NextWaiters ==
    ASSUME [IoNext]_allVars
    PROVE  WaiterStep
<1>1. CASE UNCHANGED ioVars
  BY <1>1 DEF ioVars, waitVars, WaiterStep
<1>2. CASE \E w \in Workers : IoScheduling(w)
  BY <1>2, SchedulingWaiters
<1>3. CASE \E w \in Callers : FdCall(w)
  BY <1>3, CallWaiters
<1>4. CASE \E w \in Workers : FdWaiting(w)
  <2>1. PICK w \in Workers, fd \in Fds, es \in (SUBSET Directions) \ {{}} :
           mt_fd_wait(w, fd, es) \/ WaitFails(w, fd, es)
    BY <1>4 DEF FdWaiting
  <2>2. CASE mt_fd_wait(w, fd, es)
    <3>1. ~mt_fd_waiter_conflicts(fd, es)
      BY <2>2 DEF mt_fd_wait, MayPark, Refused
    <3>2. \E g : fd_waiters' = <<FdWaiter(current[w], fd, es, g)>> \o fd_waiters
      BY <2>2 DEF mt_fd_wait, mt_fd_waiter_add
    <3> QED
      BY <3>1, <3>2, Zenon DEF WaiterStep, Prepend
  <2>3. CASE WaitFails(w, fd, es)
    BY <2>3 DEF WaitFails, waitVars, WaiterStep
  <2> QED
    BY <2>1, <2>2, <2>3
<1>5. CASE \E w, t : IoCancel(w, t)
  BY <1>5 DEF IoCancel, mt_fd_waiter_deactivate, WaiterStep
<1>6. CASE IoShutdownStops
  BY <1>6 DEF IoShutdownStops, mt_fd_ready_waiter, mt_fd_waiter_deactivate, WaiterStep
<1>7. CASE IoTearsDown
  BY <1>7 DEF IoTearsDown, WaiterStep
<1>8. CASE World
  BY <1>8 DEF World, Open, PeerActs, waitVars, WaiterStep
<1>9. CASE \E w \in Callers : OtherCall(w)
  BY <1>1, <1>5, <1>9 DEF OtherCall
<1>10. CASE UNCHANGED allVars
  BY <1>1, <1>10 DEF allVars
<1> QED
  BY <1>1, <1>2, <1>3, <1>4, <1>6, <1>7, <1>8, <1>9, <1>10 DEF IoNext

-----------------------------------------------------------------------------
(* The invariant                                                           *)

\* The invariant in terms of positions.
LEMMA ByPosition ==
    ASSUME FdInv
    PROVE  /\ Len(fd_waiters) \in Nat /\ DOMAIN fd_waiters = 1 .. Len(fd_waiters)
           /\ \A i \in DOMAIN fd_waiters : IsWaiter(fd_waiters[i])
           /\ IsInjective(fd_waiters)
<1>1. Len(fd_waiters) \in Nat /\ DOMAIN fd_waiters = 1 .. Len(fd_waiters)
  BY DEF FdInv, ListOk
<1>2. \A i \in DOMAIN fd_waiters : IsWaiter(fd_waiters[i])
  BY DEF FdInv, ListOk, Range
<1>3. \A i, j \in DOMAIN fd_waiters : fd_waiters[i] = fd_waiters[j] => i = j
  BY <1>2 DEF FdInv, OneWaiterPerDirection, IsWaiter
<1> QED
  BY <1>1, <1>2, <1>3 DEF IsInjective

\* Waiters that become reservations keep what they reserve.
LEMMA ReserveKeeps ==
    ASSUME FdInv, NEW T, NEW rc, fd_waiters' = Reserve(T, rc)
    PROVE  FdInv'
<1>1. /\ Len(fd_waiters) \in Nat /\ DOMAIN fd_waiters = 1 .. Len(fd_waiters)
      /\ \A i \in DOMAIN fd_waiters : IsWaiter(fd_waiters[i])
  BY ByPosition
<1>2. DOMAIN fd_waiters' = DOMAIN fd_waiters
  BY DEF Reserve
<1>3. \A i \in DOMAIN fd_waiters : /\ fd_waiters'[i].fd = fd_waiters[i].fd
                                   /\ fd_waiters'[i].events = fd_waiters[i].events
                                   /\ DOMAIN fd_waiters'[i] = DOMAIN fd_waiters[i]
  BY <1>1 DEF Reserve, IsWaiter
<1>4. OneWaiterPerDirection'
  BY <1>2, <1>3 DEF FdInv, OneWaiterPerDirection
<1>5. \A x \in Range(fd_waiters') : IsWaiter(x)
  <2>1. \A i \in DOMAIN fd_waiters' : IsWaiter(fd_waiters'[i])
    <3> TAKE i \in DOMAIN fd_waiters'
    <3>1. IsWaiter(fd_waiters[i])
      BY <1>1, <1>2
    <3>2. /\ fd_waiters'[i].events = fd_waiters[i].events
          /\ DOMAIN fd_waiters'[i] = DOMAIN fd_waiters[i]
      BY <1>2, <1>3
    <3> QED
      BY <3>1, <3>2 DEF IsWaiter
  <2> QED
    BY Zenon, <2>1 DEF Range
<1>6. fd_waiters' \in Seq(Range(fd_waiters'))
  <2>1. fd_waiters' = [i \in 1 .. Len(fd_waiters) |-> fd_waiters'[i]]
    BY <1>1 DEF Reserve
  <2>2. \A i \in 1 .. Len(fd_waiters) : fd_waiters'[i] \in Range(fd_waiters')
    BY <1>1, <1>2 DEF Range
  <2> QED
    BY <1>1, <2>1, <2>2
<1> QED
  BY <1>4, <1>5, <1>6 DEF FdInv, ListOk

\* A list with fewer waiters is still in order.
LEMMA FewerKeeps ==
    ASSUME FdInv, NEW S, fd_waiters' = Keep(fd_waiters, S)
    PROVE  FdInv'
<1> DEFINE R == Range(fd_waiters)
<1>1. /\ fd_waiters' \in Seq(R)
      /\ Range(fd_waiters') = R \cap S
      /\ IsInjective(fd_waiters')
  BY ByPosition, KeepFacts DEF FdInv, ListOk
<1>2. \A x, y \in R : x # y /\ x.fd = y.fd => x.events \cap y.events = {}
  BY DEF FdInv, OneWaiterPerDirection, Range
<1>3. Len(fd_waiters') \in Nat /\ DOMAIN fd_waiters' = 1 .. Len(fd_waiters')
  BY <1>1
<1>4. \A i \in DOMAIN fd_waiters' : fd_waiters'[i] \in R
  BY <1>1, <1>3
<1>5. \A i, j \in DOMAIN fd_waiters' : i # j => fd_waiters'[i] # fd_waiters'[j]
  BY <1>1 DEF IsInjective
<1>6. OneWaiterPerDirection'
  BY <1>2, <1>4, <1>5 DEF OneWaiterPerDirection
<1>7. \A x \in Range(fd_waiters') : IsWaiter(x)
  BY <1>1 DEF FdInv, ListOk
<1>8. fd_waiters' \in Seq(Range(fd_waiters'))
  <2>1. \A i \in 1 .. Len(fd_waiters') : fd_waiters'[i] \in Range(fd_waiters')
    BY <1>3 DEF Range
  <2>2. fd_waiters' = [i \in 1 .. Len(fd_waiters') |-> fd_waiters'[i]]
    BY <1>1
  <2> QED
    BY <1>3, <2>1, <2>2
<1> QED
  BY <1>6, <1>7, <1>8 DEF FdInv, ListOk

\* The range of a list with one more element at its head.
LEMMA PrependRange ==
    ASSUME NEW q, q \in Seq(Range(q)), NEW x
    PROVE  /\ q \in Seq(Range(q) \cup {x}) /\ <<x>> \in Seq(Range(q) \cup {x})
           /\ Range(<<x>> \o q) = Range(q) \cup {x}
<1>1. q \in Seq(Range(q) \cup {x}) /\ <<x>> \in Seq(Range(q) \cup {x})
  OBVIOUS
<1>2. Range(<<x>>) = {x}
  BY SingletonFacts
<1>3. Range(<<x>> \o q) = Range(<<x>>) \cup Range(q)
  <2> DEFINE X == Range(q) \cup {x}
             one == <<x>>
  <2>1. q \in Seq(X) /\ one \in Seq(X)
    BY <1>1
  <2> HIDE DEF X, one
  <2>2. Range(one \o q) = Range(one) \cup Range(q)
    BY <2>1, ConcatFacts
  <2> QED
    BY <2>2 DEF one
<1> QED
  BY <1>1, <1>2, <1>3

\* A new waiter conflicts with no one on the list.
LEMMA PrependKeeps ==
    ASSUME FdInv, Prepend
    PROVE  FdInv'
<1>1. PICK t, fd, g : \E es \in (SUBSET Directions) \ {{}} :
         /\ ~mt_fd_waiter_conflicts(fd, es)
         /\ fd_waiters' = <<FdWaiter(t, fd, es, g)>> \o fd_waiters
  BY Zenon DEF Prepend
<1>2. PICK es \in (SUBSET Directions) \ {{}} :
         /\ ~mt_fd_waiter_conflicts(fd, es)
         /\ fd_waiters' = <<FdWaiter(t, fd, es, g)>> \o fd_waiters
  BY <1>1
<1> DEFINE n == Len(fd_waiters)
<1>3. PICK x : /\ fd_waiters' = <<x>> \o fd_waiters
               /\ IsWaiter(x) /\ x.fd = fd /\ x.events = es
  <2> DEFINE y == FdWaiter(t, fd, es, g)
  <2>1. IsWaiter(y) /\ y.fd = fd /\ y.events = es
    BY DEF FdWaiter, IsWaiter
  <2>2. fd_waiters' = <<y>> \o fd_waiters
    BY <1>2
  <2> HIDE DEF y
  <2> QED
    BY <2>1, <2>2
<1>4. /\ n \in Nat /\ DOMAIN fd_waiters = 1 .. n
      /\ \A i \in 1 .. n : IsWaiter(fd_waiters[i])
  BY ByPosition
<1>5. fd_waiters' = <<x>> \o fd_waiters
  BY <1>3
<1>6. fd_waiters \in Seq(Range(fd_waiters) \cup {x}) /\ <<x>> \in Seq(Range(fd_waiters) \cup {x})
  BY PrependRange DEF FdInv, ListOk
<1>7. /\ DOMAIN fd_waiters' = 1 .. n + 1
      /\ fd_waiters'[1] = x
      /\ \A i \in 2 .. n + 1 : fd_waiters'[i] = fd_waiters[i - 1]
      /\ fd_waiters' \in Seq(Range(fd_waiters) \cup {x})
  BY <1>4, <1>5, <1>6
<1>8. Range(fd_waiters') = Range(fd_waiters) \cup {x}
  BY <1>5, PrependRange DEF FdInv, ListOk
<1>9. \A i \in DOMAIN fd_waiters : fd_waiters[i].fd = fd => fd_waiters[i].events \cap es = {}
  BY <1>2 DEF mt_fd_waiter_conflicts, Range
<1> HIDE DEF n
<1>10. \A i \in 1 .. n + 1 : i # 1 => i - 1 \in 1 .. n /\ fd_waiters'[i] = fd_waiters[i - 1]
  <2>1. n \in Nat
    BY <1>4
  <2>2. \A i \in 1 .. n + 1 : i # 1 => i - 1 \in 1 .. n /\ i \in 2 .. n + 1
    BY <2>1
  <2> QED
    BY <1>7, <2>2
<1>11. OneWaiterPerDirection'
  <2> SUFFICES ASSUME NEW i \in 1 .. n + 1, NEW j \in 1 .. n + 1,
                      i # j, fd_waiters'[i].fd = fd_waiters'[j].fd
               PROVE  fd_waiters'[i].events \cap fd_waiters'[j].events = {}
    BY <1>7 DEF OneWaiterPerDirection
  <2>1. CASE i = 1
    <3>1. j - 1 \in 1 .. n /\ fd_waiters'[j] = fd_waiters[j - 1]
      BY <1>10, <2>1
    <3>2. fd_waiters'[i] = x /\ fd_waiters[j - 1].fd = fd
      BY <1>3, <1>7, <2>1, <3>1
    <3>3. fd_waiters[j - 1].events \cap es = {}
      BY <1>4, <1>9, <3>1, <3>2
    <3> QED
      BY <1>3, <3>1, <3>2, <3>3
  <2>2. CASE j = 1
    <3>1. i - 1 \in 1 .. n /\ fd_waiters'[i] = fd_waiters[i - 1]
      BY <1>10, <2>2
    <3>2. fd_waiters'[j] = x /\ fd_waiters[i - 1].fd = fd
      BY <1>3, <1>7, <2>2, <3>1
    <3>3. fd_waiters[i - 1].events \cap es = {}
      BY <1>4, <1>9, <3>1, <3>2
    <3> QED
      BY <1>3, <3>1, <3>2, <3>3
  <2>3. CASE i # 1 /\ j # 1
    <3>1. /\ i - 1 \in 1 .. n /\ fd_waiters'[i] = fd_waiters[i - 1]
          /\ j - 1 \in 1 .. n /\ fd_waiters'[j] = fd_waiters[j - 1]
      BY <1>10, <2>3
    <3>2. n \in Nat /\ i - 1 # j - 1
      BY <1>4
    <3> QED
      BY <1>4, <3>1, <3>2 DEF FdInv, OneWaiterPerDirection
  <2> QED
    BY <2>1, <2>2, <2>3
<1>12. \A y \in Range(fd_waiters') : IsWaiter(y)
  BY <1>3, <1>8 DEF FdInv, ListOk
<1>13. fd_waiters' \in Seq(Range(fd_waiters'))
  BY <1>7, <1>8
<1> QED
  BY <1>11, <1>12, <1>13 DEF FdInv, ListOk

\* Each way of changing the list keeps it in order.
LEMMA WaiterStepKeeps ==
    ASSUME FdInv, WaiterStep
    PROVE  FdInv'
<1>1. CASE fd_waiters' = fd_waiters
  BY <1>1 DEF FdInv, ListOk, OneWaiterPerDirection
<1>2. CASE \E T, rc : fd_waiters' = Reserve(T, rc)
  BY <1>2, ReserveKeeps
<1>3. CASE \E t : fd_waiters' = mt_fd_free_waiter(t)
  BY <1>3, FewerKeeps DEF mt_fd_free_waiter
<1>4. CASE fd_waiters' = <<>>
  <2>1. DOMAIN fd_waiters' = {} /\ Range(fd_waiters') = {} /\ <<>> \in Seq({})
    BY <1>4 DEF Range
  <2> QED
    BY <1>4, <2>1 DEF FdInv, ListOk, OneWaiterPerDirection
<1> QED
  BY <1>1, <1>2, <1>3, <1>4, PrependKeeps DEF WaiterStep

\* The list is empty at first.
LEMMA IoInitInv == IoInit => FdInv
<1> SUFFICES ASSUME IoInit PROVE FdInv
  OBVIOUS
<1>1. fd_waiters = <<>>
  BY DEF IoInit
<1>2. DOMAIN fd_waiters = {} /\ Range(fd_waiters) = {} /\ <<>> \in Seq({})
  BY <1>1 DEF Range
<1> QED
  BY <1>1, <1>2 DEF FdInv, ListOk, OneWaiterPerDirection

LEMMA FdInvHolds == IoSpec => []FdInv
<1>1. FdInv /\ [IoNext]_allVars => FdInv'
  BY NextWaiters, WaiterStepKeeps
<1> QED
  BY <1>1, IoInitInv, PTL DEF IoSpec

\* However many workers, tasks and descriptors there are, a descriptor has at
\* most one reader and one writer at any time, the woken ones that have not run
\* yet included (mt_fd_waiter_conflicts, mt_fd_waiter_deactivate).
THEOREM OneReaderOneWriter == IoSpec => []OneWaiterPerDirection
<1>1. FdInv => OneWaiterPerDirection
  BY DEF FdInv
<1> QED
  BY <1>1, FdInvHolds, PTL

-----------------------------------------------------------------------------
(* What a step may not do                                                  *)

\* No step changes the result of a wait that has one: mt_fd_waiter_deactivate
\* leaves a reservation alone, whether readiness, the timer, mt_fd_close,
\* mt_task_cancel or mt_shutdown calls it.
THEOREM DecidedOnceHolds == IoSpec => DecidedOnce
<1> DEFINE Kept == \A i \in DOMAIN fd_waiters : ~IsActive(fd_waiters[i]) =>
                      \/ fd_waiters[i] \in Range(fd_waiters')
                      \/ fd_waiters[i].task \notin {x.task : x \in Range(fd_waiters')}
<1>1. ASSUME FdInv, [IoNext]_allVars
      PROVE  Kept
  <2>1. CASE fd_waiters' = fd_waiters
    BY <2>1 DEF Range
  <2>2. CASE \E T, rc : fd_waiters' = Reserve(T, rc)
    <3>1. \A i \in DOMAIN fd_waiters : ~IsActive(fd_waiters[i]) =>
             i \in DOMAIN fd_waiters' /\ fd_waiters'[i] = fd_waiters[i]
      BY <2>2 DEF Reserve
    <3> QED
      BY <3>1 DEF Range
  <2>3. CASE \E t : fd_waiters' = mt_fd_free_waiter(t)
    <3>1. PICK t : fd_waiters' = mt_fd_free_waiter(t)
      BY <2>3
    <3>2. Range(fd_waiters') = {x \in Range(fd_waiters) : x.task # t}
      BY <1>1, <3>1, KeepFacts DEF mt_fd_free_waiter, FdInv, ListOk
    <3>3. \A i \in DOMAIN fd_waiters : fd_waiters[i] \in Range(fd_waiters)
      BY DEF Range
    <3> QED
      BY <3>2, <3>3
  <2>4. CASE Prepend
    <3>1. PICK x : fd_waiters' = <<x>> \o fd_waiters
      BY <2>4 DEF Prepend
    <3>2. Range(fd_waiters') = Range(fd_waiters) \cup {x}
      BY <1>1, <3>1, PrependRange DEF FdInv, ListOk
    <3> QED
      BY <3>2 DEF Range
  <2>5. CASE fd_waiters' = <<>>
    <3>1. Range(fd_waiters') = {}
      BY <2>5 DEF Range
    <3> QED
      BY <3>1
  <2>6. WaiterStep
    BY <1>1, NextWaiters
  <2> QED
    BY <2>1, <2>2, <2>3, <2>4, <2>5, <2>6 DEF WaiterStep
<1>2. FdInv /\ [IoNext]_allVars => [Kept]_allVars
  BY <1>1
<1>3. [][Kept]_allVars => DecidedOnce
  BY DEF DecidedOnce
<1> QED
  BY <1>2, <1>3, FdInvHolds, PTL DEF IoSpec
=============================================================================
