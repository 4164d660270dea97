---------------------------- MODULE MtWakeProofs ----------------------------
(***************************************************************************)
(* What the helpers of the runtime and the wakeups preserve: the types of  *)
(* all they change, for any number of workers, tasks and channels.         *)
(***************************************************************************)
EXTENDS Microthread, MtQueueProofs, FiniteSetTheorems

-----------------------------------------------------------------------------
(* The helpers                                                             *)

\* From the pcs p to the pcs r some waiting workers have been woken.
Roused(p, r) == \A w \in Workers : r[w] = p[w] \/ (p[w] \in Asleep /\ r[w] = "loop")

\* A notification only takes workers from a wait to the top of the loop.
LEMMA NotifyOneFacts ==
    ASSUME NEW p \in [Workers -> WorkerPcs], NEW n, NEW r \in mt_notify_one(p, n)
    PROVE  /\ r \in [Workers -> WorkerPcs]
           /\ Roused(p, r)
<1>1. PICK S \in SUBSET Sleepers(p) : r = [w \in Workers |-> IF w \in S THEN "loop" ELSE p[w]]
  BY DEF mt_notify_one
<1> QED
  BY <1>1 DEF Sleepers, WorkerPcs, Roused

LEMMA NotifyAllFacts ==
    ASSUME NEW p \in [Workers -> WorkerPcs]
    PROVE  /\ mt_notify_all(p) \in [Workers -> WorkerPcs]
           /\ Roused(p, mt_notify_all(p))
  BY DEF mt_notify_all, Sleepers, WorkerPcs, Roused

\* One notification after another.
LEMMA RousedTwice ==
    ASSUME NEW p, NEW q, NEW r, Roused(p, q), Roused(q, r)
    PROVE  Roused(p, r)
  BY DEF Roused, Asleep

\* Waking the tasks of ws keeps the types of the states, the run queue and the pcs.
LEMMA MarkReadyType ==
    ASSUME NEW st \in [Tasks -> States], NEW q \in Seq(Tasks),
           NEW p \in [Workers -> WorkerPcs], NEW ws \in Seq(Tasks),
           mt_task_mark_ready(st, q, p, ws)
    PROVE  /\ state' \in [Tasks -> States] /\ runq' \in Seq(Tasks)
           /\ pc' \in [Workers -> WorkerPcs] /\ Roused(p, pc')
<1>1. pc' \in mt_notify_one(p, Len(ws))
  BY DEF mt_task_mark_ready
<1>2. pc' \in [Workers -> WorkerPcs] /\ Roused(p, pc')
  BY <1>1, NotifyOneFacts
<1>3. runq' \in Seq(Tasks)
  BY ConcatFacts DEF mt_task_mark_ready
<1>4. state' \in [Tasks -> States]
  BY DEF mt_task_mark_ready, States
<1> QED
  BY <1>2, <1>3, <1>4

LEMMA ReturnType ==
    ASSUME NEW rc \in Results, NEW i \in Nat, NEW v \in Values \cup {NoValue}
    PROVE  Return(rc, i, v) \in Returns
  BY DEF Return, Returns

LEMMA DropType ==
    ASSUME NEW n \in Nat, NEW k \in Nat
    PROVE  Drop(n, k) \in Nat
  BY DEF Drop

\* Freeing the waiters of some tasks keeps the type of the wait queues, and
\* leaves in each exactly the entries of the other tasks.
LEMMA FreeWaitersFacts ==
    ASSUME NEW queues \in [Chans -> [Kinds -> Seq(Waiters)]], NEW T
    PROVE  LET wq == EntriesFreed(queues, T)
           IN  /\ wq \in [Chans -> [Kinds -> Seq(Waiters)]]
               /\ \A c \in Chans, k \in Kinds :
                     Range(wq[c][k]) = {x \in Range(queues[c][k]) : x.task \notin T}
<1> DEFINE wq == EntriesFreed(queues, T)
<1>1. ASSUME NEW c \in Chans, NEW k \in Kinds
      PROVE  /\ wq[c][k] \in Seq(Waiters)
             /\ Range(wq[c][k]) = {x \in Range(queues[c][k]) : x.task \notin T}
  <2> DEFINE q == queues[c][k]
             S == {x \in Range(q) : x.task \notin T}
  <2>1. wq[c][k] = Keep(q, S)
    BY DEF EntriesFreed
  <2>2. q \in Seq(Waiters)
    OBVIOUS
  <2>3. Range(q) \cap S = S
    OBVIOUS
  <2> HIDE DEF q, S, wq
  <2>4. Keep(q, S) \in Seq(Waiters) /\ Range(Keep(q, S)) = S
    BY Zenon, <2>2, <2>3, KeepFacts
  <2> QED
    BY <2>1, <2>4 DEF q, S
<1>2. wq \in [Chans -> [Kinds -> Seq(Waiters)]]
  <2>1. wq = [c \in Chans |-> [k \in Kinds |-> wq[c][k]]]
    BY DEF EntriesFreed
  <2> HIDE DEF wq
  <2> QED
    BY <1>1, <2>1
<1> QED
  BY <1>1, <1>2

\* What the entries of a send queue hold, in terms of its range.
SendersOffer(wq) ==
    \A c \in Chans, k \in {"send", "select_send"} : \A x \in Range(wq[c][k]) : x.value \in Values

LEMMA SendersOfferFacts ==
    ASSUME NEW wq \in [Chans -> [Kinds -> Seq(Waiters)]]
    PROVE  SendersOffer(wq) <=>
             \A c \in Chans, k \in {"send", "select_send"} : \A i \in 1 .. Len(wq[c][k]) :
                 wq[c][k][i].value \in Values
<1>1. ASSUME NEW c \in Chans, NEW k \in {"send", "select_send"}
      PROVE  (\A x \in Range(wq[c][k]) : x.value \in Values) <=>
               \A i \in 1 .. Len(wq[c][k]) : wq[c][k][i].value \in Values
  <2>1. wq[c][k] \in Seq(Waiters)
    BY DEF Kinds
  <2>2. \A x : x \in Range(wq[c][k]) <=> \E i \in 1 .. Len(wq[c][k]) : wq[c][k][i] = x
    BY <2>1, RangeFacts
  <2> QED
    BY <2>2
<1> QED
  BY Zenon, <1>1 DEF SendersOffer

-----------------------------------------------------------------------------
(* The wakeups                                                             *)

\* The types of the variables a wakeup changes.
WakeType ==
    /\ pc \in [Workers -> WorkerPcs]
    /\ state \in [Tasks -> States]
    /\ ret \in [Tasks -> Returns]
    /\ runq \in Seq(Tasks) /\ timers \in Seq(Tasks)
    /\ waitq \in [Chans -> [Kinds -> Seq(Waiters)]] /\ SendersOffer(waitq)
    /\ channel_waiting_count \in Nat

LEMMA WakeTypeHolds ==
    TypeOK => WakeType
  BY Zenon, SendersOfferFacts DEF TypeOK, WakeType, WorkerType, TaskType, ChanType, CountType

LEMMA WakeTypeKept ==
    TypeOK /\ UNCHANGED wakeVars => WakeType'
<1> SUFFICES ASSUME TypeOK, UNCHANGED wakeVars PROVE WakeType'
  OBVIOUS
<1>1. WakeType
  BY WakeTypeHolds
<1> QED
  BY <1>1 DEF WakeType, SendersOffer, wakeVars

\* The head of a wait queue that is not empty.
LEMMA HeadWaiter ==
    ASSUME TypeOK, NEW c \in Chans, NEW k \in Kinds, waitq[c][k] # <<>>
    PROVE  /\ Head(waitq[c][k]) \in Waiters
           /\ Head(waitq[c][k]).task \in Tasks
           /\ Head(waitq[c][k]).index \in Nat
           /\ k \in {"send", "select_send"} => Head(waitq[c][k]).value \in Values
           /\ Tail(waitq[c][k]) \in Seq(Waiters)
           /\ Range(Tail(waitq[c][k])) \subseteq Range(waitq[c][k])
<1>1. waitq[c][k] \in Seq(Waiters)
  BY DEF TypeOK, ChanType
<1>2. /\ Head(waitq[c][k]) \in Waiters /\ Head(waitq[c][k]) \in Range(waitq[c][k])
      /\ Tail(waitq[c][k]) \in Seq(Waiters)
      /\ Range(Tail(waitq[c][k])) \subseteq Range(waitq[c][k])
  BY <1>1, PopFacts
<1>3. SendersOffer(waitq)
  BY WakeTypeHolds DEF WakeType
<1>4. Head(waitq[c][k]).task \in Tasks /\ Head(waitq[c][k]).index \in Nat
  BY <1>2 DEF Waiters
<1>5. k \in {"send", "select_send"} => Head(waitq[c][k]).value \in Values
  BY <1>2, <1>3 DEF SendersOffer
<1> QED
  BY <1>2, <1>4, <1>5

\* Freeing waiters takes no value from a parked sender that stays.
LEMMA EntriesFreedType ==
    ASSUME NEW queues \in [Chans -> [Kinds -> Seq(Waiters)]], SendersOffer(queues), NEW T
    PROVE  /\ EntriesFreed(queues, T) \in [Chans -> [Kinds -> Seq(Waiters)]]
           /\ SendersOffer(EntriesFreed(queues, T))
<1> DEFINE wq == EntriesFreed(queues, T)
<1>1. /\ wq \in [Chans -> [Kinds -> Seq(Waiters)]]
      /\ \A c \in Chans, k \in Kinds :
            Range(wq[c][k]) = {x \in Range(queues[c][k]) : x.task \notin T}
  BY FreeWaitersFacts
<1> HIDE DEF wq
<1>2. \A c \in Chans, k \in Kinds : Range(wq[c][k]) \subseteq Range(queues[c][k])
  BY Zenon, <1>1
<1>3. SendersOffer(wq)
  BY Zenon, <1>2 DEF SendersOffer, Kinds
<1> QED
  BY <1>1, <1>3 DEF wq

LEMMA FreeWaitersType ==
    ASSUME TypeOK, NEW T
    PROVE  /\ mt_select_free_task_waiters(T) \in [Chans -> [Kinds -> Seq(Waiters)]]
           /\ SendersOffer(mt_select_free_task_waiters(T))
<1>1. waitq \in [Chans -> [Kinds -> Seq(Waiters)]] /\ SendersOffer(waitq)
  BY WakeTypeHolds DEF WakeType
<1> QED
  BY <1>1, EntriesFreedType DEF mt_select_free_task_waiters

LEMMA ReadyWaiterType ==
    ASSUME TypeOK, NEW c \in Chans, NEW kind \in Kinds, NEW rc \in Results,
           NEW v \in Values \cup {NoValue}, waitq[c][kind] # <<>>,
           mt_chan_ready_waiter(c, kind, rc, v)
    PROVE  WakeType' /\ Roused(pc, pc')
<1> DEFINE t == Head(waitq[c][kind]).task
<1>1. t \in Tasks /\ Tail(waitq[c][kind]) \in Seq(Waiters)
      /\ Range(Tail(waitq[c][kind])) \subseteq Range(waitq[c][kind])
  BY HeadWaiter
<1>2. WakeType
  BY WakeTypeHolds
<1> DEFINE ws == <<t>>
<1>3. ws \in Seq(Tasks)
  BY <1>1
<1>4. mt_task_mark_ready(state, runq, pc, ws)
  BY DEF mt_chan_ready_waiter
<1> HIDE DEF ws, t
<1>5. /\ state' \in [Tasks -> States] /\ runq' \in Seq(Tasks)
      /\ pc' \in [Workers -> WorkerPcs] /\ Roused(pc, pc')
  BY Zenon, <1>2, <1>3, <1>4, MarkReadyType DEF WakeType
<1>6. waitq' \in [Chans -> [Kinds -> Seq(Waiters)]]
  BY <1>1, <1>2 DEF mt_chan_ready_waiter, WakeType
<1>7. \A d \in Chans, k \in Kinds : Range(waitq'[d][k]) \subseteq Range(waitq[d][k])
  BY <1>1, <1>2 DEF mt_chan_ready_waiter, WakeType
<1>8. SendersOffer(waitq')
  BY Zenon, <1>2, <1>7 DEF SendersOffer, WakeType, Kinds
<1>9. Return(rc, 0, v) \in Returns
  BY ReturnType
<1>10. ret' \in [Tasks -> Returns]
  BY Zenon, <1>2, <1>9 DEF mt_chan_ready_waiter, WakeType
<1>11. timers' \in Seq(Tasks) /\ channel_waiting_count' \in Nat
  BY <1>2, DropType DEF mt_chan_ready_waiter, WakeType
<1> QED
  BY <1>5, <1>6, <1>8, <1>10, <1>11 DEF WakeType, SendersOffer

LEMMA UnparkType ==
    ASSUME TypeOK, NEW t \in Tasks, NEW rc \in Results, NEW i \in Nat,
           NEW v \in Values \cup {NoValue}, mt_select_unpark_task(t, rc, i, v)
    PROVE  WakeType' /\ Roused(pc, pc')
<1>1. WakeType
  BY WakeTypeHolds
<1> DEFINE ws == <<t>>
<1>2. ws \in Seq(Tasks)
  OBVIOUS
<1>3. mt_task_mark_ready(state, runq, pc, ws)
  BY DEF mt_select_unpark_task
<1> HIDE DEF ws
<1>4. /\ state' \in [Tasks -> States] /\ runq' \in Seq(Tasks)
      /\ pc' \in [Workers -> WorkerPcs] /\ Roused(pc, pc')
  BY Zenon, <1>1, <1>2, <1>3, MarkReadyType DEF WakeType
<1>5. waitq' \in [Chans -> [Kinds -> Seq(Waiters)]] /\ SendersOffer(waitq')
  BY FreeWaitersType DEF mt_select_unpark_task
<1>6. timers' \in Seq(Tasks)
  BY <1>1, WithoutFacts DEF mt_select_unpark_task, WakeType
<1>7. Return(rc, i, v) \in Returns
  BY ReturnType
<1>8. ret' \in [Tasks -> Returns] /\ channel_waiting_count' \in Nat
  BY <1>1, <1>7, DropType DEF mt_select_unpark_task, WakeType
<1> QED
  BY <1>4, <1>5, <1>6, <1>8 DEF WakeType, SendersOffer

LEMMA CompleteWaiterType ==
    ASSUME TypeOK, NEW c \in Chans, NEW kind \in Kinds, NEW rc \in Results,
           NEW v \in Values \cup {NoValue}, waitq[c][kind] # <<>>,
           mt_select_complete_waiter(c, kind, rc, v)
    PROVE  WakeType' /\ Roused(pc, pc')
<1> DEFINE x == Head(waitq[c][kind])
<1>1. x.task \in Tasks /\ x.index \in Nat
  BY HeadWaiter
<1>2. mt_select_unpark_task(x.task, rc, x.index, v)
  BY DEF mt_select_complete_waiter
<1> HIDE DEF x
<1> QED
  BY <1>1, <1>2, UnparkType

\* The entries that a close wakes, and their tasks.
LEMMA WakeOrderType ==
    ASSUME TypeOK, NEW c \in Chans
    PROVE  /\ ClosedWakeOrder(c) \in Seq(Waiters)
           /\ [i \in DOMAIN ClosedWakeOrder(c) |-> ClosedWakeOrder(c)[i].task] \in Seq(Tasks)
<1> DEFINE q == waitq[c]["send"] \o waitq[c]["recv"]
                \o waitq[c]["select_send"] \o waitq[c]["select_recv"]
<1>1. \A k \in Kinds : waitq[c][k] \in Seq(Waiters)
  BY DEF TypeOK, ChanType
<1>2. q \in Seq(Waiters)
  BY <1>1, ConcatFacts DEF Kinds
<1> DEFINE firsts == { q[i] : i \in { i \in DOMAIN q :
                                        \A j \in 1 .. i - 1 : q[j].task # q[i].task } }
<1>3. ClosedWakeOrder(c) = Keep(q, firsts)
  BY DEF ClosedWakeOrder
<1> HIDE DEF q, firsts
<1>4. ClosedWakeOrder(c) \in Seq(Waiters)
  BY <1>2, <1>3, KeepFacts
<1> DEFINE ws == ClosedWakeOrder(c)
<1> HIDE DEF ws
<1>5. \A i \in 1 .. Len(ws) : ws[i].task \in Tasks
  <2>1. \A i \in 1 .. Len(ws) : ws[i] \in Waiters
    BY <1>4 DEF ws
  <2> QED
    BY <2>1 DEF Waiters
<1>6. [i \in DOMAIN ws |-> ws[i].task] \in Seq(Tasks)
  <2>1. DOMAIN ws = 1 .. Len(ws) /\ Len(ws) \in Nat
    BY <1>4 DEF ws
  <2> QED
    BY <1>5, <2>1
<1> QED
  BY <1>4, <1>6 DEF ws

LEMMA WakeClosedType ==
    ASSUME TypeOK, NEW c \in Chans, mt_chan_wake_closed_waiters(c)
    PROVE  WakeType' /\ Roused(pc, pc')
<1> DEFINE ws == ClosedWakeOrder(c)
           woken == [i \in DOMAIN ws |-> ws[i].task]
<1>1. ws \in Seq(Waiters) /\ woken \in Seq(Tasks)
  BY WakeOrderType
<1>2. WakeType
  BY WakeTypeHolds
<1>3. /\ mt_task_mark_ready(state, runq, pc, woken)
      /\ waitq' = mt_select_free_task_waiters(Range(woken))
      /\ timers' = Keep(timers, Tasks \ Range(woken))
      /\ channel_waiting_count' = Drop(channel_waiting_count, Len(ws))
  BY DEF mt_chan_wake_closed_waiters
<1>4. ret' \in [Tasks -> Returns]
  <2>1. ASSUME NEW t \in Tasks, t \in Range(woken)
        PROVE  ws[CHOOSE i \in DOMAIN ws : woken[i] = t].index \in Nat
    <3>1. \E i \in DOMAIN ws : woken[i] = t
      BY <2>1 DEF Range
    <3>2. (CHOOSE i \in DOMAIN ws : woken[i] = t) \in DOMAIN ws
      BY <3>1
    <3>3. \A i \in DOMAIN ws : ws[i].index \in Nat
      <4> HIDE DEF ws
      <4>1. \A i \in DOMAIN ws : ws[i] \in Waiters
        BY <1>1
      <4> QED
        BY <4>1 DEF Waiters
    <3> QED
      BY <3>2, <3>3
  <2>2. ASSUME NEW n \in Nat PROVE Return("CLOSED", n, NoValue) \in Returns
    BY ReturnType DEF Results
  <2>3. ret' = [t \in Tasks |->
                  IF t \in Range(woken)
                  THEN Return("CLOSED", ws[CHOOSE i \in DOMAIN ws : woken[i] = t].index, NoValue)
                  ELSE ret[t]]
    BY DEF mt_chan_wake_closed_waiters
  <2> HIDE DEF ws, woken
  <2> QED
    BY <1>2, <2>1, <2>2, <2>3 DEF WakeType
<1> HIDE DEF ws, woken
<1>5. /\ state' \in [Tasks -> States] /\ runq' \in Seq(Tasks)
      /\ pc' \in [Workers -> WorkerPcs] /\ Roused(pc, pc')
  BY Zenon, <1>1, <1>2, <1>3, MarkReadyType DEF WakeType
<1>6. waitq' \in [Chans -> [Kinds -> Seq(Waiters)]] /\ SendersOffer(waitq')
  BY <1>3, FreeWaitersType
<1>7. timers' \in Seq(Tasks)
  BY <1>2, <1>3, KeepFacts DEF WakeType
<1>8. channel_waiting_count' \in Nat
  <2>1. Len(ws) \in Nat
    BY <1>1
  <2> QED
    BY <1>2, <1>3, <2>1, DropType DEF WakeType
<1> QED
  BY <1>4, <1>5, <1>6, <1>7, <1>8 DEF WakeType, SendersOffer

LEMMA WakeExpiredType ==
    ASSUME TypeOK, NEW w \in Workers, NEW n \in 0 .. Len(timers), mt_wake_expired_timers(w, n)
    PROVE  WakeType' /\ Roused([pc EXCEPT ![w] = "pick"], pc')
<1> DEFINE fired == SubSeq(timers, 1, n)
           selects == {t \in Range(fired) : state[t] = "waiting_select"}
           p == [pc EXCEPT ![w] = "pick"]
           n0 == FdNotified(Range(fired))
           n1 == [n0 EXCEPT ![w] = "pick"]
<1>1. WakeType
  BY WakeTypeHolds
<1>2. timers \in Seq(Tasks) /\ pc \in [Workers -> WorkerPcs]
  BY <1>1 DEF WakeType
<1>3. fired \in Seq(Tasks) /\ SubSeq(timers, n + 1, Len(timers)) \in Seq(Tasks)
  BY <1>2, SplitFacts
<1>4. /\ mt_task_mark_ready(state, runq, n1, fired)
      /\ waitq' = mt_select_free_task_waiters(selects)
      /\ timers' = SubSeq(timers, n + 1, Len(timers))
      /\ channel_waiting_count' = Drop(channel_waiting_count, Cardinality(selects))
      /\ ret' = [t \in Tasks |-> IF t \in selects THEN Return("OK", 0, NoValue) ELSE ret[t]]
  BY DEF mt_wake_expired_timers
<1>5. Cardinality(selects) \in Nat
  <2>1. selects \subseteq Tasks
    BY Zenon, <1>3, RangeFacts
  <2>2. IsFiniteSet(selects)
    BY <2>1, RuntimeAssumption, FS_Subset DEF RuntimeAssumption
  <2> HIDE DEF selects
  <2> QED
    BY <2>2, FS_CardinalityType
<1>10. n0 \in [Workers -> WorkerPcs] /\ Roused(pc, n0)
  BY <1>2, NotifyAllFacts DEF FdNotified, Roused
<1> HIDE DEF fired, selects, n0
<1>11. n1 \in [Workers -> WorkerPcs] /\ Roused(p, n1)
  BY <1>2, <1>10 DEF WorkerPcs, Roused
<1> HIDE DEF p, n1
<1>12. /\ state' \in [Tasks -> States] /\ runq' \in Seq(Tasks)
       /\ pc' \in [Workers -> WorkerPcs] /\ Roused(n1, pc')
  BY Zenon, <1>1, <1>3, <1>4, <1>11, MarkReadyType DEF WakeType
<1>6. /\ state' \in [Tasks -> States] /\ runq' \in Seq(Tasks)
      /\ pc' \in [Workers -> WorkerPcs] /\ Roused(p, pc')
  BY Zenon, <1>11, <1>12, RousedTwice
<1>7. waitq' \in [Chans -> [Kinds -> Seq(Waiters)]] /\ SendersOffer(waitq')
  BY <1>4, FreeWaitersType
<1>8. Return("OK", 0, NoValue) \in Returns
  BY ReturnType DEF Results
<1>9. ret' \in [Tasks -> Returns] /\ channel_waiting_count' \in Nat
  BY Zenon, <1>1, <1>4, <1>5, <1>8, DropType DEF WakeType
<1> QED
  BY <1>3, <1>4, <1>6, <1>7, <1>9 DEF WakeType, SendersOffer, p
=============================================================================
