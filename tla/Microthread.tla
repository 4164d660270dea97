---------------------------- MODULE Microthread ----------------------------
(***************************************************************************)
(* The runtime without the descriptor layer: workers, tasks, timers,       *)
(* channels, select, handles, join and cancellation.  The program is       *)
(* arbitrary: a running task may make any call the constant Api allows.    *)
(***************************************************************************)
EXTENDS MtScheduler

\* The run has just been started on the tasks of Boot.
Init ==
    /\ lock = Free
    /\ pc = [w \in Workers |-> "loop"]
    /\ current = [w \in Workers |-> NoTask]
    /\ running = TRUE /\ stopping = FALSE /\ run_result = "OK"
    /\ live_count = Len(Boot) /\ running_tasks = 0
    /\ channel_waiting_count = 0 /\ join_waiting_count = 0
    /\ state = [t \in Tasks |-> IF t \in Range(Boot) THEN "ready" ELSE "unborn"]
    /\ ret = [t \in Tasks |-> NoReturn]
    /\ sel = [t \in Tasks |-> NoSelect]
    /\ runq = Boot /\ timers = <<>>
    /\ buf = [c \in Chans |-> <<>>]
    /\ closed = [c \in Chans |-> FALSE] /\ destroyed = {}
    /\ waitq = [c \in Chans |-> [k \in Kinds |-> <<>>]]
    /\ cancel_requested = [t \in Tasks |-> FALSE]
    /\ released = [t \in Tasks |-> FALSE]
    /\ outcome = [t \in Tasks |-> "pending"]
    /\ handle_freed = [t \in Tasks |-> FALSE]
    /\ join_q = [t \in Tasks |-> <<>>]

Scheduling(w) ==
    \/ mt_task_after_switch(w)
    \/ WorkerStarts(w) \/ WorkerStops(w) \/ WorkerTurns(w)
    \/ WorkerDispatches(w) \/ WorkerFinishes(w)
    \/ WorkerReportsDeadlock(w) \/ WorkerWaits(w)

\* The calls with which a running task gives up its worker by itself.
Leaving(w) ==
    \/ mt_task_entry(w)
    \/ "yield" \in Api /\ mt_yield(w)
    \/ "sleep" \in Api /\ mt_sleep_ms(w)

Channelling(w) ==
    \E c \in Chans :
        \/ "send" \in Api /\ \E v \in Values : mt_chan_send(w, c, v)
        \/ "recv" \in Api /\ mt_chan_recv(w, c)
        \/ "try" \in Api /\ \E v \in Values : mt_chan_try_send(w, c, v)
        \/ "try" \in Api /\ mt_chan_try_recv(w, c)
        \/ "close" \in Api /\ mt_chan_close(w, c)
        \/ "destroy" \in Api /\ mt_chan_destroy(w, c)

SelectStep(w) ==
    mt_select_try_case(w) \/ mt_select_return(w) \/ mt_select_fails(w) \/ mt_select_park(w)

Handling(w) ==
    \E t \in Tasks :
        \/ "go" \in Api /\ mt_go(w, t)
        \/ "join" \in Api /\ mt_join(w, t)
        \/ "cancel" \in Api /\ mt_task_cancel(w, t)
        \/ "release" \in Api /\ mt_task_handle_release(w, t)

Next ==
    \/ \E w \in Workers : Scheduling(w) \/ CondWaitReturns(w) \/ Leaving(w) \/ SelectStep(w)
    \/ \E w \in Workers, s \in SelectCalls : mt_select(w, s)
    \/ \E w \in Callers : Channelling(w) \/ Handling(w)
    \/ RunReturns
    \/ mt_run_internal
    \/ "nothread" \in Api /\ StartFails
    \/ "shutdown" \in Api /\ mt_shutdown

Spec == Init /\ [][Next]_vars

-----------------------------------------------------------------------------
(* Invariants                                                              *)

WorkerType ==
    /\ lock \in Workers \cup {Free}
    /\ pc \in [Workers -> WorkerPcs]
    /\ current \in [Workers -> Tasks \cup {NoTask}]

RunType ==
    /\ running \in BOOLEAN /\ stopping \in BOOLEAN
    /\ run_result \in {"OK", "STATE", "ERR", "CANCELLED"}

CountType ==
    /\ live_count \in Nat /\ running_tasks \in Nat
    /\ channel_waiting_count \in Nat /\ join_waiting_count \in Nat

TaskType ==
    /\ state \in [Tasks -> States]
    /\ ret \in [Tasks -> Returns]
    /\ sel \in [Tasks -> Selects]
    /\ runq \in Seq(Tasks) /\ timers \in Seq(Tasks)

ChanType ==
    /\ buf \in [Chans -> Seq(Values)]
    /\ closed \in [Chans -> BOOLEAN] /\ destroyed \subseteq Chans
    /\ waitq \in [Chans -> [Kinds -> Seq(Waiters)]]
    /\ \A c \in Chans, k \in {"send", "select_send"} : \A i \in 1 .. Len(waitq[c][k]) :
          waitq[c][k][i].value \in Values

HandleType ==
    /\ cancel_requested \in [Tasks -> BOOLEAN] /\ released \in [Tasks -> BOOLEAN]
    /\ outcome \in [Tasks -> {"pending", "DONE", "CANCELLED"}]
    /\ handle_freed \in [Tasks -> BOOLEAN]
    /\ join_q \in [Tasks -> Seq(Tasks)]

\* Every variable has the type the code gives it.  The counters are unsigned,
\* so that a decrement without its guard would wrap, and what a parked sender
\* offers is a value.
TypeOK == WorkerType /\ RunType /\ CountType /\ TaskType /\ ChanType /\ HandleType

\* The workers that are inside a dispatched task or its switch.
Busy == {w \in Workers : pc[w] \in {"task", "switched"}}

\* No stack is ever executed by two workers: a worker is in a task exactly
\* while `current' names it, no two name the same, and a task that runs is the
\* current one of some worker (mt_worker_loop, g_tls_current).
TaskOnOneWorker ==
    /\ \A w \in Workers : (w \in Busy) <=> (current[w] # NoTask)
    /\ \A w, x \in Workers : w # x /\ current[w] # NoTask => current[w] # current[x]
    /\ \A w \in Workers : pc[w] = "task" => state[current[w]] = "running"
    /\ \A t \in Tasks : state[t] \in {"running", "dead"} => \E w \in Workers : current[w] = t

\* The tasks whose worker has not yet run mt_task_after_switch for them.
Leavers == {current[w] : w \in {w \in Workers : pc[w] = "switched"}}

\* The intrusive run queue holds each READY task exactly once, and no other:
\* a task pushed twice would corrupt the list and run on two workers, a READY
\* task outside it would never run (mt_runq_push, mt_runq_remove).
RunqExact ==
    /\ IsInjective(runq)
    /\ \A t \in Tasks : t \in Range(runq) <=> state[t] = "ready" /\ t \notin Leavers

\* The entries of task t in the wait queues of all channels.
Entries(t) ==
    UNION {{<<c, k, i>> : i \in {i \in DOMAIN waitq[c][k] : waitq[c][k][i].task = t}} :
               c \in Chans, k \in Kinds}

\* The entries of task t in the join queues of the handles that are pending.
Joins(t) ==
    UNION {{<<u, i>> : i \in {i \in DOMAIN join_q[u] : join_q[u][i] = t}} :
               u \in {u \in Tasks : outcome[u] = "pending"}}

\* No queue refers to a task that is not parked in the way that queue is for:
\* whatever woke the task (a peer, close, destroy, timeout, cancel) removed all
\* its other registrations, so it cannot be woken twice and no queue points
\* into freed memory; and no destroyed channel has a waiter.
NoDanglingWaiter ==
    /\ \A c \in Chans, k \in Kinds : \A i \in DOMAIN waitq[c][k] :
          LET x == waitq[c][k][i] IN
          /\ c \notin destroyed
          /\ state[x.task] = IF k \in {"send", "recv"} THEN "waiting_chan" ELSE "waiting_select"
    /\ \A i \in DOMAIN timers : state[timers[i]] \in {"sleeping", "waiting_select", "waiting_fd"}
    /\ IsInjective(timers)
    /\ \A t \in Tasks : \A i \in DOMAIN join_q[t] : state[join_q[t][i]] = "waiting_join"
    /\ \A t \in Tasks : handle_freed[t] => state[t] = "freed" /\ join_q[t] = <<>>

\* Every parked task is registered with what is to wake it, once: a sleeper (or
\* a descriptor wait) in the timer heap, a blocked send or receive in one channel queue, a select in
\* a channel queue or the heap, a joiner in the queue of a pending handle.
ParkedIsRegistered ==
    \A t \in Tasks :
        /\ state[t] \in {"sleeping", "waiting_fd"} => t \in Range(timers)
        /\ state[t] = "waiting_chan" => Cardinality(Entries(t)) = 1
        /\ state[t] = "waiting_select" => Entries(t) # {} \/ t \in Range(timers)
        /\ state[t] = "waiting_join" => Cardinality(Joins(t)) = 1

\* A blocked send or receive has a reason to be: receivers wait only on an open
\* channel with nothing buffered and no blocked sender, senders only on an open
\* full one; whoever ends that reason (a peer, mt_chan_close) also ends the wait.
BlockedHasReason ==
    \A c \in Chans :
        /\ Len(buf[c]) <= Capacity[c]
        /\ waitq[c]["recv"] # <<>> =>
              ~closed[c] /\ buf[c] = <<>> /\ waitq[c]["send"] = <<>>
        /\ waitq[c]["send"] # <<>> => ~closed[c] /\ Len(buf[c]) = Capacity[c]

\* The counters the deadlock test reads are what they count.
CountsExact ==
    /\ live_count = Cardinality({t \in Tasks : state[t] \notin {"unborn", "freed"}})
    /\ running_tasks = Cardinality(Busy)
    /\ channel_waiting_count =
          Cardinality({t \in Tasks : state[t] \in {"waiting_chan", "waiting_select"}})
    /\ join_waiting_count = Cardinality({t \in Tasks : state[t] = "waiting_join"})

\* No wakeup is lost: while a worker sleeps on the condition variable there
\* are never more READY tasks than workers on their way to the run queue.
WorkConserving ==
    Sleepers(pc) # {} =>
        Len(runq) <= Cardinality({w \in Workers : pc[w] \in {"loop", "pick", "switched"}})

\* A task of the run can only be woken by another task, by nobody in it.
Stuck == {"waiting_chan", "waiting_select", "waiting_join"}

\* A run in which every live task is parked with no timer does not hang: some
\* worker is awake to find that out, or all have left (scheduler.c, the test of
\* running_tasks and the waiting counts before pthread_cond_wait).
NoSilentStall ==
    running /\ live_count > 0
    /\ (\A t \in Tasks : state[t] \in Stuck \cup {"unborn", "freed"}) /\ timers = <<>>
        => \/ \E w \in Workers : pc[w] \notin {"cond_wait", "exited"}
           \/ \A w \in Workers : pc[w] = "exited"

\* The cases on which a parked select still waits.
ParkedSelects ==
    UNION {Range(waitq[c][k]) : c \in Chans, k \in {"select_send", "select_recv"}}

\* The case x of a parked select could not complete now: its channel is open,
\* a receive finds no value and no blocked sender, a send no free slot and no
\* blocked receiver.
CaseBlocked(x) ==
    /\ ~closed[x.ch]
    /\ x.kind = "select_recv" => buf[x.ch] = <<>> /\ waitq[x.ch]["send"] = <<>>
    /\ x.kind = "select_send" => Len(buf[x.ch]) = Capacity[x.ch] /\ waitq[x.ch]["recv"] = <<>>

\* A select that is parked has no case that could complete.
SelectParkedNotReady == \A x \in ParkedSelects : CaseBlocked(x)

-----------------------------------------------------------------------------
(* Action properties                                                       *)

\* The run ends with MT_ERR_STATE only when no task of it can move: none is
\* READY, running or asleep on a timer, and no worker is inside a task.
SoundDeadlock ==
    [][run_result # "STATE" /\ run_result' = "STATE" =>
          /\ Busy = {}
          /\ \A t \in Tasks : state[t] \in Stuck \cup {"unborn", "freed"}
          /\ timers = <<>>]_vars

\* Whatever makes a case of a parked select ready wakes the select in the same
\* step: a send or close never leaves a select parked beside the value or the
\* closed channel it was waiting for (channel.c, the tries of the select
\* queues in mt_chan_send, mt_chan_recv and mt_chan_close).
SelectIsServed ==
    [][\A x \in ParkedSelects : CaseBlocked(x) => CaseBlocked(x)' \/ x \notin ParkedSelects']_vars

\* What has been sent on c and not yet received, in order.
Pending(c) == buf[c] \o [i \in DOMAIN waitq[c]["send"] |-> waitq[c]["send"][i].value]

\* Values leave a channel in the order in which they entered it, one by one:
\* a step appends one value, takes the first, takes the first and appends what
\* the oldest parked select offers (no blocked sender being passed over), or
\* withdraws blocked senders (closing, a cancelled sender) without disturbing
\* the order of the others.
PendingFifo ==
    [][\A c \in Chans :
          \/ Pending(c)' = Pending(c)
          \/ \E v \in Values : Pending(c)' = Append(Pending(c), v)
          \/ Pending(c) # <<>> /\ Pending(c)' = Tail(Pending(c))
          \/ /\ Pending(c) # <<>> /\ waitq[c]["send"] = <<>> /\ waitq[c]["select_send"] # <<>>
             /\ Pending(c)' = Append(Tail(Pending(c)), Head(waitq[c]["select_send"]).value)
          \/ closed'[c] /\ Pending(c)' = buf[c]
          \/ c \in destroyed' /\ Pending(c)' = <<>>
          \/ \E i \in DOMAIN waitq[c]["send"] :
                /\ cancel_requested'[waitq[c]["send"][i].task]
                /\ Pending(c) = Inserted(Pending(c)', Len(buf[c]) + i, waitq[c]["send"][i].value)]_vars

\* A task whose parked call has completed goes on to run: cancelling it does
\* not destroy it between the wakeup and its next dispatch.
NoAsyncKill ==
    [][\A t \in Tasks : running /\ state[t] = "ready" /\ ret[t].rc = "OK"
                           => state'[t] # "freed"]_vars

\* mt_run returns MT_OK only when every task that was created has ended,
\* although each worker decides by itself that nothing is left to do.  (A start
\* that fails for want of memory returns MT_ERR_NOMEM, not run_result.)
OkMeansDone ==
    [][running /\ ~running' /\ run_result = "OK" /\ (\A w \in Workers : pc[w] = "exited") =>
          \A t \in Tasks : state[t] \in {"unborn", "freed"}]_vars
=============================================================================
