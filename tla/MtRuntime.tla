----------------------------- MODULE MtRuntime -----------------------------
(***************************************************************************)
(* The state of the MicroThread runtime (g_rt, the tasks, the channels and *)
(* the handles), and the helpers every operation of it is built from: the  *)
(* run queue, the condition variable, the wait queues and the transitions  *)
(* of a task between READY and parked.                                     *)
(*                                                                         *)
(* All of this state is guarded by the one mutex g_rt.lock.  A critical    *)
(* section that does not switch contexts is one step.  A critical section  *)
(* that does is several steps, and `lock' says which worker is inside it.  *)
(***************************************************************************)
EXTENDS FiniteSets, MtQueues

CONSTANTS
    Workers,      \* the OS threads of mt_runtime_start(Cardinality(Workers))
    Free,         \* the owner of g_rt.lock when nobody holds it
    Outside,      \* an OS thread that is not a worker (mt_current_task() = NULL)
    Tasks,        \* task structures, each created at most once
    NoTask,       \* NULL
    Chans,        \* channels, created before the run
    Capacity,     \* [Chans -> Nat], the capacity given to mt_chan_create
    Values,       \* what is sent
    NoValue,      \* no value
    Boot,         \* the tasks created before the run, in the order of creation
    Handled,      \* the tasks created by mt_go_handle, the others by mt_go
    SelectCalls,  \* the argument lists with which mt_select may be called
    Api           \* the operations the program uses

ASSUME RuntimeAssumption ==
    /\ IsFiniteSet(Workers) /\ Workers # {}
    /\ Free \notin Workers /\ Outside \notin Workers
    /\ IsFiniteSet(Tasks) /\ NoTask \notin Tasks
    /\ NoValue \notin Values
    /\ Capacity \in [Chans -> Nat]
    /\ Boot \in Seq(Tasks) /\ IsInjective(Boot)
    /\ Handled \subseteq Tasks

VARIABLES
    lock,                   \* the worker inside a critical section, or Free
    pc,                     \* where each worker is
    current,                \* g_tls_current of each worker
    running, stopping, run_result,
    live_count, running_tasks, channel_waiting_count, join_waiting_count,
    state,                  \* task->state; "unborn" before creation, "freed" after mt_task_destroy
    ret,                    \* what the parked call of a woken task will return
    sel,                    \* the mt_select call a running task is scanning
    runq,                   \* g_rt.runq_head ... runq_tail
    timers,                 \* g_rt.timers, in the order of mt_timer_less
    buf, closed, destroyed, waitq,
    cancel_requested, released, outcome, handle_freed, join_q

workerVars == <<lock, pc, current>>
runVars    == <<running, stopping, run_result>>
countVars  == <<live_count, running_tasks, channel_waiting_count, join_waiting_count>>
taskVars   == <<state, ret, sel, runq, timers>>
chanVars   == <<buf, closed, destroyed, waitq>>
handleVars == <<cancel_requested, released, outcome, handle_freed, join_q>>
vars == <<workerVars, runVars, countVars, taskVars, chanVars, handleVars>>

-----------------------------------------------------------------------------
Kinds == {"send", "recv", "select_send", "select_recv"}
Parked == {"sleeping", "waiting_chan", "waiting_select", "waiting_join", "waiting_fd"}
States == {"unborn", "ready", "running", "dead", "freed"} \cup Parked
Asleep == {"cond_wait", "timed_wait"}
WorkerPcs == {"starting", "loop", "pick", "task", "switched", "exited"} \cup Asleep
Results == {"none", "OK", "CLOSED", "CANCELLED"}

\* One entry of a wait queue.  A blocking send or receive has index 0.
Waiter(t, c, k, i, v) == [task |-> t, ch |-> c, kind |-> k, index |-> i, value |-> v]
Waiters == [task : Tasks, ch : Chans, kind : Kinds, index : Nat, value : Values \cup {NoValue}]

Return(rc, i, v) == [rc |-> rc, index |-> i, value |-> v]
Returns == [rc : Results, index : Nat, value : Values \cup {NoValue}]
NoReturn == Return("none", 0, NoValue)

NoCall == [cases |-> <<>>, timeout |-> "none", default |-> FALSE]
NoSelect == [call |-> NoCall, next |-> 0]
Selects == {NoSelect} \cup [call : SelectCalls, next : Nat \ {0}]

\* Mutated form: the decrements are not guarded.
UnguardedDrop(count, k) == count - k

\* k decrements, each guarded by `if (count > 0)'.
Drop(count, k) == IF count > k THEN count - k ELSE 0

-----------------------------------------------------------------------------
(* The condition variable and the wake pipe                                *)

Sleepers(p) == {w \in Workers : p[w] \in Asleep}

\* n calls of mt_notify_one: each wakes one of the workers that wait, if any does.
mt_notify_one(p, n) ==
    { [w \in Workers |-> IF w \in S THEN "loop" ELSE p[w]] :
        S \in { S \in SUBSET Sleepers(p) :
                    Cardinality(S) = n \/ (S = Sleepers(p) /\ Cardinality(S) < n) } }

mt_notify_all(p) == [w \in Workers |-> IF w \in Sleepers(p) THEN "loop" ELSE p[w]]

-----------------------------------------------------------------------------
(* The run queue and the transitions of a task                             *)

\* Mutated form: nobody is notified.
PushWithoutNotify(st, q, p, ws) ==
    /\ state' = [t \in Tasks |-> IF t \in Range(ws) THEN "ready" ELSE st[t]]
    /\ runq' = q \o ws
    /\ pc' = p

\* Mutated form: the push is at the head.
PushAtHead(st, q, p, ws) ==
    /\ state' = [t \in Tasks |-> IF t \in Range(ws) THEN "ready" ELSE st[t]]
    /\ runq' = ws \o q
    /\ pc' \in mt_notify_one(p, Len(ws))

\* The tasks of ws become READY and are pushed in order, each push notifying
\* one worker; st, q and p are the states, run queue and worker pcs before.
mt_task_mark_ready(st, q, p, ws) ==
    /\ state' = [t \in Tasks |-> IF t \in Range(ws) THEN "ready" ELSE st[t]]
    /\ runq' = q \o ws
    /\ pc' \in mt_notify_one(p, Len(ws))

\* A task gives up its worker: it switches to the scheduler context with the lock held.
mt_ctx_switch(w, p) ==
    /\ lock' = w
    /\ pc' = [p EXCEPT ![w] = "switched"]

\* mt_task_block_on_channel, mt_chan_waitq_push and the switch.
mt_task_block_on_channel(w, c, kind, v) ==
    LET t == current[w] IN
    /\ state' = [state EXCEPT ![t] = "waiting_chan"]
    /\ channel_waiting_count' = channel_waiting_count + 1
    /\ waitq' = [waitq EXCEPT ![c][kind] = Append(@, Waiter(t, c, kind, 0, v))]
    /\ mt_ctx_switch(w, pc)

\* Mutated form: the count is decremented by the pop and by the wakeup.
ReadyWaiterCountsTwice(c, kind, rc, v) ==
    LET t == Head(waitq[c][kind]).task IN
    /\ waitq' = [waitq EXCEPT ![c][kind] = Tail(@)]
    /\ channel_waiting_count' = Drop(channel_waiting_count, 2)
    /\ ret' = [ret EXCEPT ![t] = Return(rc, 0, v)]
    /\ mt_task_mark_ready(state, runq, pc, <<t>>)
    /\ UNCHANGED timers

\* The head of queue `kind' of c is popped and its blocking call returns rc,
\* having received v.
mt_chan_ready_waiter(c, kind, rc, v) ==
    LET t == Head(waitq[c][kind]).task IN
    /\ waitq' = [waitq EXCEPT ![c][kind] = Tail(@)]
    /\ channel_waiting_count' = Drop(channel_waiting_count, 1)
    /\ ret' = [ret EXCEPT ![t] = Return(rc, 0, v)]
    /\ mt_task_mark_ready(state, runq, pc, <<t>>)
    /\ UNCHANGED timers

\* The wait queues wq without the entries of the tasks of T.
EntriesFreed(wq, T) ==
    [c \in Chans |-> [k \in Kinds |->
        Keep(wq[c][k], {x \in Range(wq[c][k]) : x.task \notin T})]]

mt_select_free_task_waiters(T) == EntriesFreed(waitq, T)

\* A parked select returns rc for the case `index', having received v.
mt_select_unpark_task(t, rc, index, v) ==
    /\ timers' = Without(timers, t)
    /\ waitq' = mt_select_free_task_waiters({t})
    /\ channel_waiting_count' = Drop(channel_waiting_count, 1)
    /\ ret' = [ret EXCEPT ![t] = Return(rc, index, v)]
    /\ mt_task_mark_ready(state, runq, pc, <<t>>)

\* The head of select queue `kind' of c is popped and its select returns rc.
mt_select_complete_waiter(c, kind, rc, v) ==
    LET x == Head(waitq[c][kind])
    IN  mt_select_unpark_task(x.task, rc, x.index, v)

\* A timer for t, somewhere in the order of the deadlines; the notification of
\* the workers is left to the caller's switch.
mt_timer_push(t) == \E i \in 1 .. Len(timers) + 1 : timers' = Inserted(timers, i, t)

-----------------------------------------------------------------------------
(* A call into the runtime                                                 *)

\* w may enter the runtime: the lock is free, and w is an outside thread or a
\* worker whose task is running program code.
Calls(w) ==
    /\ lock = Free
    /\ w \in Workers => pc[w] = "task" /\ sel[current[w]] = NoSelect

Callers == Workers \cup (IF "outside" \in Api THEN {Outside} ELSE {})
=============================================================================
