------------------------------- MODULE MtTask -------------------------------
(***************************************************************************)
(* Creating a task, its handle, mt_join, mt_task_cancel and                *)
(* mt_task_handle_release.  A handle is named by its task.  Of a handle,   *)
(* outcome is "pending" until mt_handle_complete, then what status and     *)
(* join_result say from then on.  The program does not use a handle it has *)
(* released.                                                               *)
(***************************************************************************)
EXTENDS MtSelect

\* Mutated form: no worker is notified of the new task.
GoWithoutNotify(w, t) ==
    /\ Calls(w)
    /\ state[t] = "unborn"
    /\ state' = [state EXCEPT ![t] = "ready"]
    /\ runq' = Append(runq, t)
    /\ live_count' = live_count + 1
    /\ UNCHANGED <<lock, pc, current, runVars, running_tasks, channel_waiting_count,
                   join_waiting_count, ret, sel, timers, chanVars, handleVars>>

\* mt_create_task_internal up to mt_runq_push, called by mt_go and mt_go_handle.
mt_go(w, t) ==
    /\ Calls(w)
    /\ state[t] = "unborn"
    /\ mt_task_mark_ready(state, runq, pc, <<t>>)
    /\ live_count' = live_count + 1
    /\ UNCHANGED <<lock, current, runVars, running_tasks, channel_waiting_count,
                   join_waiting_count, ret, sel, timers, chanVars, handleVars>>

\* The caller still owns the handle of t.
HasHandle(t) == t \in Handled /\ state[t] # "unborn" /\ ~released[t]

mt_task_handle_release(w, t) ==
    /\ Calls(w) /\ HasHandle(t)
    /\ released' = [released EXCEPT ![t] = TRUE]
    /\ handle_freed' = [handle_freed EXCEPT ![t] = outcome[t] # "pending"]
    /\ UNCHANGED <<workerVars, runVars, countVars, taskVars, chanVars,
                   cancel_requested, outcome, join_q>>

\* Joining a task that is done returns at once, joining oneself is an error.
mt_join(w, t) ==
    LET u == current[w] IN
    /\ w \in Workers /\ Calls(w) /\ HasHandle(t)
    /\ outcome[t] = "pending" /\ u # t
    /\ state' = [state EXCEPT ![u] = "waiting_join"]
    /\ join_waiting_count' = join_waiting_count + 1
    /\ join_q' = [join_q EXCEPT ![t] = Append(@, u)]
    /\ mt_ctx_switch(w, pc)
    /\ UNCHANGED <<current, runVars, live_count, running_tasks, channel_waiting_count,
                   ret, sel, runq, timers, chanVars, cancel_requested, released,
                   outcome, handle_freed>>

-----------------------------------------------------------------------------
\* The end of t, as result: it is destroyed, its handle (if any) is completed,
\* its joiners become READY in order, and a released handle is freed.  q and p
\* are the run queue and the worker pcs before.
mt_handle_complete(t, result, q, p) ==
    /\ live_count' = Drop(live_count, 1)
    /\ mt_task_mark_ready([state EXCEPT ![t] = "freed"], q, p, join_q[t])
    /\ ret' = [u \in Tasks |-> IF u \in Range(join_q[t])
                               THEN Return(IF result = "CANCELLED" THEN "CANCELLED" ELSE "OK",
                                           0, NoValue)
                               ELSE ret[u]]
    /\ join_waiting_count' = Drop(join_waiting_count, Len(join_q[t]))
    /\ join_q' = [join_q EXCEPT ![t] = <<>>]
    /\ outcome' = [outcome EXCEPT ![t] = IF t \in Handled THEN result ELSE @]
    /\ handle_freed' = [handle_freed EXCEPT ![t] = released[t]]

-----------------------------------------------------------------------------
(* mt_task_wake_for_cancel, one definition per task state                  *)

\* Mutated form: the destroyed task stays in the run queue.
CancelReadyLeavesQueue(t) ==
    /\ state[t] = "ready"
    /\ mt_handle_complete(t, "CANCELLED", runq, pc)
    /\ UNCHANGED <<timers, waitq, channel_waiting_count>>

\* A task in the run queue ends without running again.
CancelReady(t) ==
    /\ state[t] = "ready"
    /\ mt_handle_complete(t, "CANCELLED", Without(runq, t), pc)
    /\ UNCHANGED <<timers, waitq, channel_waiting_count>>

CancelSleeping(t) ==
    /\ state[t] = "sleeping"
    /\ timers' = Without(timers, t)
    /\ mt_task_mark_ready(state, runq, pc, <<t>>)
    /\ UNCHANGED <<ret, waitq, live_count, channel_waiting_count, join_waiting_count,
                   outcome, handle_freed, join_q>>

\* Mutated form: the waiter is removed and the task not made READY.
CancelChannelForgetsTask(t) ==
    /\ state[t] = "waiting_chan"
    /\ waitq' = mt_select_free_task_waiters({t})
    /\ channel_waiting_count' = Drop(channel_waiting_count, 1)
    /\ UNCHANGED <<state, runq, pc, ret, timers, live_count, join_waiting_count, outcome,
                   handle_freed, join_q>>

\* Mutated form: the list is cut at the waiter instead of closed up behind it.
CancelChannelCutsList(t) ==
    /\ state[t] = "waiting_chan"
    /\ waitq' = [c \in Chans |-> [k \in Kinds |->
          LET q == waitq[c][k] IN
          IF \E i \in DOMAIN q : q[i].task = t
          THEN SubSeq(q, 1, (CHOOSE i \in DOMAIN q : q[i].task = t) - 1) ELSE q]]
    /\ channel_waiting_count' = Drop(channel_waiting_count, 2)
    /\ ret' = [ret EXCEPT ![t] = Return("CANCELLED", 0, NoValue)]
    /\ mt_task_mark_ready(state, runq, pc, <<t>>)
    /\ UNCHANGED <<timers, live_count, join_waiting_count, outcome, handle_freed, join_q>>

\* mt_chan_remove_waiter and then mt_task_complete_channel_wait: both
\* decrement channel_waiting_count.
CancelChannel(t) ==
    /\ state[t] = "waiting_chan"
    /\ waitq' = mt_select_free_task_waiters({t})
    /\ channel_waiting_count' = Drop(channel_waiting_count, 2)
    /\ ret' = [ret EXCEPT ![t] = Return("CANCELLED", 0, NoValue)]
    /\ mt_task_mark_ready(state, runq, pc, <<t>>)
    /\ UNCHANGED <<timers, live_count, join_waiting_count, outcome, handle_freed, join_q>>

CancelSelect(t) ==
    /\ state[t] = "waiting_select"
    /\ mt_select_unpark_task(t, "CANCELLED", 0, NoValue)
    /\ UNCHANGED <<live_count, join_waiting_count, outcome, handle_freed, join_q>>

\* Mutated form: the joiner stays in the queue of the handle.
CancelJoinKeepsJoiner(t) ==
    /\ state[t] = "waiting_join"
    /\ join_waiting_count' = Drop(join_waiting_count, 1)
    /\ ret' = [ret EXCEPT ![t] = Return("CANCELLED", 0, NoValue)]
    /\ mt_task_mark_ready(state, runq, pc, <<t>>)
    /\ UNCHANGED <<timers, waitq, live_count, channel_waiting_count, outcome, handle_freed, join_q>>

\* mt_handle_remove_joiner and then mt_task_complete_join_wait: both
\* decrement join_waiting_count.
CancelJoin(t) ==
    /\ state[t] = "waiting_join"
    /\ join_q' = [u \in Tasks |-> Without(join_q[u], t)]
    /\ join_waiting_count' = Drop(join_waiting_count, 2)
    /\ ret' = [ret EXCEPT ![t] = Return("CANCELLED", 0, NoValue)]
    /\ mt_task_mark_ready(state, runq, pc, <<t>>)
    /\ UNCHANGED <<timers, waitq, live_count, channel_waiting_count, outcome, handle_freed>>

\* The descriptor wait returns MT_ERR_CANCELLED: mt_fd_ready_waiter.
CancelFd(t) ==
    /\ state[t] = "waiting_fd"
    /\ timers' = Without(timers, t)
    /\ mt_task_mark_ready(state, runq, mt_notify_all(pc), <<t>>)
    /\ UNCHANGED <<ret, waitq, live_count, channel_waiting_count, join_waiting_count,
                   outcome, handle_freed, join_q>>

\* A running task only sees the flag, a finished one nothing.
CancelOther(t) ==
    /\ state[t] \in {"running", "freed"}
    /\ UNCHANGED <<state, runq, pc, ret, timers, waitq, live_count, channel_waiting_count,
                   join_waiting_count, outcome, handle_freed, join_q>>

mt_task_cancel(w, t) ==
    /\ Calls(w) /\ HasHandle(t)
    /\ cancel_requested' = [cancel_requested EXCEPT ![t] = TRUE]
    /\ \/ CancelReady(t)   \/ CancelSleeping(t) \/ CancelChannel(t)
       \/ CancelSelect(t)  \/ CancelJoin(t)     \/ CancelFd(t)  \/ CancelOther(t)
    /\ UNCHANGED <<lock, current, runVars, running_tasks, sel, buf, closed, destroyed, released>>
=============================================================================
