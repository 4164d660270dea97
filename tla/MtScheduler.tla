---------------------------- MODULE MtScheduler ----------------------------
(***************************************************************************)
(* The worker loop, the switches of a task back to it (mt_yield,           *)
(* mt_sleep_ms, the end of the task), the start and the return of a run,   *)
(* and mt_shutdown during a run and after it.                              *)
(*                                                                         *)
(* One turn of mt_worker_loop is two steps under one hold of the lock:     *)
(* "loop" (the stop test and the expired timers) and "pick" (the run       *)
(* queue, or the reason to stop or to wait).  Time is abstracted to the    *)
(* order of the deadlines: a timer is inserted anywhere in that order and  *)
(* any number of the first timers may have expired when a worker looks.    *)
(***************************************************************************)
EXTENDS MtTask

\* A worker is at the top of the loop, and takes the lock if it does not hold it.
AtTop(w) == pc[w] = "loop" /\ lock \in {Free, w}

\* Worker w leaves the loop; p are the worker pcs before.
Leave(w, p) ==
    /\ pc' = [p EXCEPT ![w] = "exited"]
    /\ lock' = Free

\* The task that gave up the worker w goes where its state says.  The final
\* else of the code, an illegal state, is never reached.
mt_task_after_switch(w) ==
    LET t == current[w]
        p == [pc EXCEPT ![w] = "loop"]
    IN  /\ lock = w /\ pc[w] = "switched"
        /\ current' = [current EXCEPT ![w] = NoTask]
        /\ running_tasks' = Drop(running_tasks, 1)
        /\ \/ /\ state[t] = "ready"
              /\ mt_task_mark_ready(state, runq, p, <<t>>)
              /\ UNCHANGED <<live_count, join_waiting_count, ret, outcome, handle_freed, join_q>>
           \/ /\ state[t] \in Parked
              /\ pc' = p
              /\ UNCHANGED <<state, runq, live_count, join_waiting_count, ret,
                             outcome, handle_freed, join_q>>
           \/ /\ state[t] = "dead"
              /\ mt_handle_complete(t, IF cancel_requested[t] THEN "CANCELLED" ELSE "DONE", runq, p)
        /\ UNCHANGED <<lock, runVars, channel_waiting_count, sel, timers, chanVars,
                       cancel_requested, released>>

-----------------------------------------------------------------------------
\* Stopping, and nothing left that a shutdown still lets run.
WorkerStops(w) ==
    /\ AtTop(w)
    /\ stopping /\ (run_result # "CANCELLED" \/ runq = <<>>)
    /\ Leave(w, pc)
    /\ UNCHANGED <<current, runVars, countVars, taskVars, chanVars, handleVars>>

\* The worker pcs once the descriptor waits of the tasks of T, if any, are
\* deactivated, which notifies all workers.
FdNotified(T) == IF \E t \in T : state[t] = "waiting_fd" THEN mt_notify_all(pc) ELSE pc

\* The tasks of the first n timers become READY in order: a sleep ends, a
\* select returns its timeout case, a descriptor wait times out.
mt_wake_expired_timers(w, n) ==
    LET fired == SubSeq(timers, 1, n)
        selects == {t \in Range(fired) : state[t] = "waiting_select"}
    IN  /\ timers' = SubSeq(timers, n + 1, Len(timers))
        /\ waitq' = mt_select_free_task_waiters(selects)
        /\ channel_waiting_count' = Drop(channel_waiting_count, Cardinality(selects))
        /\ ret' = [t \in Tasks |-> IF t \in selects THEN Return("OK", 0, NoValue) ELSE ret[t]]
        /\ mt_task_mark_ready(state, runq, [FdNotified(Range(fired)) EXCEPT ![w] = "pick"], fired)

\* The turn goes on, with the lock.  A shutdown no longer fires timers.
WorkerTurns(w) ==
    /\ AtTop(w)
    /\ ~stopping \/ (run_result = "CANCELLED" /\ runq # <<>>)
    /\ \E n \in 0 .. (IF stopping THEN 0 ELSE Len(timers)) : mt_wake_expired_timers(w, n)
    /\ lock' = w
    /\ UNCHANGED <<current, runVars, live_count, running_tasks, join_waiting_count, sel,
                   buf, closed, destroyed, handleVars>>

-----------------------------------------------------------------------------
\* The head of the run queue runs, and the call it was parked in returns.
WorkerDispatches(w) ==
    LET t == Head(runq) IN
    /\ pc[w] = "pick" /\ runq # <<>>
    /\ runq' = Tail(runq)
    /\ state' = [state EXCEPT ![t] = "running"]
    /\ ret' = [ret EXCEPT ![t] = NoReturn]
    /\ current' = [current EXCEPT ![w] = t]
    /\ running_tasks' = running_tasks + 1
    /\ pc' = [pc EXCEPT ![w] = "task"]
    /\ lock' = Free
    /\ UNCHANGED <<runVars, live_count, channel_waiting_count, join_waiting_count,
                   sel, timers, chanVars, handleVars>>

\* Mutated form: parked and sleeping tasks are not counted as left.
FinishWhenNothingRuns(w) ==
    /\ pc[w] = "pick" /\ runq = <<>> /\ running_tasks = 0
    /\ stopping' = TRUE
    /\ Leave(w, mt_notify_all(pc))
    /\ UNCHANGED <<current, running, run_result, countVars, taskVars, chanVars, handleVars>>

\* Mutated form: the other workers are not told.
FinishWithoutNotify(w) ==
    /\ pc[w] = "pick" /\ runq = <<>> /\ live_count = 0
    /\ stopping' = TRUE
    /\ Leave(w, pc)
    /\ UNCHANGED <<current, running, run_result, countVars, taskVars, chanVars, handleVars>>

\* No task is left: the run ends.
WorkerFinishes(w) ==
    /\ pc[w] = "pick" /\ runq = <<>> /\ live_count = 0
    /\ stopping' = TRUE
    /\ Leave(w, mt_notify_all(pc))
    /\ UNCHANGED <<current, running, run_result, countVars, taskVars, chanVars, handleVars>>

\* Mutated form: running tasks do not matter.
DeadlockedWhileRunning ==
    /\ runq = <<>> /\ live_count # 0 /\ timers = <<>>
    /\ channel_waiting_count > 0 \/ join_waiting_count > 0

\* Mutated form: timers do not matter.
DeadlockedDespiteTimers ==
    /\ runq = <<>> /\ live_count # 0
    /\ running_tasks = 0
    /\ channel_waiting_count > 0 \/ join_waiting_count > 0

\* Mutated form: one parked task is overlooked.
DeadlockedOffByOne ==
    /\ runq = <<>> /\ live_count # 0 /\ timers = <<>>
    /\ running_tasks = 0
    /\ channel_waiting_count > 1 \/ join_waiting_count > 1

\* No task is runnable, running or has a timer, and some are parked.
Deadlocked ==
    /\ runq = <<>> /\ live_count # 0 /\ timers = <<>>
    /\ running_tasks = 0
    /\ channel_waiting_count > 0 \/ join_waiting_count > 0

\* The run ends with MT_ERR_STATE.
WorkerReportsDeadlock(w) ==
    /\ pc[w] = "pick" /\ Deadlocked
    /\ run_result' = "STATE"
    /\ stopping' = TRUE
    /\ Leave(w, mt_notify_all(pc))
    /\ UNCHANGED <<current, running, countVars, taskVars, chanVars, handleVars>>

\* Mutated form: the wait has no deadline.
WaitWithoutDeadline(w) ==
    /\ pc[w] = "pick" /\ runq = <<>> /\ live_count # 0 /\ ~Deadlocked
    /\ pc' = [pc EXCEPT ![w] = "cond_wait"] /\ lock' = Free
    /\ UNCHANGED <<current, runVars, countVars, taskVars, chanVars, handleVars>>

\* Nothing to do yet: wait on the condition variable, until the next deadline
\* if there is a timer (or go round again if it has just passed).
WorkerWaits(w) ==
    /\ pc[w] = "pick" /\ runq = <<>> /\ live_count # 0 /\ ~Deadlocked
    /\ \/ /\ timers = <<>>
          /\ pc' = [pc EXCEPT ![w] = "cond_wait"] /\ lock' = Free
       \/ /\ timers # <<>>
          /\ pc' = [pc EXCEPT ![w] = "timed_wait"] /\ lock' = Free
       \/ /\ timers # <<>>
          /\ pc' = [pc EXCEPT ![w] = "loop"] /\ UNCHANGED lock
    /\ UNCHANGED <<current, runVars, countVars, taskVars, chanVars, handleVars>>

\* A timed wait times out; pthread_cond_wait may also return spuriously.
CondWaitReturns(w) ==
    /\ pc[w] \in Asleep
    /\ pc' = [pc EXCEPT ![w] = "loop"]
    /\ UNCHANGED <<lock, current, runVars, countVars, taskVars, chanVars, handleVars>>

-----------------------------------------------------------------------------
(* The running task leaves its worker                                      *)

\* Mutated form: the task is queued before it has left its stack.
YieldPushes(w) ==
    /\ w \in Workers /\ Calls(w)
    /\ state' = [state EXCEPT ![current[w]] = "ready"]
    /\ runq' = Append(runq, current[w])
    /\ mt_ctx_switch(w, pc)
    /\ UNCHANGED <<current, runVars, countVars, ret, sel, timers, chanVars, handleVars>>

mt_yield(w) ==
    /\ w \in Workers /\ Calls(w)
    /\ state' = [state EXCEPT ![current[w]] = "ready"]
    /\ mt_ctx_switch(w, pc)
    /\ UNCHANGED <<current, runVars, countVars, ret, sel, runq, timers, chanVars, handleVars>>

\* If the timer heap cannot grow the worker sleeps instead, which changes nothing.
mt_sleep_ms(w) ==
    /\ w \in Workers /\ Calls(w)
    /\ mt_timer_push(current[w])
    /\ state' = [state EXCEPT ![current[w]] = "sleeping"]
    /\ mt_ctx_switch(w, mt_notify_all(pc))
    /\ UNCHANGED <<current, runVars, countVars, ret, sel, runq, chanVars, handleVars>>

\* The task function returns.
mt_task_entry(w) ==
    /\ w \in Workers /\ Calls(w)
    /\ state' = [state EXCEPT ![current[w]] = "dead"]
    /\ mt_ctx_switch(w, pc)
    /\ UNCHANGED <<current, runVars, countVars, ret, sel, runq, timers, chanVars, handleVars>>

-----------------------------------------------------------------------------
(* The run                                                                 *)

\* A thread of the run enters mt_worker_loop, or cannot set up its context and
\* stops the run.  (The thread that called mt_run_internal has its context from
\* mt_init; the model does not tell it apart and lets it fail as well.)
WorkerStarts(w) ==
    /\ pc[w] = "starting"
    /\ \/ /\ pc' = [pc EXCEPT ![w] = "loop"]
          /\ UNCHANGED runVars
       \/ /\ "nothread" \in Api /\ lock = Free
          /\ stopping' = TRUE /\ run_result' = "ERR"
          /\ pc' = [mt_notify_all(pc) EXCEPT ![w] = "exited"]
          /\ UNCHANGED running
    /\ UNCHANGED <<lock, current, countVars, taskVars, chanVars, handleVars>>

\* The array of threads cannot be allocated, before any of them is created:
\* mt_run_internal returns MT_ERR_NOMEM.
NoThreadArray ==
    /\ running /\ lock = Free
    /\ Cardinality(Workers) > 1 /\ \A w \in Workers : pc[w] = "starting"
    /\ running' = FALSE
    /\ pc' = [w \in Workers |-> "exited"]
    /\ UNCHANGED <<lock, current, stopping, run_result, countVars, taskVars, chanVars, handleVars>>

\* pthread_create fails for one thread.  The workers of S will not run: that
\* one, those after it and the caller of mt_run_internal, which joins the others.
ThreadNotCreated ==
    /\ running /\ lock = Free
    /\ stopping' = TRUE /\ run_result' = "ERR"
    /\ \E S \in SUBSET {w \in Workers : pc[w] = "starting"} :
          /\ Cardinality(S) > 1
          /\ pc' = [w \in Workers |-> IF w \in S THEN "exited" ELSE mt_notify_all(pc)[w]]
    /\ UNCHANGED <<lock, current, running, countVars, taskVars, chanVars, handleVars>>

StartFails == NoThreadArray \/ ThreadNotCreated

\* mt_run_internal has joined the workers and returns run_result.  (After a
\* failed start stopping stays set, which nothing reads before the next start.)
RunReturns ==
    /\ running /\ lock = Free
    /\ \A w \in Workers : pc[w] = "exited"
    /\ running' = FALSE /\ stopping' = FALSE
    /\ UNCHANGED <<workerVars, run_result, countVars, taskVars, chanVars, handleVars>>

\* mt_run or mt_runtime_start is called (again).
mt_run_internal ==
    /\ ~running /\ lock = Free
    /\ running' = TRUE /\ stopping' = FALSE /\ run_result' = "OK"
    /\ pc' = [w \in Workers |-> "starting"]
    /\ UNCHANGED <<lock, current, countVars, taskVars, chanVars, handleVars>>

-----------------------------------------------------------------------------
\* mt_shutdown during a run: the workers stop once the run queue is empty.
ShutdownStops ==
    /\ running
    /\ stopping' = TRUE /\ run_result' = "CANCELLED"
    /\ pc' = mt_notify_all(pc)
    /\ UNCHANGED <<lock, current, running, countVars, taskVars, chanVars, handleVars>>

\* The handles in g_rt.handles.
RegisteredHandles == {t \in Handled : state[t] # "unborn" /\ ~handle_freed[t]}

\* What every mt_shutdown outside a run does to channels, handles and tasks.
TearsDown ==
    /\ ~running
    /\ closed' = [c \in Chans |-> closed[c] \/ c \notin destroyed]
    /\ waitq' = [c \in Chans |-> [k \in Kinds |-> <<>>]]
    /\ cancel_requested' = [t \in Tasks |-> cancel_requested[t] \/ t \in RegisteredHandles]
    /\ outcome' = [t \in Tasks |-> IF t \in RegisteredHandles THEN "CANCELLED" ELSE outcome[t]]
    /\ join_q' = [t \in Tasks |-> <<>>]
    /\ handle_freed' = [t \in Tasks |-> handle_freed[t] \/ (t \in RegisteredHandles /\ released[t])]
    /\ state' = [t \in Tasks |-> IF state[t] = "unborn" THEN "unborn" ELSE "freed"]
    /\ UNCHANGED <<workerVars, running, ret, sel, buf, destroyed, released>>

\* Mutated form: the timers are not dropped.
ResetKeepsTimers ==
    /\ runq' = <<>> /\ timers' = timers
    /\ live_count' = 0 /\ running_tasks' = 0
    /\ channel_waiting_count' = 0 /\ join_waiting_count' = 0
    /\ stopping' = FALSE /\ run_result' = "OK"

\* Mutated form: the run queue is not dropped.
ResetKeepsRunq ==
    /\ runq' = runq /\ timers' = <<>>
    /\ live_count' = 0 /\ running_tasks' = 0
    /\ channel_waiting_count' = 0 /\ join_waiting_count' = 0
    /\ stopping' = FALSE /\ run_result' = "OK"

\* Mutated form: the parked joiners stay counted.
ResetKeepsCounts ==
    /\ runq' = <<>> /\ timers' = <<>>
    /\ live_count' = 0 /\ running_tasks' = 0
    /\ channel_waiting_count' = 0 /\ join_waiting_count' = join_waiting_count
    /\ stopping' = FALSE /\ run_result' = "OK"

\* The runtime itself is reset, and may be initialised again.
RuntimeReset ==
    /\ runq' = <<>> /\ timers' = <<>>
    /\ live_count' = 0 /\ running_tasks' = 0
    /\ channel_waiting_count' = 0 /\ join_waiting_count' = 0
    /\ stopping' = FALSE /\ run_result' = "OK"

\* Called by an OS thread that is not inside a task.
mt_shutdown ==
    /\ lock = Free
    /\ ShutdownStops \/ (TearsDown /\ RuntimeReset)
=============================================================================
