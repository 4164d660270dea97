--------------------------- MODULE MicrothreadIo ---------------------------
(***************************************************************************)
(* The runtime with its descriptor layer.  The steps of Microthread go on  *)
(* as they are, with what they do to descriptor waits added; and a worker  *)
(* polls between the expired timers and the run queue, and when it is idle.*)
(***************************************************************************)
EXTENDS Microthread, MtIo

allVars == <<vars, ioVars>>

IoInit ==
    /\ Init
    /\ file = [fd \in Fds |-> NoFile]
    /\ ready = [f \in Files |-> {}]
    /\ nonblock = [f \in Files |-> FALSE]
    /\ generations = [fd \in Fds |-> NoEntry]
    /\ fd_waiters = <<>> /\ fd_waiting_count = 0
    /\ io_polling = FALSE
    /\ polled = [w \in Workers |-> FALSE]
    /\ interest = [w \in Workers |-> {}]
    /\ events = [w \in Workers |-> {}]
    /\ call = [a \in Actors |-> Idle]

-----------------------------------------------------------------------------
(* The worker loop                                                         *)

SetPolled(w, b) == polled' = [polled EXCEPT ![w] = b]

\* Mutated form: no poll while there is a task to run.
TurnsPollIdle(w) ==
    /\ ~polled[w] /\ WorkerTurns(w)
    /\ mt_fd_waiter_deactivate(Range(timers) \ Range(timers'), "TIMEOUT")
    /\ SetPolled(w, stopping \/ fd_waiting_count' = 0 \/ runq' # <<>>)
    /\ UNCHANGED <<kernelVars, generations, io_polling, interest, events, call>>

\* The turn goes on: the descriptor waits among the expired timers time out,
\* and the poll is due unless the run stops or nobody waits.
IoTurns(w) ==
    /\ ~polled[w] /\ WorkerTurns(w)
    /\ mt_fd_waiter_deactivate(Range(timers) \ Range(timers'), "TIMEOUT")
    /\ SetPolled(w, stopping \/ fd_waiting_count' = 0)
    /\ UNCHANGED <<kernelVars, generations, io_polling, interest, events, call>>

\* Nothing but the worker itself changes.
QuietVars == <<current, runVars, countVars, taskVars, chanVars, handleVars,
               kernelVars, generations, waitVars, call>>

\* The worker waits on the condition variable because another one polls.
WaitsForPoller(w, asleep, b) ==
    /\ io_polling
    /\ pc' = [pc EXCEPT ![w] = asleep] /\ lock' = Free
    /\ SetPolled(w, b)
    /\ UNCHANGED <<io_polling, interest, events>>

\* mt_poll_fd_waiters_once: a poll that does not wait, or, if another worker
\* polls, a wait without a deadline.
mt_poll_fd_waiters_once(w) ==
    /\ pc[w] = "pick" /\ ~polled[w]
    /\ (StartPoll(w) /\ UNCHANGED polled) \/ WaitsForPoller(w, "cond_wait", TRUE)
    /\ UNCHANGED QuietVars

\* The wait of mt_poll_fd_waiters_once has returned: on to the run queue.
ResumesTurn(w) ==
    /\ AtTop(w) /\ polled[w]
    /\ pc' = [pc EXCEPT ![w] = "pick"] /\ lock' = w
    /\ UNCHANGED <<QuietVars, pollVars>>

\* Nothing to run: poll until the next deadline, at most 10 ms.  If another
\* worker polls, wait as long, or without a deadline when one has just passed.
PollsIdle(w) ==
    /\ pc[w] = "pick" /\ polled[w] /\ runq = <<>>
    /\ ~stopping /\ live_count # 0 /\ fd_waiting_count > 0
    /\ \/ WaitsForPoller(w, "timed_wait", FALSE)
       \/ timers # <<>> /\ WaitsForPoller(w, "cond_wait", FALSE)
       \/ StartPoll(w) /\ UNCHANGED polled
    /\ UNCHANGED QuietVars

\* The run queue is empty and the run stops.
WorkerBreaks(w) ==
    /\ pc[w] = "pick" /\ runq = <<>> /\ stopping
    /\ Leave(w, pc)
    /\ UNCHANGED <<current, runVars, countVars, taskVars, chanVars, handleVars>>

\* What the worker does at the run queue, where descriptor waits keep it from
\* waiting and from reporting a deadlock.
IoPicks(w) ==
    /\ polled[w]
    /\ \/ WorkerDispatches(w)
       \/ WorkerBreaks(w)
       \/ ~stopping /\ WorkerFinishes(w)
       \/ ~stopping /\ fd_waiting_count = 0 /\ (WorkerReportsDeadlock(w) \/ WorkerWaits(w))
    /\ SetPolled(w, FALSE)
    /\ UNCHANGED <<kernelVars, generations, waitVars, io_polling, interest, events, call>>

Polling(w) == PollReturns(w) \/ HandleEvent(w) \/ PollEnds(w)

IoScheduling(w) ==
    \/ IoTurns(w) \/ IoPicks(w)
    \/ mt_poll_fd_waiters_once(w) \/ ResumesTurn(w) \/ PollsIdle(w) \/ Polling(w)
    \/ mt_task_after_switch(w) /\ UNCHANGED ioVars
    \/ WorkerStarts(w) /\ UNCHANGED ioVars
    \/ ~polled[w] /\ WorkerStops(w) /\ UNCHANGED ioVars

-----------------------------------------------------------------------------
(* The calls                                                               *)

\* Mutated form: the reservation of a destroyed task stays in the list.
CancelKeepsReservation(w, t) ==
    /\ mt_task_cancel(w, t)
    /\ mt_fd_waiter_deactivate({t}, "CANCELLED")
    /\ call' = [call EXCEPT ![t] = IF state'[t] = "freed" THEN Idle ELSE @]
    /\ UNCHANGED <<kernelVars, generations, pollVars>>

\* mt_task_cancel: a descriptor wait returns CANCELLED, and a task that is
\* destroyed takes its reservation with it.
IoCancel(w, t) ==
    /\ mt_task_cancel(w, t)
    /\ IF state[t] = "waiting_fd" THEN mt_fd_waiter_deactivate({t}, "CANCELLED")
       ELSE /\ fd_waiters' = IF state[t] = "ready" THEN mt_fd_free_waiter(t) ELSE fd_waiters
            /\ UNCHANGED fd_waiting_count
    /\ call' = [call EXCEPT ![t] = IF state'[t] = "freed" THEN Idle ELSE @]
    /\ UNCHANGED <<kernelVars, generations, pollVars>>

\* Every descriptor operation of a task or a thread.
FdCall(w) ==
    \/ \E fd \in Fds :
          \/ \E op \in {"adopt", "read", "write", "accept"} : AdoptSetsFlag(w, op, fd)
          \/ mt_fd_release(w, fd) \/ mt_fd_close(w, fd)
          \/ \E f \in Files : TryAccepts(w, f, fd)
    \/ mt_fd_adopt(w) \/ ReleaseRestoresFlag(w)
    \/ TryFails(w) \/ TryTransfers(w) \/ AcceptDrops(w)
    \/ WaitReturnsAtOnce(w) \/ WaitReturns(w)
    \/ CloseFile(w) \/ CloseEnds(w)

\* A wait made by the program, for one direction or both, or by a loop.
FdWaiting(w) ==
    \E fd \in Fds, es \in (SUBSET Directions) \ {{}} :
        mt_fd_wait(w, fd, es) \/ ("nomem" \in Api /\ WaitFails(w, fd, es))

\* The other calls of the runtime, made by a task or thread in program code.
OtherCall(w) ==
    /\ InCode(w)
    /\ \/ \E t \in Tasks : "cancel" \in Api /\ IoCancel(w, t)
       \/ /\ \/ w \in Workers /\ Leaving(w)
             \/ Channelling(w)
             \/ w \in Workers /\ \E s \in SelectCalls : mt_select(w, s)
             \/ \E t \in Tasks :
                   \/ "go" \in Api /\ mt_go(w, t)
                   \/ "join" \in Api /\ mt_join(w, t)
                   \/ "release" \in Api /\ mt_task_handle_release(w, t)
          /\ UNCHANGED ioVars

\* mt_shutdown during a run also ends every descriptor wait.
IoShutdownStops ==
    /\ running /\ lock = Free
    /\ stopping' = TRUE /\ run_result' = "CANCELLED"
    /\ mt_fd_ready_waiter(Keep(fd_waiters, ActiveWaiters), "CANCELLED", mt_notify_all(pc))
    /\ UNCHANGED <<lock, current, running, countVars, ret, sel, chanVars, handleVars,
                   kernelVars, generations, pollVars, call>>

\* mt_shutdown after a run, with no thread inside a call.
IoTearsDown ==
    /\ lock = Free /\ call[Outside] = Idle
    /\ TearsDown /\ RuntimeReset
    /\ generations' = [fd \in Fds |-> NoEntry]
    /\ fd_waiters' = <<>> /\ fd_waiting_count' = 0
    /\ call' = [a \in Actors |-> Idle]
    /\ UNCHANGED <<kernelVars, pollVars>>

World ==
    \/ \E f \in Files, fd \in Fds : "open" \in Api /\ Open(f, fd)
    \/ \E f \in Files, es \in PeerEvents : "peer" \in Api /\ PeerActs(f, es)

IoNext ==
    \/ \E w \in Workers :
          \/ IoScheduling(w) \/ FdWaiting(w)
          \/ (CondWaitReturns(w) \/ SelectStep(w)) /\ UNCHANGED ioVars
    \/ \E w \in Callers : FdCall(w) \/ OtherCall(w)
    \/ RunReturns /\ UNCHANGED ioVars
    \/ "run" \in Api /\ mt_run_internal /\ UNCHANGED ioVars
    \/ "nothread" \in Api /\ StartFails /\ UNCHANGED ioVars
    \/ "shutdown" \in Api /\ (IoShutdownStops \/ IoTearsDown)
    \/ World

IoSpec == IoInit /\ [][IoNext]_allVars

\* A worker finds that the deadline of t has passed.  (That of a descriptor
\* wait may be as far away as the caller likes.)
Deadline(w, t) ==
    IoTurns(w) /\ state[t] # "waiting_fd" /\ t \in Range(timers) /\ t \notin Range(timers')

\* What the runtime relies on to make progress.  A worker that can take a step
\* takes it, and a poller gets the lock back; a task gives up its worker in the
\* end (scheduling is cooperative); a descriptor call that has begun goes on; a
\* timed wait ends; a deadline that a worker keeps looking at passes.  Nothing
\* is assumed of the peers.
IoFairness ==
    /\ \A w \in Workers :
          /\ WF_allVars(IoScheduling(w))
          /\ SF_allVars(Polling(w))
          /\ WF_allVars(pc[w] = "timed_wait" /\ CondWaitReturns(w) /\ UNCHANGED ioVars)
          /\ SF_allVars(InCode(w) /\ Leaving(w) /\ UNCHANGED ioVars)
          /\ SF_allVars(~InCode(w) /\ (FdCall(w) \/ FdWaiting(w)))
    /\ WF_allVars(RunReturns /\ UNCHANGED ioVars)
    /\ \A t \in Tasks : SF_allVars(\E w \in Workers : Deadline(w, t))

FairIoSpec == IoSpec /\ IoFairness

-----------------------------------------------------------------------------
(* Properties                                                              *)

Pollers == {w \in Workers : pc[w] \in {"polling", "polled"}}

\* The types of the descriptor layer; generation 0 means "no entry" and is never
\* that of a number which has one.
IoTypeOK ==
    /\ file \in [Fds -> Files \cup {NoFile}]
    /\ ready \in [Files -> SUBSET Directions] /\ nonblock \in [Files -> BOOLEAN]
    /\ \A fd \in Fds : generations[fd] = NoEntry \/ generations[fd].generation \in 1 .. MaxGeneration
    /\ fd_waiting_count \in Nat /\ io_polling \in BOOLEAN
    /\ polled \in [Workers -> BOOLEAN]
    /\ pc \in [Workers -> WorkerPcs \cup {"polling", "polled"}]
    /\ \A i \in DOMAIN fd_waiters :
          fd_waiters[i].rc \in {"OK", "TIMEOUT", "CANCELLED", "CLOSED", "INVALID"}

\* A descriptor has at most one reader and one writer, counting those that are
\* woken and have not run yet (mt_fd_waiter_conflicts, README: one read waiter
\* and one write waiter per fd).
OneWaiterPerDirection ==
    \A i, j \in DOMAIN fd_waiters :
        i # j /\ fd_waiters[i].fd = fd_waiters[j].fd
            => fd_waiters[i].events \cap fd_waiters[j].events = {}

\* The list of waiters agrees with the tasks: an active waiter is that of a
\* parked task with a timer, a reserved one that of a task on its way back
\* into mt_fd_wait; each such task has one, and fd_waiting_count, which keeps
\* the run alive, is the number of active ones.
WaitersExact ==
    /\ \A i, j \in DOMAIN fd_waiters : i # j => fd_waiters[i].task # fd_waiters[j].task
    /\ {x.task : x \in Range(fd_waiters)} = {t \in Tasks : call[t].at = "waiting"}
    /\ {x.task : x \in ActiveWaiters} = {t \in Tasks : state[t] = "waiting_fd"}
    /\ \A x \in ActiveWaiters : x.task \in Range(timers)
    /\ \A x \in Range(fd_waiters) \ ActiveWaiters : state[x.task] \in {"ready", "running"}
    /\ fd_waiting_count = Cardinality(ActiveWaiters)

\* Nobody is parked on a number whose file is closed or being closed, or is
\* another one than when the wait began: mt_fd_close wakes the waiters before
\* close(), and the closing mark keeps new ones out until after it.
WaitsForOpenFile ==
    \A x \in ActiveWaiters :
        /\ ~generations[x.fd].closing
        /\ x.of = file[x.fd]
        /\ x.generation \in {0, generations[x.fd].generation}

\* A read, write or accept is tried on a file with O_NONBLOCK set, so that it
\* cannot block the worker, also when the number has been closed, released or
\* taken by another file since it was adopted.
TriesDoNotBlock ==
    \A a \in Actors :
        call[a].at = "try" /\ file[call[a].fd] # NoFile => nonblock[file[call[a].fd]]

\* At most one worker polls, and io_polling says whether one does; while
\* descriptor waits are pending, a worker sleeps on the condition variable only
\* if another one polls, and will notify it.
SleepersHavePoller ==
    /\ Cardinality(Pollers) = IF io_polling THEN 1 ELSE 0
    /\ fd_waiting_count > 0 /\ Sleepers(pc) # {} => io_polling

\* A wait is decided once: readiness, timeout, close, cancellation and shutdown
\* may all come, and what the first one made of the wait is what it returns.
DecidedOnce ==
    [][\A i \in DOMAIN fd_waiters : ~IsActive(fd_waiters[i]) =>
          \/ fd_waiters[i] \in Range(fd_waiters')
          \/ fd_waiters[i].task \notin {x.task : x \in Range(fd_waiters')}]_allVars

\* A wait ends as ready only because the file it waits for was seen to be ready
\* (or to have hung up), not an earlier file with the same number
\* (mt_fd_find_waiter, the comparison of generations after the poll).
ReadyMeansOwnFile ==
    [][\A x \in ActiveWaiters : [x EXCEPT !.state = "reserved"] \in Range(fd_waiters') =>
          \E w \in Workers : \E e \in events[w] :
              e.fd = x.fd /\ e.of = x.of /\ e.events \cap x.events # {}]_allVars

-----------------------------------------------------------------------------
(* Liveness                                                                *)

\* A READY task is dispatched (or cancelled) while the run lasts: the FIFO
\* queue and the wakeups of mt_notify_one starve no task.
ReadyRuns == \A t \in Tasks : state[t] = "ready" /\ running ~> state[t] # "ready" \/ ~running

\* A sleep ends: mt_timer_push wakes the idle workers, and one of them waits
\* for the deadline and fires the timer, unless the run stops.
SleepEnds == \A t \in Tasks : state[t] = "sleeping" ~> state[t] # "sleeping" \/ stopping \/ ~running

\* The wait of task t could return now, and the run goes on.
ReadyWait(t) ==
    /\ running /\ ~stopping
    /\ \E x \in ActiveWaiters :
          x.task = t /\ file[x.fd] # NoFile /\ ready[file[x.fd]] \cap x.events # {}

\* A task is not left waiting on a descriptor that stays ready, although its
\* deadline may never come: whoever polls hands the poll on, also when it
\* becomes busy or goes to sleep itself (mt_poll_fd_waiters_with_timeout).
ReadyWaitEnds == \A t \in Tasks : ReadyWait(t) ~> ~ReadyWait(t)

\* Once the run is to stop (the last task has ended, a deadlock is found,
\* mt_shutdown is called) every worker leaves, also one that polls or waits for
\* the poller, and mt_run returns; provided that a task that is run again and
\* again returns in the end, because a stop lets READY tasks run on.
StopReturns ==
    (\A w \in Workers : SF_allVars(InCode(w) /\ mt_task_entry(w) /\ UNCHANGED ioVars))
        => (stopping ~> ~running)
=============================================================================
