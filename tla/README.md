# A TLA+ model of the MicroThread runtime

MicroThread is a C library of stackful cooperative tasks.  Tasks share one FIFO
run queue, one or several OS threads ("workers") take tasks from it, tasks talk
through channels, select, join and cancellation, and they wait for descriptors
without blocking their worker.  Everything the library
keeps is guarded by one mutex, `g_rt.lock`.  What is hard about it is not any
single operation but what happens between two of them: a task that parks while
another worker looks for it, a select registered with several channels and a
timer at once, a cancelled task that is still in three lists, the last idle
worker that has to decide whether the run is over, stuck or only waiting, a
descriptor that is closed and opened again while somebody polls it.
That is what this project models, checks with TLC and proves with TLAPS.

## Parts of the system

| part | source (`src/src/`) | here |
|---|---|---|
| worker loop, start and end of a run | `scheduler.c` | `MtScheduler`, `Microthread`, `MicrothreadIo` |
| task states | `task_state.c`, `task.c` | `MtRuntime`, `MtTask` |
| handles, join, cancel | `task.c`, `join.c` | `MtTask` |
| channels | `channel.c`, `wait_queue.c` | `MtChannel`; the ring buffer `MtRing` |
| select | `channel.c`, `select_wait.c` | `MtSelect` |
| run queue and wait queues | `run_queue.c`, `wait_queue.c` | sequences in `MtRuntime`; the lists `MtLists` |
| timers | `timer.c` | a sequence in `MtRuntime`; the heap `MtTimers`, deadlines `MtTime` |
| descriptor calls | `io.c` | `MtIo` |
| readiness backends | `io_backend.c`, `io_backend_poll.c`, `io_backend_epoll.c` | `MtFd` |
| init, shutdown | `runtime_lifecycle.c` | `MtScheduler`, `MicrothreadIo` |
| lock, condition variable, registries | `runtime.c` | `MtRuntime` |
| context switch | `context_*.c` | transfer of control in `MtRuntime` |
| stacks | `stack.c` | sizes in `MtStack` |
| status names, test hooks, examples | `status.c`, `testing_hooks.c`, `examples/` | no state to model |

How they interact: a running task calls the API.  The call takes the lock and
either completes, waking other tasks (`mt_task_mark_ready` appends each to the
run queue and signals one worker), or registers the task somewhere (wait queue,
timer heap, join queue), changes its state and switches to the scheduler
context of its worker *with the lock held*.  The worker then runs
`mt_task_after_switch`, goes to the top of its loop, fires expired timers and
picks the next task, all in the same hold of the lock.  While tasks wait for
descriptors, the worker polls before it picks, and when there is nothing to
pick: it sets `io_polling`, gives up the lock for `poll()` or `epoll_wait()`,
takes it again and wakes the waiters that the events concern.  A worker that
finds `io_polling` set waits on the condition variable instead.

## Modules

The specification is one chain of modules, each adding the operations of one
part to the state declared in `MtRuntime`:

    MtQueues -> MtRuntime -> MtChannel -> MtSelect -> MtTask -> MtScheduler -> Microthread

and a second layer on top of it, the descriptors:

    MtScheduler -> MtFd -> MtIo,    Microthread + MtIo -> MicrothreadIo

* `MtQueues`: insertion into and removal from lists, kept as sequences.  (It takes
  `Range` and `IsInjective` from `Functions` and does without `SequencesExt`:
  tlapm is three to four times faster on modules that do not reach it.)
* `MtRuntime`: constants, variables, and the helpers that every operation uses.
* `MtChannel`, `MtSelect`, `MtTask`, `MtScheduler`: one action per operation of
  the API or step of a worker, named as in the source.
* `Microthread`: `Init`, `Next` and the properties of the runtime without
  descriptors.
* `MtFd`: the waiter list, generations, the poll and its events.  `MtIo`: the
  descriptor calls.  `MicrothreadIo`: the composition.  It uses the actions of
  `Microthread` as they are and adds what they do to descriptor waits; it also
  has the fairness and the liveness properties of the whole.
* `MtRing`, `MtLists`, `MtTimers`: the stores behind the sequences `buf`, `runq`,
  `waitq` and `timers`, as they are in memory.  `MtFifo` and `MtSchedule` say
  abstractly what the rest of the model takes them to be, and each store
  instantiates its abstraction under a refinement mapping.
* `MtTime`, `MtStack`: arithmetic of deadlines and of stack sizes, on machine words.
* `MCMicrothread`, `MCIo`, `MCStores` and the `.cfg` files: the instances TLC checks.
* `MtQueueProofs`, `MtWakeProofs`, `MtTypeProofs`, `MtFdProofs`, `MtRingProofs`,
  `MtTimeProofs`, `MtStackProofs`: lemmas and theorems.

An operator called "mutated form" stands before the definition it distorts.  It
is used by no specification; put in place of that definition it breaks the
property named with it in `PROJECT.json`, which shows that the property depends
on that line of the code.

### State

| variable | code |
|---|---|
| `lock` | the worker inside a critical section of several steps, else `Free` |
| `pc[w]` | `starting`, `loop` (top of `mt_worker_loop`), `pick` (after the timers, lock held), `task` (program code), `switched` (task has switched back, lock held), `cond_wait`, `timed_wait`, `exited`; with descriptors also `polling` (in `poll()`, without the lock) and `polled` |
| `current[w]` | `g_tls_current` |
| `running`, `stopping`, `run_result` | the fields of `g_rt` |
| `live_count`, `running_tasks`, `channel_waiting_count`, `join_waiting_count` | the counters the loop tests |
| `state[t]` | `task->state`, with `unborn` and `freed` around its life |
| `ret[t]` | `chan_result`, `select_result`/`select_index`, `join_result` of a woken task and the value it received |
| `sel[t]` | the arguments and position of the `mt_select` scan the task is in |
| `runq`, `timers` | the run queue; the heap, in the order of `mt_timer_less` |
| `buf`, `closed`, `destroyed`, `waitq[c][k]` | a channel: buffer, flags, its four wait queues |
| `cancel_requested`, `released`, `outcome`, `handle_freed`, `join_q` | a handle, named by its task |
| `file[fd]`, `ready[f]`, `nonblock[f]` | the kernel: the open file behind a number, what it is ready for, its `O_NONBLOCK` |
| `generations[fd]` | `mt_fd_generation_t`: generation, closing, adopted, original flags |
| `fd_waiters`, `fd_waiting_count`, `io_polling` | the fields of `g_rt`; a waiter is active or, woken and not yet run, reserved |
| `polled[w]` | whether the poll of this turn of the loop is behind the worker |
| `interest[w]`, `events[w]` | the pollfd array of a worker in `poll()`; the events it has got and not handled, each with the file it was seen on (which the code does not know and only `ReadyMeansOwnFile` reads) |
| `call[a]` | the descriptor call a task or the outside thread is in, and where |

### Steps and atomicity

A critical section that does not switch contexts is one step, enabled when
`lock = Free`: nothing another thread does can be seen or changed in between.
A blocking call ends its step with the lock held (`mt_ctx_switch`), and
`mt_task_after_switch`, the top of the loop and the pick are further steps in
the same hold, so that the invariants are also checked between them.
`mt_select` is the one operation with several critical sections: entering, one
per tried case, and parking are separate steps.  Among the descriptor calls,
every system call made without the lock (`fcntl`, `read`, `write`, `accept`,
`close`, `poll`) is a step of its own, so that other threads act before and
after it; a poller handles its events one step at a time with the lock held.

The program is arbitrary.  Between two calls a running task may make any call
of `Api`; `Outside` is a thread that is not a worker and may make the calls
that do not park.  A call that only returns an error changes nothing and has no
action.  The model assumes two things of the program, both about memory it has
given up: it does not use a handle it has released, and it uses no channel it
has destroyed, nor destroys one that a `mt_select` being scanned names.  Of
descriptors it assumes that a program closes only what is open, and knows the
number of an accepted connection only once `mt_net_accept` has returned it.

Abstractions.  Time is the order of deadlines: a timer is inserted anywhere in
that order, and a worker that looks finds any number of the first timers
expired.  `pthread_cond_wait` may return spuriously.  Values are model values;
how much is read or written is not modelled, only whether a write is complete.
The kernel is external: files are opened under free numbers, and the peers make
them ready, not ready or hung up at any time.  A poll has a finite timeout and
may return at any time, so that the wake pipe, which makes it return sooner, adds
nothing.  `mt_init` after a full shutdown is merged with the next call.

## What TLC checks

| run | instance | distinct states | properties |
|---|---|---|---|
| `channels` | 2 workers, 3 tasks, an unbuffered and a one-slot channel, 2 values; send, recv, try, close, destroy, three selects (two cases, two cases with a timeout, one with a default), failing allocations | 583,288 | `NoDanglingWaiter BlockedHasReason CountsExact WorkConserving NoSilentStall SoundDeadlock SelectIsServed PendingFifo OkMeansDone` |
| `cancel` | 2 workers, 3 tasks, two of which can be cancelled and joined, an outside thread, one-slot channel, 2 values; send, recv, a receiving select, cancel, sleep, join | 511,448 | `TypeOK RunqExact NoDanglingWaiter ParkedIsRegistered WorkConserving PendingFifo` |
| `lifecycle` | 3 workers, 3 tasks with handles, an outside thread, one-slot channel; go, join, release, recv, yield, sleep, shutdown, runs whose thread array, threads or contexts cannot be had, runs started again | 249,699 | `TaskOnOneWorker RunqExact NoDanglingWaiter CountsExact WorkConserving SoundDeadlock` |
| `io` | 2 workers, 2 tasks, 1 number, 1 file, `poll`; waits for either or both directions, close and reopening, readiness and hang-up, timeout, cancel, a select that returns at once, new runs, failing starts and allocations | 549,316 | `IoTypeOK OneWaiterPerDirection WaitersExact WaitsForOpenFile SleepersHavePoller RunqExact NoDanglingWaiter DecidedOnce` |
| `io_loops` | 2 workers, 2 tasks, 2 numbers, 2 files, `epoll`; an accept loop, write loops, close, release, shutdown | 635,421 | `WaitersExact TriesDoNotBlock` |
| `progress` | 2 workers, 2 tasks, 1 number, 1 file, `poll`; wait, yield, sleep, shutdown; `FairIoSpec` | 9,462 | `ReadyRuns SleepEnds ReadyWaitEnds StopReturns` |
| `stores` | a ring of 3 slots and 2 values, a list of 4 tasks, a heap of up to 7 timers on words 0..7 | 232,672 | `ListExact RingIsFifo ListIsFifo HeapIsSchedule` |

What each shows.  `channels`: with blocking and nonblocking peers, selects, close
and destroy mixed, no value overtakes another, whatever wakes a select removes
all its other registrations and reports the case it completed, no wakeup of a
parked task is lost, and `MT_ERR_STATE` is returned when and only when the run is
stuck.  A select whose allocations fail after some
of its waiters are registered leaves none of them behind.  `cancel`: cancelling
removes exactly the registrations of its victim, and the values of the other
senders keep their order.  `lifecycle`: no stack is run by two workers, also when
one thread cannot be created while others already run tasks, and nothing is left
behind from one run to the next.  `io`: however readiness, timeout, close and
cancellation race, a wait is decided once, its number is not taken by another waiter
before the task has run, and nobody waits on a file that is gone (that it is woken
only by events of its own file is not so: see `stale_ready` below).  `io_loops`: a
system call that the loops make never blocks the worker, and a shutdown that ends
their waits leaves no waiter behind.  `progress`: with one
poller for all, ready tasks run, sleeps end, a descriptor that stays ready wakes
its task, and a run that is to stop returns.  `stores`: the ring buffer, the
linked lists and the heap implement the queues and the schedule used everywhere
else, deadlines near the end of the word included.

TLC's deadlock check is on in the runs of the runtime, but says little: a worker
that waits may always wake spuriously, and a run that has returned may be started
again.  A run that hangs is what `NoSilentStall`, `WorkConserving`,
`SleepersHavePoller` and the liveness properties are about.  It is off in `stores`,
where the bounds on timers and time stop the heap.

The bounds.  Two workers are enough for a race between two holders of the lock
and for a worker that sleeps while another one works or polls.  A thread that
cannot be created leaves its own place and that of the caller of `mt_run` empty,
so `lifecycle` has three, of which one may already be in the loop.  Three tasks give
a waker, a woken task and a bystander, so that a removal can hit the wrong
element; with descriptors two tasks are a reader and a writer, or a waiter and
the one that closes, and the kernel and the peers act as well.  With capacities 0
and 1 a channel can be empty or full and have senders blocked behind it; a
buffer that is partly filled occurs in `stores`.  One number and one file, opened
again after each close, give reuse of a number; the two of `io_loops` give an
accepted connection under the number of a closed one.  In `io` the peers make a
file ready for any set of directions (`PeerEvents`), in `io_loops` for all or
nothing, which is enough where each file is used in one direction.
`MaxGeneration` is 2, so
that the counter wraps within a run.  `MaxSeq` 7 allows heaps of three full
levels, and with `WordMax` 7 and 2 ns to the ms a timeout of 4 ms saturates;
`MaxNow` stops the clock.  Each task is created at most once, which makes the
state spaces finite without a bound on the number of steps.

Symmetry.  `channels`, `cancel` and `lifecycle` permute the workers, `cancel` also
the values (its one select only receives), `io`, `io_loops` and `stale_ready` the
workers and the files: neither the boot sequence nor any property tells them
apart.  The tasks are not permuted (`Boot` orders them), and `progress`, with its
liveness properties, declares none.

Fairness (`IoFairness` in `MicrothreadIo`).  Weak fairness of each worker's own
steps: an OS thread that can run does.  Strong fairness of a poller's return: it
needs the lock back, which others take and release all the time, and a mutex
lets it through in the end.  Weak fairness of the return of a timed wait.
Strong fairness of giving up the worker (`Leaving`): tasks are cooperative, and a
task that never calls the library starves the run by design.  It is strong
because another holder of the lock disables the call for a moment.  Strong
fairness of the next step of a descriptor call that has begun, for the same
reason.  Strong fairness of a deadline passing, per task, because a worker looks
at the clock only now and then; not for descriptor waits, whose timeout may be as
long as the caller likes, so that `ReadyWaitEnds` is not rescued by it.  Weak
fairness of the return of `mt_run_internal` once all workers have left.  No
fairness for the return of an untimed wait (a spurious wakeup must not rescue
anyone), for the peers, for new calls, or for starting another run.
`StopReturns` has one more premise, stated in the property: a task that is
dispatched again and again returns in the end, without which a shutdown with a
task that yields for ever does not return.

### Where the code and its documentation disagree

Five runs check one property each that the repository's README or a test plan
states, and TLC finds it violated; `PROJECT.json` quotes the lines.

* `cancel_chan`: cancelling a task parked on a channel decrements the waiting
  count twice, and a later deadlock is not recognised; the run hangs instead of
  returning `MT_ERR_STATE`.  A cancelled joiner is counted down twice in the same
  way (`join.c:53`): `NoSilentStall` also fails with four tasks and only join and
  cancel, an instance not kept among the runs.
* `select_two_workers`: a send by another worker between the scan of
  `mt_select` and its parking is not noticed; the select sleeps with its value
  in the buffer.
* `cancel_ready`: cancelling a task whose blocking call has just completed
  destroys it, although cancellation is described as cooperative.
* `stale_ready`: a worker has polled, without the lock; before it handles the
  result, the number is closed with `mt_fd_close`, opened again and waited for
  again.  `mt_fd_find_waiter` compares the generation of the waiter it finds with
  the current one of the number, not the one that was polled, and the new wait
  returns ready for what was seen on the old file.
* `late_go`: a task created by another thread at the end of a run is accepted
  and not run, and `mt_run` returns `MT_OK`.

The passing runs use programs in which these do not interfere with the
question asked: `CountsExact` and `NoSilentStall` are checked without
cancellation, `OkMeansDone` without outside threads and shutdown, and
`SelectParkedNotReady` and `ReadyMeansOwnFile` only where they fail.

Three more observations, on which no run is kept.  `mt_shutdown` during a run
wakes descriptor waits but no channel, select, sleep or join waiter, although
`tests/v0_7_test_plan.md:333` lists them all (`runtime_lifecycle.c:86-92`).  A connection
accepted under a number that another thread is just closing (between `close()` and
the second critical section of `mt_fd_close`) is refused by `mt_fd_adopt` and
dropped by `mt_net_accept`.  And `adopted` and
`original_flags` stay with a number that is closed, so that a later
`mt_fd_release` gives the next file under it the flags of the former one.
`TriesDoNotBlock` holds nevertheless, because every loop sets `O_NONBLOCK` again
before its first try; with two tasks that release and use the same number at the
same time it would not.

## What TLAPS proves

**Type correctness.**  `THEOREM TypeCorrect == Spec => []TypeOK` (`MtTypeProofs`),
for every finite set of workers and tasks, every set of channels and values, all
capacities, all boot sequences without repetition and all sets of valid select
calls (`RuntimeAssumption`, `SelectAssumption`).  It says that no counter falls
below zero (which its guards ensure), that only tasks get into the run queue, the
heap and the join queues, and that whatever takes a value from a parked sender
finds one.  It does not say that the counters are exact; `CountsExact` does.

`TypeOK` is not inductive: `mt_task_after_switch` pushes `current[w]`, which
might be `NoTask` as far as types go.  The invariant is

    TypeInv == TypeOK /\ BusyHasTask

where `BusyHasTask` says that a worker inside a task or its switch has one; and
`TypeOK` itself has to say that a select in progress is one of the program's
calls, with a position of at least 1.

The argument has three layers.  `MtQueueProofs` proves what `Keep`, `Without`,
`Inserted`, concatenation, `Head` and `Tail` do to the type, the range and the
injectivity of a queue; what `Keep` computes is shown by a least-counterexample
argument on the recursive function inside it.  `MtWakeProofs` shows that each
helper that wakes tasks keeps the types of all it changes (`WakeType`) and moves
workers only from a wait to the top of the loop (`Roused`).  `MtTypeProofs` has
one lemma per action and puts them together in `NextType`.

**Descriptor waits.**  `MtFdProofs`, for every number of workers, tasks,
descriptors and files, both backends and every program, about the composed
specification `IoSpec`:

* `OneReaderOneWriter == IoSpec => []OneWaiterPerDirection`;
* `DecidedOnceHolds == IoSpec => DecidedOnce`.

The invariant is

    FdInv == ListOk /\ OneWaiterPerDirection

where `ListOk` says that the waiter list is a sequence of waiters.  The key lemma
`NextWaiters` sorts all steps of the runtime into five kinds as far as the list
is concerned (`WaiterStep`): it stays, some active waiters become reserved and
keep their events, the waiter of one task leaves, one waiter that conflicts with
nobody is put in front, or the list is dropped with the runtime.  `ReserveKeeps`, `FewerKeeps`
and `PrependKeeps` show that each kind keeps the invariant, and none of them
changes a waiter that is reserved.

**Stores and arithmetic.**

* `RingImplementsFifo` (`MtRingProofs`): the ring buffer implements `MtFifo` for
  every capacity.  Its invariant relates the three indices: `tail` is
  `(head + len) % Slots`, which is what makes a full ring and an empty one
  different although their indices agree.
* `DeadlineExact`, `TimeoutLeft` (`MtTimeProofs`): for every word size a deadline
  is the sum asked for or the last word, and the time left is rounded up by less
  than a millisecond, once the clock has run for one millisecond.
* `StackHoldsRequest` (`MtStackProofs`): a stack holds what was asked for, in whole
  pages, with its guard page, for every size not within two pages of `SIZE_MAX`.

Only model-checked, on the instances above: all other invariants and action
properties.  The liveness properties stay with TLC because the prover does not
reason about fairness and `ENABLED`; `ListIsFifo`, `ListExact` and
`HeapIsSchedule` because the walk along a list and the sifting in a heap are
recursive operators, about which it can do no induction.

## What is not modelled

* `kqueue`: it differs from `epoll` in the calls made, and is compiled on other
  systems.  The creation of the wake pipe and of the epoll instance, and an
  `epoll_wait` that fails.
* `mt_net_listen_tcp`: a sequence of system calls that ends with `mt_fd_adopt`.
  Retries after `EINTR`, failing `fcntl` and `close`.
* `mmap` and `mprotect`; the save and restore of registers; Windows fibers; the
  build without OS threads.
* Failing allocations that return before any shared state is changed.  (Those of
  `mt_select`, `mt_fd_wait`, the generations and the pollfd array are modelled.
  `mt_sleep_ms` without memory blocks its OS thread, which is a running task that
  takes long.)  The failure paths of `mt_init_with_options`.
* Creation of a channel: all channels exist from the start.
* `mt_test_run_until_blocked` and the other test hooks; the tables of `status.c`;
  calls that only read (`mt_task_status`, `mt_task_cancelled`, `mt_chan_len`, ...).
* Channels and descriptors in one instance: `MicrothreadIo` composes them, but the
  runs with descriptors have no channels, to keep them small.  (The one select of
  `io` has no channel case.)
* The caller of `mt_run` is not told apart from the other workers: it too may fail
  to set up its context, which in the code it did in `mt_init`, and any two of the
  starting workers may be the pair that does not run.  Both only add behaviours.
* How long a wait lasts.  A timed wait may end at any time, so that a wait for the
  wrong, later deadline is not seen; that every wait for a deadline has one is
  (`SleepEnds`).
