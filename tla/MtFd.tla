-------------------------------- MODULE MtFd --------------------------------
(***************************************************************************)
(* Descriptor waits inside the runtime: the list g_rt.fd_waiters, the      *)
(* metadata kept per descriptor number (mt_fd_generation_t), the ways a    *)
(* wait ends, and the worker that polls for all the others.                *)
(*                                                                         *)
(* The kernel is external: an open file stands behind a descriptor number, *)
(* it is ready for "r" and "w" or not, and its number may be used again    *)
(* once it is closed.  A hang-up or an error is readiness for both.  A     *)
(* poll always has a finite timeout, so that the wake pipe only makes it   *)
(* return sooner: the model lets it return at any time.                    *)
(***************************************************************************)
EXTENDS MtScheduler

CONSTANTS
    Fds,            \* descriptor numbers
    Files,          \* open files, each opened once
    NoFile,         \* nothing is open under a number
    Backend,        \* g_rt.io_backend_kind, "epoll" or "poll"
    MaxGeneration   \* the generation after which the counter wraps to 1

ASSUME FdAssumption ==
    /\ IsFiniteSet(Fds) /\ IsFiniteSet(Files) /\ NoFile \notin Files
    /\ Backend \in {"epoll", "poll"}
    /\ MaxGeneration \in Nat /\ MaxGeneration > 1

VARIABLES
    file,               \* the open file behind each number
    ready,              \* what each file is ready for
    nonblock,           \* whether O_NONBLOCK is set for each file
    generations,        \* g_rt.fd_generations, by number
    fd_waiters,         \* g_rt.fd_waiters, from its head
    fd_waiting_count, io_polling,
    polled,             \* whether mt_poll_fd_waiters_once of this turn is behind a worker
    interest,           \* the pollfd array of a worker in poll(), in no order
    events,             \* the events a worker has got and not yet handled
    call                \* the descriptor call a task or the outside thread is in

kernelVars == <<file, ready, nonblock>>
waitVars   == <<fd_waiters, fd_waiting_count>>
pollVars   == <<io_polling, polled, interest, events>>
ioVars == <<kernelVars, generations, waitVars, pollVars, call>>

-----------------------------------------------------------------------------
(* The metadata of a number                                                *)

Entry(g) == [generation |-> g, closing |-> FALSE, adopted |-> FALSE, original_flags |-> FALSE]
NoEntry == Entry(0)

\* What the entry of fd is after a look at its generation: created with
\* generation 1 if there is none, or still none if memory is short.
mt_fd_generation_current(fd) ==
    IF generations[fd] # NoEntry THEN {generations[fd]}
    ELSE {Entry(1)} \cup (IF "nomem" \in Api THEN {NoEntry} ELSE {})

mt_fd_is_closing(fd) == generations[fd].closing

\* Mutated form: the counter wraps to 0.
BumpToZero(g) == (g + 1) % (MaxGeneration + 1)

\* The generation after g; 0 is skipped when the counter wraps.
mt_fd_generation_bump(g) == IF g = MaxGeneration THEN 1 ELSE g + 1

-----------------------------------------------------------------------------
(* The waiters                                                             *)

\* A waiter; `of' is the file it waits for, rc what the wait will return.
FdWaiter(t, fd, es, g) ==
    [task |-> t, fd |-> fd, events |-> es, generation |-> g,
     state |-> "active", rc |-> "OK", of |-> file[fd]]

IsActive(x) == x.state = "active"
ActiveWaiters == {x \in Range(fd_waiters) : IsActive(x)}

\* Mutated form: a waiter that is ready and not yet resumed reserves nothing.
ActiveConflicts(fd, es) == \E x \in ActiveWaiters : x.fd = fd /\ x.events \cap es # {}

\* A waiter of fd, active or reserved, has an event of es.
mt_fd_waiter_conflicts(fd, es) ==
    \E x \in Range(fd_waiters) : x.fd = fd /\ x.events \cap es # {}

\* What the backend is to watch fd for.
mt_fd_active_events_for_fd(fd) == UNION {x.events : x \in {x \in ActiveWaiters : x.fd = fd}}

\* Waiter x is registered, at the head of the list.
mt_fd_waiter_add(x) ==
    /\ fd_waiters' = <<x>> \o fd_waiters
    /\ fd_waiting_count' = fd_waiting_count + 1

\* Mutated form: every waiter of the number gets the result.
ReserveNumber(T, rc) ==
    [i \in DOMAIN fd_waiters |->
        IF \E x \in ActiveWaiters : x.task \in T /\ x.fd = fd_waiters[i].fd
        THEN [fd_waiters[i] EXCEPT !.state = "reserved", !.rc = rc]
        ELSE fd_waiters[i]]

\* The waiters of the tasks of T, made ready with rc and kept as reservations.
Reserve(T, rc) ==
    [i \in DOMAIN fd_waiters |->
        IF fd_waiters[i].task \in T /\ IsActive(fd_waiters[i])
        THEN [fd_waiters[i] EXCEPT !.state = "reserved", !.rc = rc]
        ELSE fd_waiters[i]]

\* mt_fd_waiter_deactivate, with the reservation kept, for the tasks of T.
mt_fd_waiter_deactivate(T, rc) ==
    /\ fd_waiters' = Reserve(T, rc)
    /\ fd_waiting_count' = Drop(fd_waiting_count, Cardinality({x \in ActiveWaiters : x.task \in T}))

\* Mutated form: the timer of the wait stays in the heap.
ReadyKeepsTimer(xs, rc, p) ==
    LET ws == [i \in DOMAIN xs |-> xs[i].task] IN
    /\ mt_fd_waiter_deactivate(Range(ws), rc)
    /\ UNCHANGED timers
    /\ mt_task_mark_ready(state, runq, p, ws)

\* mt_fd_ready_waiter for each of the active waiters of xs, in order; p are the
\* worker pcs after its notifications.
mt_fd_ready_waiter(xs, rc, p) ==
    LET ws == [i \in DOMAIN xs |-> xs[i].task] IN
    /\ mt_fd_waiter_deactivate(Range(ws), rc)
    /\ timers' = Keep(timers, Tasks \ Range(ws))
    /\ mt_task_mark_ready(state, runq, p, ws)

\* The waiter of t is unlinked and freed.
mt_fd_free_waiter(t) == Keep(fd_waiters, {x \in Range(fd_waiters) : x.task # t})

-----------------------------------------------------------------------------
(* The poll                                                                *)

\* What a worker watches: poll() has one entry per waiter, as of its call,
\* epoll one registration per number, as of now.
Watches(w) ==
    IF Backend = "poll" THEN interest[w]
    ELSE {d \in {[fd |-> fd, watched |-> mt_fd_active_events_for_fd(fd)] : fd \in Fds} : d.watched # {}}

\* The kernel's answer for entry d: the events that are ready, both if the file
\* has hung up, or that the number is not open, which only poll() reports.  `of'
\* is the file that was looked at, which the code does not know.
Answer(d, hup) ==
    LET f == file[d.fd] IN
    [fd |-> d.fd, watched |-> d.watched, of |-> f,
     events |-> IF f \in hup THEN {"r", "w"}
                ELSE IF f # NoFile THEN ready[f] \cap d.watched
                ELSE IF Backend = "poll" THEN {"nval"} ELSE {}]

\* Mutated form: a waiter that has its result is found again.
FindsReserved(e) ==
    Keep(fd_waiters, {x \in Range(fd_waiters) :
                        x.fd = e.fd /\ (x.events \cap e.events # {} \/ "nval" \in e.events)})

\* The active waiters of the number of event e that have an event in common
\* with it; a number that is not open concerns them all.
mt_fd_find_waiter(e) ==
    Keep(fd_waiters, {x \in ActiveWaiters :
                        x.fd = e.fd /\ (x.events \cap e.events # {} \/ "nval" \in e.events)})

\* A worker gives up the lock and enters epoll_wait or poll.
StartPoll(w) ==
    /\ ~io_polling
    /\ io_polling' = TRUE
    /\ interest' = [interest EXCEPT ![w] =
                       {[fd |-> x.fd, watched |-> x.events] : x \in IF Backend = "poll" THEN ActiveWaiters ELSE {}}]
    /\ pc' = [pc EXCEPT ![w] = "polling"] /\ lock' = Free
    /\ UNCHANGED events

\* epoll_wait or poll returns what is ready now, after its timeout perhaps
\* nothing; or the pollfd array cannot be allocated.
PollReturns(w) ==
    /\ pc[w] = "polling"
    /\ \/ \E hup \in SUBSET {f \in Files : ready[f] = {"r", "w"}} :
             events' = [events EXCEPT ![w] = {e \in {Answer(d, hup) : d \in Watches(w)} : e.events # {}}]
       \/ Backend = "poll" /\ "nomem" \in Api /\ UNCHANGED events
    /\ interest' = [interest EXCEPT ![w] = {}]
    /\ pc' = [pc EXCEPT ![w] = "polled"]
    /\ UNCHANGED <<lock, current, runVars, countVars, taskVars, chanVars, handleVars,
                   kernelVars, generations, waitVars, io_polling, polled, call>>

\* The search goes on when a waiter has been found: epoll has one event per
\* number, poll() one per waiter, and one is enough unless the number is not open.
LooksAgain(e) == Backend = "epoll" \/ "nval" \in e.events

\* The worker has the lock again and looks for a waiter for one of its events.
\* The first one found is woken, and the next one looked for if LooksAgain, for
\* what is left of the event.  A stale waiter is told CLOSED and ends the search.
HandleEvent(w) ==
    /\ pc[w] = "polled" /\ lock \in {Free, w}
    /\ \E e \in events[w] :
          \/ /\ mt_fd_find_waiter(e) = <<>>
             /\ events' = [events EXCEPT ![w] = @ \ {e}]
             /\ UNCHANGED <<state, runq, timers, pc, waitVars, generations>>
          \/ /\ mt_fd_find_waiter(e) # <<>>
             /\ \E g \in mt_fd_generation_current(e.fd) :
                   LET x == Head(mt_fd_find_waiter(e))
                       stale == x.generation # g.generation
                       left == IF ~stale /\ LooksAgain(e) THEN e.events \ x.events ELSE {}
                       rc == IF stale THEN "CLOSED"
                             ELSE IF "nval" \in e.events THEN "INVALID" ELSE "OK"
                   IN  /\ events' = [events EXCEPT ![w] =
                             (@ \ {e}) \cup {d \in {[e EXCEPT !.events = left]} : d.events # {}}]
                       /\ mt_fd_ready_waiter(<<x>>, rc, mt_notify_all(pc))
                       /\ generations' = [generations EXCEPT ![e.fd] = g]
    /\ lock' = w
    /\ UNCHANGED <<current, runVars, countVars, ret, sel, chanVars, handleVars,
                   kernelVars, io_polling, polled, interest, call>>

\* Mutated form: the other workers are not told that nobody polls any more.
PollEndsSilently(w) ==
    /\ pc[w] = "polled" /\ lock \in {Free, w} /\ events[w] = {}
    /\ io_polling' = FALSE
    /\ pc' = [pc EXCEPT ![w] = IF polled[w] THEN "loop" ELSE "pick"]
    /\ polled' = [polled EXCEPT ![w] = ~@]
    /\ lock' = w
    /\ UNCHANGED <<current, runVars, countVars, taskVars, chanVars, handleVars,
                   kernelVars, generations, waitVars, interest, events, call>>

\* The poll is over: to the run queue after mt_poll_fd_waiters_once, to the
\* top of the loop when the worker was idle.
PollEnds(w) ==
    /\ pc[w] = "polled" /\ lock \in {Free, w} /\ events[w] = {}
    /\ io_polling' = FALSE
    /\ pc' = [mt_notify_all(pc) EXCEPT ![w] = IF polled[w] THEN "loop" ELSE "pick"]
    /\ polled' = [polled EXCEPT ![w] = ~@]
    /\ lock' = w
    /\ UNCHANGED <<current, runVars, countVars, taskVars, chanVars, handleVars,
                   kernelVars, generations, waitVars, interest, events, call>>
=============================================================================
