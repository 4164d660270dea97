-------------------------------- MODULE MtIo --------------------------------
(***************************************************************************)
(* The descriptor calls: mt_fd_adopt, mt_fd_release, mt_fd_wait,           *)
(* mt_fd_close, and the loops of mt_fd_read, mt_fd_write and               *)
(* mt_net_accept.  A system call made without the lock is a step of its    *)
(* own, so that other threads may act before and after it.  A call that    *)
(* fails before it has changed anything leaves no trace and is left out.   *)
(***************************************************************************)
EXTENDS MtFd

CONSTANTS
    Directions,   \* what is waited for, "r" and "w"
    PeerEvents,   \* what the peers make a file ready for, sets of directions
    FdApi         \* the descriptor calls (which, on which number) each task, and the
                  \* outside thread, makes

Actors == Tasks \cup {Outside}
FdOps == {"adopt", "release", "wait", "read", "write", "accept", "close"}

ASSUME IoAssumption ==
    /\ Directions \subseteq {"r", "w"} /\ PeerEvents \subseteq SUBSET Directions
    /\ FdApi \in [Actors -> SUBSET (FdOps \X Fds)]

\* A call in progress: what it is, on which number, where it is, and the
\* O_NONBLOCK flag it has read.
Call(op, fd, at, flag) == [op |-> op, fd |-> fd, at |-> at, flag |-> flag]
Idle == [op |-> "none", at |-> "none"]

\* The task or the thread that w runs, while it is in program code.
Actor(w) == IF w \in Workers THEN current[w] ELSE w
InTask(w) == w \in Workers => pc[w] = "task" /\ sel[current[w]] = NoSelect
InCode(w) == InTask(w) /\ call[Actor(w)] = Idle

\* w calls op on fd.  A program does not use the number of a connection that
\* the mt_net_accept which accepted it has not returned yet.
Calling(w, op, fd) ==
    /\ InCode(w) /\ <<op, fd>> \in FdApi[Actor(w)]
    /\ \A a \in Actors : call[a].op = "accepted" => call[a].fd # fd

\* w is in a call, at a given place of it.
At(w, at) == InTask(w) /\ call[Actor(w)].at = at
Op(w) == call[Actor(w)].op
Fd(w) == call[Actor(w)].fd
Begins(w, op, fd, at, flag) == call' = [call EXCEPT ![Actor(w)] = Call(op, fd, at, flag)]
GoesTo(w, at) == call' = [call EXCEPT ![Actor(w)].at = at]
Ends(w) == call' = [call EXCEPT ![Actor(w)] = Idle]

\* What a loop reads or writes.
Direction(op) == IF op = "write" THEN "w" ELSE "r"

-----------------------------------------------------------------------------
(* The kernel and the other processes (external)                           *)

\* A file is opened under a free number.
Open(f, fd) ==
    /\ file[fd] = NoFile /\ f \notin Range(file)
    /\ file' = [file EXCEPT ![fd] = f]
    /\ ready' = [ready EXCEPT ![f] = {}]
    /\ nonblock' = [nonblock EXCEPT ![f] = FALSE]
    /\ UNCHANGED <<vars, generations, waitVars, pollVars, call>>

\* The other end reads, writes or hangs up.
PeerActs(f, es) ==
    /\ f \in Range(file) /\ es # ready[f]
    /\ ready' = [ready EXCEPT ![f] = es]
    /\ UNCHANGED <<vars, file, nonblock, generations, waitVars, pollVars, call>>

-----------------------------------------------------------------------------
(* mt_fd_adopt and mt_fd_release                                           *)

\* Mutated form: a number that is known to be adopted is left as it is.
AdoptTrustsEntry(w, op, fd) ==
    LET f == file[fd] IN
    /\ Calling(w, op, fd) /\ f # NoFile
    /\ nonblock' = [nonblock EXCEPT ![f] = @ \/ ~generations[fd].adopted]
    /\ Begins(w, op, fd, "adopt", nonblock[f])
    /\ UNCHANGED <<vars, file, ready, generations, waitVars, pollVars>>

\* mt_fd_adopt, also as the first step of a loop: the flags are read and
\* O_NONBLOCK is set.
AdoptSetsFlag(w, op, fd) ==
    LET f == file[fd] IN
    /\ Calling(w, op, fd) /\ f # NoFile
    /\ nonblock' = [nonblock EXCEPT ![f] = TRUE]
    /\ Begins(w, op, fd, "adopt", nonblock[f])
    /\ UNCHANGED <<vars, file, ready, generations, waitVars, pollVars>>

\* The rest of mt_fd_adopt, with the lock.  What follows when it fails: an
\* accepted connection is closed.  When it succeeds: a loop begins to try.
mt_fd_adopt(w) ==
    LET fails == IF Op(w) = "accepted" THEN GoesTo(w, "drop") ELSE Ends(w) IN
    /\ At(w, "adopt") /\ lock = Free
    /\ \/ mt_fd_is_closing(Fd(w)) /\ fails /\ UNCHANGED generations
       \/ /\ ~mt_fd_is_closing(Fd(w)) /\ NoEntry \in mt_fd_generation_current(Fd(w))
          /\ fails /\ UNCHANGED generations
       \/ /\ ~mt_fd_is_closing(Fd(w))
          /\ \E g \in mt_fd_generation_current(Fd(w)) \ {NoEntry} :
                generations' = [generations EXCEPT ![Fd(w)] =
                    IF g.adopted THEN g
                    ELSE [g EXCEPT !.adopted = TRUE, !.original_flags = call[Actor(w)].flag]]
          /\ IF Op(w) \in {"adopt", "accepted"} THEN Ends(w) ELSE GoesTo(w, "try")
    /\ UNCHANGED <<vars, kernelVars, waitVars, pollVars>>

\* The entry of a number nobody waits on is dropped.
mt_fd_release(w, fd) ==
    LET g == generations[fd] IN
    /\ Calling(w, "release", fd) /\ lock = Free
    /\ ~mt_fd_is_closing(fd) /\ ~mt_fd_waiter_conflicts(fd, Directions)
    /\ g # NoEntry
    /\ generations' = [generations EXCEPT ![fd] = NoEntry]
    /\ IF g.adopted THEN Begins(w, "release", fd, "restore", g.original_flags) ELSE UNCHANGED call
    /\ UNCHANGED <<vars, kernelVars, waitVars, pollVars>>

\* The captured flags are set again.
ReleaseRestoresFlag(w) ==
    /\ At(w, "restore")
    /\ nonblock' = [f \in Files |-> IF f = file[Fd(w)] THEN call[Actor(w)].flag ELSE nonblock[f]]
    /\ Ends(w)
    /\ UNCHANGED <<vars, file, ready, generations, waitVars, pollVars>>

-----------------------------------------------------------------------------
(* mt_fd_wait                                                              *)

\* A wait for es fails with the lock held: the number is being closed, is not
\* open, or has another waiter.
Refused(fd, es) ==
    mt_fd_is_closing(fd) \/ mt_fd_waiter_conflicts(fd, es) \/ file[fd] = NoFile

\* It is not refused and the poll() it makes finds nothing ready.
MayPark(fd, es) == ~Refused(fd, es) /\ ready[file[fd]] \cap es = {}

\* The call is mt_fd_wait itself, made by the program, or the wait of a loop.
WaitFor(w, fd, es) ==
    \/ Calling(w, "wait", fd)
    \/ At(w, "wait") /\ Fd(w) = fd /\ es = {Direction(Op(w))}

\* The task is registered at the head of the list and parks, with a timer.
mt_fd_wait(w, fd, es) ==
    /\ w \in Workers /\ lock = Free /\ WaitFor(w, fd, es) /\ MayPark(fd, es)
    /\ \E g \in mt_fd_generation_current(fd) :
          /\ generations' = [generations EXCEPT ![fd] = g]
          /\ mt_fd_waiter_add(FdWaiter(current[w], fd, es, g.generation))
    /\ state' = [state EXCEPT ![current[w]] = "waiting_fd"]
    /\ mt_timer_push(current[w])
    /\ mt_ctx_switch(w, mt_notify_all(pc))
    /\ IF InCode(w) THEN Begins(w, "wait", fd, "waiting", FALSE) ELSE GoesTo(w, "waiting")
    /\ UNCHANGED <<current, runVars, countVars, ret, sel, runq, chanVars, handleVars,
                   kernelVars, pollVars>>

\* The wait of a loop does not park: the number is ready after all, or the
\* loop fails with it, also because no time is left or because only a task
\* may wait.
WaitReturnsAtOnce(w) ==
    LET es == {Direction(Op(w))} IN
    /\ At(w, "wait") /\ lock = Free
    /\ \/ (w \notin Workers \/ Refused(Fd(w), es) \/ MayPark(Fd(w), es)) /\ Ends(w)
       \/ w \in Workers /\ ~Refused(Fd(w), es) /\ ~MayPark(Fd(w), es) /\ GoesTo(w, "try")
    /\ UNCHANGED <<vars, kernelVars, generations, waitVars, pollVars>>

\* The registration fails in the backend, or the timer cannot be pushed and it
\* is undone; the entry of the number stays.
WaitFails(w, fd, es) ==
    /\ w \in Workers /\ lock = Free /\ WaitFor(w, fd, es) /\ MayPark(fd, es)
    /\ \E g \in mt_fd_generation_current(fd) : generations' = [generations EXCEPT ![fd] = g]
    /\ pc' \in {pc, mt_notify_all(pc)}
    /\ Ends(w)
    /\ UNCHANGED <<lock, current, runVars, countVars, taskVars, chanVars, handleVars,
                   kernelVars, waitVars, pollVars>>

\* The waiter of task t.
WaiterOf(t) == CHOOSE x \in Range(fd_waiters) : x.task = t

\* Mutated form: a loop that goes on keeps its waiter.
LoopKeepsWaiter(w) ==
    LET again == Op(w) # "wait" /\ WaiterOf(current[w]).rc = "OK" IN
    /\ At(w, "waiting") /\ lock = Free
    /\ fd_waiters' = IF again THEN fd_waiters ELSE mt_fd_free_waiter(current[w])
    /\ IF again THEN GoesTo(w, "try") ELSE Ends(w)
    /\ UNCHANGED <<vars, kernelVars, generations, fd_waiting_count, pollVars>>

\* The task runs again: its waiter is freed, and a loop goes on or fails.
WaitReturns(w) ==
    /\ At(w, "waiting") /\ lock = Free
    /\ fd_waiters' = mt_fd_free_waiter(current[w])
    /\ IF Op(w) # "wait" /\ WaiterOf(current[w]).rc = "OK" THEN GoesTo(w, "try") ELSE Ends(w)
    /\ UNCHANGED <<vars, kernelVars, generations, fd_waiting_count, pollVars>>

-----------------------------------------------------------------------------
(* The loops of mt_fd_read, mt_fd_write and mt_net_accept                  *)

\* One read, write or accept.  It fails if the number is not open, or finds
\* nothing to do; on a file that may block it would not return.
TryFails(w) ==
    LET f == file[Fd(w)] IN
    /\ At(w, "try")
    /\ \/ f = NoFile /\ Ends(w)
       \/ f # NoFile /\ Direction(Op(w)) \notin ready[f] /\ nonblock[f] /\ GoesTo(w, "wait")
    /\ UNCHANGED <<vars, kernelVars, generations, waitVars, pollVars>>

\* It moves data, a write perhaps only a part of it.
TryTransfers(w) ==
    LET f == file[Fd(w)]
        d == Direction(Op(w))
    IN  /\ At(w, "try") /\ Op(w) # "accept"
        /\ f # NoFile /\ d \in ready[f]
        /\ ready' \in {ready, [ready EXCEPT ![f] = @ \ {d}]}
        /\ Ends(w) \/ (Op(w) = "write" /\ ready' # ready /\ UNCHANGED call)
        /\ UNCHANGED <<vars, file, nonblock, generations, waitVars, pollVars>>

\* It accepts connection f under the free number fd, and O_NONBLOCK is set for
\* it; nobody else knows the number yet.
TryAccepts(w, f, fd) ==
    /\ At(w, "try") /\ Op(w) = "accept"
    /\ file[Fd(w)] # NoFile /\ "r" \in ready[file[Fd(w)]]
    /\ file[fd] = NoFile /\ f \notin Range(file)
    /\ file' = [file EXCEPT ![fd] = f]
    /\ ready' = [ready EXCEPT ![f] = {}, ![file[Fd(w)]] = {}]
    /\ nonblock' = [nonblock EXCEPT ![f] = TRUE]
    /\ Begins(w, "accepted", fd, "adopt", FALSE)
    /\ UNCHANGED <<vars, generations, waitVars, pollVars>>

\* The connection could not be adopted.
AcceptDrops(w) ==
    /\ At(w, "drop")
    /\ file' = [file EXCEPT ![Fd(w)] = NoFile]
    /\ Ends(w)
    /\ UNCHANGED <<vars, ready, nonblock, generations, waitVars, pollVars>>

-----------------------------------------------------------------------------
(* mt_fd_close                                                             *)

\* Mutated form: the waiters are left to the poller.
CloseWakesNobody(w, fd) ==
    /\ Calling(w, "close", fd) /\ lock = Free
    /\ file[fd] # NoFile /\ ~mt_fd_is_closing(fd)
    /\ \E g \in mt_fd_generation_current(fd) \ {NoEntry} :
          generations' = [generations EXCEPT ![fd] =
              [g EXCEPT !.closing = TRUE, !.generation = mt_fd_generation_bump(@)]]
    /\ Begins(w, "close", fd, "close", FALSE)
    /\ UNCHANGED <<vars, kernelVars, waitVars, pollVars>>

\* The number is marked, gets a new generation, and its waiters are told
\* CLOSED.  A program closes only what is open.
mt_fd_close(w, fd) ==
    LET woken == Keep(fd_waiters, {x \in ActiveWaiters : x.fd = fd}) IN
    /\ Calling(w, "close", fd) /\ lock = Free
    /\ file[fd] # NoFile /\ ~mt_fd_is_closing(fd)
    /\ \E g \in mt_fd_generation_current(fd) \ {NoEntry} :
          generations' = [generations EXCEPT ![fd] =
              [g EXCEPT !.closing = TRUE, !.generation = mt_fd_generation_bump(@)]]
    /\ mt_fd_ready_waiter(woken, "CLOSED", FdNotified({x.task : x \in Range(woken)}))
    /\ Begins(w, "close", fd, "close", FALSE)
    /\ UNCHANGED <<lock, current, runVars, countVars, ret, sel, chanVars, handleVars,
                   kernelVars, pollVars>>

\* close(fd), without the lock.
CloseFile(w) ==
    /\ At(w, "close")
    /\ file' = [file EXCEPT ![Fd(w)] = NoFile]
    /\ GoesTo(w, "closed")
    /\ UNCHANGED <<vars, ready, nonblock, generations, waitVars, pollVars>>

\* The number may be used again.
CloseEnds(w) ==
    /\ At(w, "closed") /\ lock = Free
    /\ generations' = [generations EXCEPT ![Fd(w)].closing = FALSE]
    /\ Ends(w)
    /\ UNCHANGED <<vars, kernelVars, waitVars, pollVars>>
=============================================================================
