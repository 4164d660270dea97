------------------------------ MODULE MtSelect ------------------------------
(***************************************************************************)
(* mt_select.  The call first tries its channel cases in order, each try a *)
(* critical section of its own, and then parks in another one: between any *)
(* two of them the lock is free and other workers run.                     *)
(*                                                                         *)
(* The arguments are [cases, timeout, default]: the channel cases in order *)
(* (records [op, ch, value]), whether there is a timeout case and of 0 ms  *)
(* or more, whether there is a default case.  The index reported for the   *)
(* timeout is 0.  A call that mt_select rejects as invalid changes nothing *)
(* and is left out.                                                        *)
(***************************************************************************)
EXTENDS MtChannel

SelectCases == [op : {"send", "recv"}, ch : Chans, value : Values \cup {NoValue}]
SelectArgs == [cases : Seq(SelectCases), timeout : {"none", "zero", "later"}, default : BOOLEAN]

ASSUME SelectAssumption ==
    /\ SelectCalls \subseteq SelectArgs
    /\ \A s \in SelectCalls : s.cases # <<>> \/ s.timeout # "none" \/ s.default
    /\ \A s \in SelectCalls : \A i \in DOMAIN s.cases :
           s.cases[i].op = "send" => s.cases[i].value \in Values

SelectKind(op) == IF op = "send" THEN "select_send" ELSE "select_recv"

CaseReady(x) ==
    IF x.op = "send" THEN ~SendWouldBlock(x.ch) ELSE ~RecvWouldBlock(x.ch)

-----------------------------------------------------------------------------
\* A task enters mt_select with the arguments s.
mt_select(w, s) ==
    /\ w \in Workers /\ Calls(w)
    /\ \A i \in DOMAIN s.cases : s.cases[i].ch \notin destroyed
    /\ sel' = [sel EXCEPT ![current[w]] = [call |-> s, next |-> 1]]
    /\ UNCHANGED <<workerVars, runVars, countVars, state, ret, runq, timers, chanVars, handleVars>>

Selecting(w) ==
    /\ lock = Free /\ pc[w] = "task"
    /\ sel[current[w]] # NoSelect

\* The next channel case is tried: it completes, or its channel is closed and
\* the select returns MT_ERR_CLOSED, or it would block and the scan goes on.
mt_select_try_case(w) ==
    LET t == current[w]
        x == sel[t].call.cases[sel[t].next]
    IN  /\ Selecting(w)
        /\ sel[t].next <= Len(sel[t].call.cases)
        /\ \/ /\ x.op = "send" /\ SendNow(x.ch, x.value)
              /\ sel' = [sel EXCEPT ![t] = NoSelect]
           \/ /\ x.op = "recv" /\ RecvNow(x.ch)
              /\ sel' = [sel EXCEPT ![t] = NoSelect]
           \/ /\ closed[x.ch]
              /\ x.op = "recv" => buf[x.ch] = <<>> /\ waitq[x.ch]["send"] = <<>>
                                                   /\ waitq[x.ch]["select_send"] = <<>>
              /\ sel' = [sel EXCEPT ![t] = NoSelect]
              /\ UNCHANGED <<wakeVars, quietVars, buf, closed, destroyed>>
           \/ /\ ~CaseReady(x)
              /\ sel' = [sel EXCEPT ![t].next = @ + 1]
              /\ UNCHANGED <<wakeVars, quietVars, buf, closed, destroyed>>

\* No case was ready and the call does not park: it has a default case or a
\* timeout of 0.
mt_select_return(w) ==
    LET t == current[w] IN
    /\ Selecting(w)
    /\ sel[t].next > Len(sel[t].call.cases)
    /\ sel[t].call.default \/ sel[t].call.timeout = "zero"
    /\ sel' = [sel EXCEPT ![t] = NoSelect]
    /\ UNCHANGED <<workerVars, runVars, countVars, state, ret, runq, timers, chanVars, handleVars>>

\* The waiters a select call of t registers, one per channel case.
SelectWaiters(t, cases) ==
    [i \in DOMAIN cases |->
        Waiter(t, cases[i].ch, SelectKind(cases[i].op), i, cases[i].value)]

\* No case was ready, and the call neither has a default case nor a timeout of 0.
MustPark(w) ==
    LET t == current[w] IN
    /\ Selecting(w)
    /\ sel[t].next > Len(sel[t].call.cases)
    /\ ~sel[t].call.default /\ sel[t].call.timeout # "zero"

\* The wait queues after the waiters ws are pushed, each at the end of its queue.
Registered(ws) ==
    [c \in Chans |-> [k \in Kinds |->
        waitq[c][k] \o Keep(ws, {x \in Range(ws) : x.ch = c /\ x.kind = k})]]

\* Mutated form: the waiters registered before the failure stay.
FailsWithoutUndo(w) ==
    LET t == current[w]
        ws == SelectWaiters(t, sel[t].call.cases)
    IN  /\ "nomem" \in Api /\ MustPark(w)
        /\ \E n \in 0 .. Len(ws) :
              /\ n < Len(ws) \/ sel[t].call.timeout = "later"
              /\ waitq' = Registered(SubSeq(ws, 1, n))
        /\ sel' = [sel EXCEPT ![t] = NoSelect]
        /\ UNCHANGED <<workerVars, runVars, countVars, state, ret, runq, timers,
                       buf, closed, destroyed, handleVars>>

\* The waiter after the first n, or the timer after all of them, cannot be
\* allocated: the n waiters are taken out of their queues again.
mt_select_fails(w) ==
    LET t == current[w]
        ws == SelectWaiters(t, sel[t].call.cases)
    IN  /\ "nomem" \in Api /\ MustPark(w)
        /\ \E n \in 0 .. Len(ws) :
              /\ n < Len(ws) \/ sel[t].call.timeout = "later"
              /\ waitq' = EntriesFreed(Registered(SubSeq(ws, 1, n)), {t})
        /\ sel' = [sel EXCEPT ![t] = NoSelect]
        /\ UNCHANGED <<workerVars, runVars, countVars, state, ret, runq, timers,
                       buf, closed, destroyed, handleVars>>

\* The task parks: a waiter on every channel case, and with a timeout a
\* timer, somewhere in the order of the deadlines.
mt_select_park(w) ==
    LET t == current[w] IN
    /\ MustPark(w)
    /\ waitq' = Registered(SelectWaiters(t, sel[t].call.cases))
    /\ IF sel[t].call.timeout = "later"
       THEN /\ mt_timer_push(t)
            /\ mt_ctx_switch(w, mt_notify_all(pc))
       ELSE /\ UNCHANGED timers
            /\ mt_ctx_switch(w, pc)
    /\ state' = [state EXCEPT ![t] = "waiting_select"]
    /\ channel_waiting_count' = channel_waiting_count + 1
    /\ sel' = [sel EXCEPT ![t] = NoSelect]
    /\ UNCHANGED <<current, runVars, live_count, running_tasks, join_waiting_count,
                   ret, runq, buf, closed, destroyed, handleVars>>
=============================================================================
