----------------------------- MODULE MtChannel -----------------------------
(***************************************************************************)
(* Channels: mt_chan_send, mt_chan_recv and their nonblocking forms,       *)
(* mt_chan_close and mt_chan_destroy.  Capacity[c] = 0 is an unbuffered    *)
(* channel.  Calls that only return an error leave no trace in the state   *)
(* and are left out: a closed channel refuses a send, a nonblocking call   *)
(* returns MT_ERR_WOULD_BLOCK, an outside thread that would have to park   *)
(* gets MT_ERR_STATE.                                                      *)
(***************************************************************************)
EXTENDS MtRuntime

\* What a channel operation that wakes tasks may change besides buf and closed.
wakeVars == <<state, ret, runq, timers, pc, waitq, channel_waiting_count>>
quietVars == <<lock, current, runVars, live_count, running_tasks, join_waiting_count, handleVars>>

SendWouldBlock(c) ==
    /\ ~closed[c]
    /\ waitq[c]["recv"] = <<>> /\ waitq[c]["select_recv"] = <<>>
    /\ Len(buf[c]) >= Capacity[c]

\* Mutated form: the buffer is not looked at.
RecvIgnoresBuffer(c) ==
    /\ ~closed[c]
    /\ waitq[c]["send"] = <<>> /\ waitq[c]["select_send"] = <<>>

RecvWouldBlock(c) ==
    /\ ~closed[c]
    /\ buf[c] = <<>>
    /\ waitq[c]["send"] = <<>> /\ waitq[c]["select_send"] = <<>>

-----------------------------------------------------------------------------
\* Mutated form: parked selects are not served.
SendSkipsSelects(c, v) ==
    /\ ~closed[c]
    /\ \/ /\ waitq[c]["recv"] # <<>>
          /\ mt_chan_ready_waiter(c, "recv", "OK", v)
          /\ UNCHANGED buf
       \/ /\ waitq[c]["recv"] = <<>>
          /\ Len(buf[c]) < Capacity[c]
          /\ buf' = [buf EXCEPT ![c] = Append(@, v)]
          /\ UNCHANGED wakeVars
    /\ UNCHANGED <<closed, destroyed, quietVars>>

\* The send that completes at once: to a parked receiver, else to a parked
\* select, else into the buffer.
SendNow(c, v) ==
    /\ ~closed[c]
    /\ \/ /\ waitq[c]["recv"] # <<>>
          /\ mt_chan_ready_waiter(c, "recv", "OK", v)
          /\ UNCHANGED buf
       \/ /\ waitq[c]["recv"] = <<>> /\ waitq[c]["select_recv"] # <<>>
          /\ mt_select_complete_waiter(c, "select_recv", "OK", v)
          /\ UNCHANGED buf
       \/ /\ waitq[c]["recv"] = <<>> /\ waitq[c]["select_recv"] = <<>>
          /\ Len(buf[c]) < Capacity[c]
          /\ buf' = [buf EXCEPT ![c] = Append(@, v)]
          /\ UNCHANGED wakeVars
    /\ UNCHANGED <<closed, destroyed, quietVars>>

\* After a pop, the value of a parked sender moves into the freed slot of an
\* open channel; blocking senders go before parked selects.
mt_chan_fill_buffer_from_waiting_sender(c, rest) ==
    \/ /\ ~closed[c] /\ waitq[c]["send"] # <<>>
       /\ buf' = [buf EXCEPT ![c] = Append(rest, Head(waitq[c]["send"]).value)]
       /\ mt_chan_ready_waiter(c, "send", "OK", NoValue)
    \/ /\ ~closed[c] /\ waitq[c]["send"] = <<>> /\ waitq[c]["select_send"] # <<>>
       /\ buf' = [buf EXCEPT ![c] = Append(rest, Head(waitq[c]["select_send"]).value)]
       /\ mt_select_complete_waiter(c, "select_send", "OK", NoValue)
    \/ /\ closed[c] \/ (waitq[c]["send"] = <<>> /\ waitq[c]["select_send"] = <<>>)
       /\ buf' = [buf EXCEPT ![c] = rest]
       /\ UNCHANGED wakeVars

\* Mutated form: a parked sender is served before the buffer.
RecvSenderFirst(c) ==
    /\ \/ /\ waitq[c]["send"] # <<>>
          /\ mt_chan_ready_waiter(c, "send", IF closed[c] THEN "CLOSED" ELSE "OK", NoValue)
          /\ UNCHANGED buf
       \/ /\ waitq[c]["send"] = <<>> /\ buf[c] # <<>>
          /\ mt_chan_fill_buffer_from_waiting_sender(c, Tail(buf[c]))
    /\ UNCHANGED <<closed, destroyed, quietVars>>

\* The receive that completes at once: from the buffer, else from a parked
\* sender, else from a parked select (both told CLOSED on a closed channel).
RecvNow(c) ==
    /\ \/ /\ buf[c] # <<>>
          /\ mt_chan_fill_buffer_from_waiting_sender(c, Tail(buf[c]))
       \/ /\ buf[c] = <<>> /\ waitq[c]["send"] # <<>>
          /\ mt_chan_ready_waiter(c, "send", IF closed[c] THEN "CLOSED" ELSE "OK", NoValue)
          /\ UNCHANGED buf
       \/ /\ buf[c] = <<>> /\ waitq[c]["send"] = <<>> /\ waitq[c]["select_send"] # <<>>
          /\ mt_select_complete_waiter(c, "select_send",
                                       IF closed[c] THEN "CLOSED" ELSE "OK", NoValue)
          /\ UNCHANGED buf
    /\ UNCHANGED <<closed, destroyed, quietVars>>

-----------------------------------------------------------------------------
mt_chan_try_send(w, c, v) ==
    /\ Calls(w) /\ c \notin destroyed
    /\ SendNow(c, v)
    /\ UNCHANGED sel

mt_chan_try_recv(w, c) ==
    /\ Calls(w) /\ c \notin destroyed
    /\ RecvNow(c)
    /\ UNCHANGED sel

mt_chan_send(w, c, v) ==
    \/ mt_chan_try_send(w, c, v)
    \/ /\ w \in Workers /\ Calls(w) /\ c \notin destroyed
       /\ SendWouldBlock(c)
       /\ mt_task_block_on_channel(w, c, "send", v)
       /\ UNCHANGED <<current, runVars, live_count, running_tasks, join_waiting_count,
                      ret, sel, runq, timers, buf, closed, destroyed, handleVars>>

mt_chan_recv(w, c) ==
    \/ mt_chan_try_recv(w, c)
    \/ /\ w \in Workers /\ Calls(w) /\ c \notin destroyed
       /\ RecvWouldBlock(c)
       /\ mt_task_block_on_channel(w, c, "recv", NoValue)
       /\ UNCHANGED <<current, runVars, live_count, running_tasks, join_waiting_count,
                      ret, sel, runq, timers, buf, closed, destroyed, handleVars>>

-----------------------------------------------------------------------------
\* The tasks parked on c in the order mt_chan_wake_closed_waiters wakes them.
\* Waking a select frees all its waiters, so a task that waits on c with
\* several cases is woken once, at its first entry.
ClosedWakeOrder(c) ==
    LET q == waitq[c]["send"] \o waitq[c]["recv"]
             \o waitq[c]["select_send"] \o waitq[c]["select_recv"]
        firsts == { q[i] : i \in { i \in DOMAIN q :
                                     \A j \in 1 .. i - 1 : q[j].task # q[i].task } }
    IN  Keep(q, firsts)

\* Every task parked on c is woken with MT_ERR_CLOSED.
mt_chan_wake_closed_waiters(c) ==
    LET ws == ClosedWakeOrder(c)
        woken == [i \in DOMAIN ws |-> ws[i].task]
    IN  /\ waitq' = mt_select_free_task_waiters(Range(woken))
        /\ timers' = Keep(timers, Tasks \ Range(woken))
        /\ channel_waiting_count' = Drop(channel_waiting_count, Len(ws))
        /\ ret' = [t \in Tasks |->
                     IF t \in Range(woken)
                     THEN Return("CLOSED", ws[CHOOSE i \in DOMAIN ws : woken[i] = t].index, NoValue)
                     ELSE ret[t]]
        /\ mt_task_mark_ready(state, runq, pc, woken)

mt_chan_close(w, c) ==
    /\ Calls(w) /\ c \notin destroyed
    /\ ~closed[c]
    /\ closed' = [closed EXCEPT ![c] = TRUE]
    /\ mt_chan_wake_closed_waiters(c)
    /\ UNCHANGED <<buf, destroyed, sel, quietVars>>

\* Refused while a send or receive is parked; a parked select is woken as by
\* a close.  The program does not destroy a channel that a select in progress names.
mt_chan_destroy(w, c) ==
    /\ Calls(w) /\ c \notin destroyed
    /\ \A t \in Tasks : \A i \in DOMAIN sel[t].call.cases : sel[t].call.cases[i].ch # c
    /\ waitq[c]["send"] = <<>> /\ waitq[c]["recv"] = <<>>
    /\ mt_chan_wake_closed_waiters(c)
    /\ destroyed' = destroyed \cup {c}
    /\ buf' = [buf EXCEPT ![c] = <<>>]
    /\ UNCHANGED <<closed, sel, quietVars>>
=============================================================================
