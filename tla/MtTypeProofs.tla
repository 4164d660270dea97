---------------------------- MODULE MtTypeProofs ----------------------------
(***************************************************************************)
(* Type correctness of the runtime, for any number of workers, tasks and   *)
(* channels and any program: one lemma per kind of step, then the theorem. *)
(***************************************************************************)
EXTENDS MtWakeProofs

\* A worker that is inside a task has one.  Without it a worker that switches
\* back could push NoTask into the run queue.
BusyHasTask == \A w \in Workers : pc[w] \in {"task", "switched"} => current[w] \in Tasks

\* The inductive invariant.
TypeInv == TypeOK /\ BusyHasTask

LEMMA InitTypeInv ==
    Init => TypeInv
<1> SUFFICES ASSUME Init PROVE TypeInv
  OBVIOUS
<1> USE RuntimeAssumption DEF RuntimeAssumption
<1>1. WorkerType /\ RunType /\ BusyHasTask
  BY Zenon DEF Init, WorkerType, RunType, BusyHasTask, WorkerPcs
<1>2. CountType
  BY DEF Init, CountType
<1>3. TaskType
  <2>1. NoReturn \in Returns
    BY ReturnType DEF NoReturn, Results
  <2>2. NoSelect \in Selects
    BY DEF Selects
  <2> QED
    BY <2>1, <2>2 DEF Init, TaskType, States
<1>4. ChanType
  BY DEF Init, ChanType, Kinds
<1>5. HandleType
  BY DEF Init, HandleType
<1> QED
  BY <1>1, <1>2, <1>3, <1>4, <1>5 DEF TypeInv, TypeOK

-----------------------------------------------------------------------------
(* Steps that only wake tasks                                              *)

\* A step that wakes tasks and changes channels or the selects in progress.
LEMMA WakingStep ==
    ASSUME TypeInv, WakeType', Roused(pc, pc'),
           buf' \in [Chans -> Seq(Values)], closed' \in [Chans -> BOOLEAN], destroyed' \subseteq Chans,
           sel' \in [Tasks -> Selects],
           UNCHANGED quietVars
    PROVE  TypeInv'
<1>1. WorkerType' /\ RunType' /\ CountType' /\ TaskType' /\ HandleType'
  BY DEF TypeInv, TypeOK, WakeType, WorkerType, RunType, CountType, TaskType, HandleType,
         quietVars, runVars, handleVars
<1>2. ChanType'
  <2>1. waitq' \in [Chans -> [Kinds -> Seq(Waiters)]] /\ SendersOffer(waitq')
    BY DEF WakeType, SendersOffer
  <2>2. \A c \in Chans, k \in {"send", "select_send"} : \A i \in 1 .. Len(waitq'[c][k]) :
            waitq'[c][k][i].value \in Values
    BY Zenon, <2>1, SendersOfferFacts
  <2> QED
    BY <2>1, <2>2 DEF ChanType
<1>3. BusyHasTask'
  BY DEF TypeInv, TypeOK, WorkerType, BusyHasTask, Roused, quietVars
<1> QED
  BY <1>1, <1>2, <1>3 DEF TypeInv, TypeOK

LEMMA RousedSame ==
    ASSUME UNCHANGED pc
    PROVE  Roused(pc, pc')
  BY DEF Roused

LEMMA SendNowType ==
    ASSUME TypeOK, NEW c \in Chans, NEW v \in Values, SendNow(c, v)
    PROVE  /\ WakeType' /\ Roused(pc, pc') /\ UNCHANGED quietVars
           /\ buf' \in [Chans -> Seq(Values)]
           /\ closed' \in [Chans -> BOOLEAN] /\ destroyed' \subseteq Chans
<1>1. buf \in [Chans -> Seq(Values)] /\ closed \in [Chans -> BOOLEAN] /\ destroyed \subseteq Chans
  BY DEF TypeOK, ChanType
<1>2. UNCHANGED <<closed, destroyed, quietVars>>
  BY DEF SendNow
<1>3. CASE waitq[c]["recv"] # <<>> /\ mt_chan_ready_waiter(c, "recv", "OK", v) /\ UNCHANGED buf
  <2>1. WakeType' /\ Roused(pc, pc')
    BY <1>3, ReadyWaiterType DEF Kinds, Results
  <2> QED
    BY <1>1, <1>2, <1>3, <2>1
<1>4. CASE /\ waitq[c]["select_recv"] # <<>>
           /\ mt_select_complete_waiter(c, "select_recv", "OK", v) /\ UNCHANGED buf
  <2>1. WakeType' /\ Roused(pc, pc')
    BY <1>4, CompleteWaiterType DEF Kinds, Results
  <2> QED
    BY <1>1, <1>2, <1>4, <2>1
<1>5. CASE buf' = [buf EXCEPT ![c] = Append(@, v)] /\ UNCHANGED wakeVars
  <2>1. WakeType' /\ Roused(pc, pc')
    BY <1>5, WakeTypeKept, RousedSame DEF wakeVars
  <2>2. buf' \in [Chans -> Seq(Values)]
    BY <1>1, <1>5
  <2> QED
    BY <1>1, <1>2, <2>1, <2>2
<1> QED
  BY <1>3, <1>4, <1>5 DEF SendNow

LEMMA FillType ==
    ASSUME TypeOK, NEW c \in Chans, NEW rest \in Seq(Values),
           mt_chan_fill_buffer_from_waiting_sender(c, rest)
    PROVE  WakeType' /\ Roused(pc, pc') /\ buf' \in [Chans -> Seq(Values)]
<1>1. buf \in [Chans -> Seq(Values)]
  BY DEF TypeOK, ChanType
<1>2. CASE /\ waitq[c]["send"] # <<>>
           /\ buf' = [buf EXCEPT ![c] = Append(rest, Head(waitq[c]["send"]).value)]
           /\ mt_chan_ready_waiter(c, "send", "OK", NoValue)
  <2>1. Head(waitq[c]["send"]).value \in Values
    BY <1>2, HeadWaiter DEF Kinds
  <2>2. WakeType' /\ Roused(pc, pc')
    BY <1>2, ReadyWaiterType DEF Kinds, Results
  <2> QED
    BY <1>1, <1>2, <2>1, <2>2
<1>3. CASE /\ waitq[c]["select_send"] # <<>>
           /\ buf' = [buf EXCEPT ![c] = Append(rest, Head(waitq[c]["select_send"]).value)]
           /\ mt_select_complete_waiter(c, "select_send", "OK", NoValue)
  <2>1. Head(waitq[c]["select_send"]).value \in Values
    BY <1>3, HeadWaiter DEF Kinds
  <2>2. WakeType' /\ Roused(pc, pc')
    BY <1>3, CompleteWaiterType DEF Kinds, Results
  <2> QED
    BY <1>1, <1>3, <2>1, <2>2
<1>4. CASE buf' = [buf EXCEPT ![c] = rest] /\ UNCHANGED wakeVars
  <2>1. WakeType' /\ Roused(pc, pc')
    BY <1>4, WakeTypeKept, RousedSame DEF wakeVars
  <2> QED
    BY <1>1, <1>4, <2>1
<1> QED
  BY <1>2, <1>3, <1>4 DEF mt_chan_fill_buffer_from_waiting_sender

LEMMA RecvNowType ==
    ASSUME TypeOK, NEW c \in Chans, RecvNow(c)
    PROVE  /\ WakeType' /\ Roused(pc, pc') /\ UNCHANGED quietVars
           /\ buf' \in [Chans -> Seq(Values)]
           /\ closed' \in [Chans -> BOOLEAN] /\ destroyed' \subseteq Chans
<1>1. buf \in [Chans -> Seq(Values)] /\ closed \in [Chans -> BOOLEAN] /\ destroyed \subseteq Chans
  BY DEF TypeOK, ChanType
<1>2. UNCHANGED <<closed, destroyed, quietVars>>
  BY DEF RecvNow
<1> DEFINE rc == IF closed[c] THEN "CLOSED" ELSE "OK"
<1>3. rc \in Results
  BY DEF Results
<1>4. CASE buf[c] # <<>> /\ mt_chan_fill_buffer_from_waiting_sender(c, Tail(buf[c]))
  <2>1. Tail(buf[c]) \in Seq(Values)
    BY <1>1, <1>4
  <2>2. WakeType' /\ Roused(pc, pc') /\ buf' \in [Chans -> Seq(Values)]
    BY Zenon, <1>4, <2>1, FillType
  <2> QED
    BY <1>1, <1>2, <2>2
<1>5. CASE waitq[c]["send"] # <<>> /\ mt_chan_ready_waiter(c, "send", rc, NoValue) /\ UNCHANGED buf
  <2> HIDE DEF rc
  <2>1. WakeType' /\ Roused(pc, pc')
    BY <1>3, <1>5, ReadyWaiterType DEF Kinds
  <2> QED
    BY <1>1, <1>2, <1>5, <2>1
<1>6. CASE /\ waitq[c]["select_send"] # <<>>
           /\ mt_select_complete_waiter(c, "select_send", rc, NoValue) /\ UNCHANGED buf
  <2> HIDE DEF rc
  <2>1. WakeType' /\ Roused(pc, pc')
    BY <1>3, <1>6, CompleteWaiterType DEF Kinds
  <2> QED
    BY <1>1, <1>2, <1>6, <2>1
<1> QED
  BY <1>4, <1>5, <1>6 DEF RecvNow

LEMMA CloseType ==
    ASSUME TypeInv, NEW w, NEW c \in Chans, mt_chan_close(w, c) \/ mt_chan_destroy(w, c)
    PROVE  TypeInv'
<1>1. TypeOK /\ buf \in [Chans -> Seq(Values)] /\ closed \in [Chans -> BOOLEAN] /\ destroyed \subseteq Chans
      /\ sel \in [Tasks -> Selects]
  BY DEF TypeInv, TypeOK, ChanType, TaskType
<1>2. mt_chan_wake_closed_waiters(c) /\ UNCHANGED <<sel, quietVars>>
  BY DEF mt_chan_close, mt_chan_destroy
<1>3. WakeType' /\ Roused(pc, pc')
  BY <1>1, <1>2, WakeClosedType
<1>4. buf' \in [Chans -> Seq(Values)]
  <2>1. buf' = buf \/ buf' = [buf EXCEPT ![c] = <<>>]
    BY DEF mt_chan_close, mt_chan_destroy
  <2>2. [buf EXCEPT ![c] = <<>>] \in [Chans -> Seq(Values)]
    BY <1>1
  <2> QED
    BY <1>1, <2>1, <2>2
<1>5. closed' \in [Chans -> BOOLEAN] /\ destroyed' \subseteq Chans
  BY Zenon, <1>1 DEF mt_chan_close, mt_chan_destroy
<1>6. sel' \in [Tasks -> Selects]
  BY <1>1, <1>2
<1> QED
  BY <1>2, <1>3, <1>4, <1>5, <1>6, WakingStep

LEMMA TrySendType ==
    ASSUME TypeInv, NEW w, NEW c \in Chans, NEW v \in Values, mt_chan_try_send(w, c, v)
    PROVE  TypeInv'
<1>1. TypeOK /\ sel \in [Tasks -> Selects]
  BY DEF TypeInv, TypeOK, TaskType
<1>2. SendNow(c, v) /\ sel' = sel
  BY DEF mt_chan_try_send
<1> QED
  BY <1>1, <1>2, SendNowType, WakingStep

LEMMA TryRecvType ==
    ASSUME TypeInv, NEW w, NEW c \in Chans, mt_chan_try_recv(w, c)
    PROVE  TypeInv'
<1>1. TypeOK /\ sel \in [Tasks -> Selects]
  BY DEF TypeInv, TypeOK, TaskType
<1>2. RecvNow(c) /\ sel' = sel
  BY DEF mt_chan_try_recv
<1> QED
  BY <1>1, <1>2, RecvNowType, WakingStep

-----------------------------------------------------------------------------
(* Steps with which a task parks                                           *)

\* A worker whose task switches back to it.
LEMMA SwitchStep ==
    ASSUME TypeInv, NEW w \in Workers, pc[w] = "task",
           NEW p \in [Workers -> WorkerPcs], Roused(pc, p), mt_ctx_switch(w, p), current' = current
    PROVE  WorkerType' /\ BusyHasTask'
<1>1. pc' = [p EXCEPT ![w] = "switched"] /\ lock' = w
  BY DEF mt_ctx_switch
<1>2. WorkerType'
  BY <1>1 DEF TypeInv, TypeOK, WorkerType, WorkerPcs
<1>3. BusyHasTask'
  BY <1>1 DEF TypeInv, TypeOK, WorkerType, BusyHasTask, Roused
<1> QED
  BY <1>2, <1>3

\* Only the waits of the queues change by appending entries.
LEMMA BlockType ==
    ASSUME TypeInv, NEW w \in Workers, NEW c \in Chans, NEW kind \in {"send", "recv"},
           NEW v \in Values \cup {NoValue}, kind = "send" => v \in Values,
           Calls(w), mt_task_block_on_channel(w, c, kind, v),
           UNCHANGED <<current, runVars, live_count, running_tasks, join_waiting_count,
                       ret, sel, runq, timers, buf, closed, destroyed, handleVars>>
    PROVE  TypeInv'
<1> DEFINE t == current[w]
           x == Waiter(t, c, kind, 0, v)
<1>1. pc[w] = "task" /\ t \in Tasks
  BY DEF Calls, TypeInv, BusyHasTask
<1>2. x \in Waiters /\ x.value = v
  BY <1>1 DEF Waiter, Waiters, Kinds
<1>3. mt_ctx_switch(w, pc) /\ Roused(pc, pc) /\ pc \in [Workers -> WorkerPcs] /\ current' = current
  BY DEF mt_task_block_on_channel, Roused, TypeInv, TypeOK, WorkerType
<1>4. WorkerType' /\ BusyHasTask'
  BY <1>1, <1>3, SwitchStep
<1>5. RunType' /\ CountType' /\ HandleType'
  BY DEF mt_task_block_on_channel, TypeInv, TypeOK, RunType, CountType, HandleType, runVars, handleVars
<1>6. TaskType'
  BY Zenon DEF mt_task_block_on_channel, TypeInv, TypeOK, TaskType, States, Parked
<1>7. ChanType'
  <2>1. waitq' = [waitq EXCEPT ![c][kind] = Append(@, x)] /\ waitq[c][kind] \in Seq(Waiters)
        /\ waitq \in [Chans -> [Kinds -> Seq(Waiters)]] /\ kind \in Kinds
    BY DEF mt_task_block_on_channel, TypeInv, TypeOK, ChanType, Kinds
  <2> HIDE DEF x
  <2>2. waitq' \in [Chans -> [Kinds -> Seq(Waiters)]]
    BY <1>2, <2>1
  <2>3. \A d \in Chans, k \in Kinds :
            Range(waitq'[d][k]) \subseteq Range(waitq[d][k]) \cup (IF k = kind THEN {x} ELSE {})
    <3>1. Range(Append(waitq[c][kind], x)) = Range(waitq[c][kind]) \cup {x}
      BY <1>2, <2>1, AppendFacts
    <3> QED
      BY <2>1, <3>1
  <2>4. SendersOffer(waitq)
    BY WakeTypeHolds DEF TypeInv, WakeType
  <2>5. SendersOffer(waitq')
    BY <1>2, <2>3, <2>4 DEF SendersOffer, Kinds
  <2>6. \A d \in Chans, k \in {"send", "select_send"} : \A i \in 1 .. Len(waitq'[d][k]) :
            waitq'[d][k][i].value \in Values
    BY <2>2, <2>5, SendersOfferFacts
  <2> QED
    BY <2>2, <2>6 DEF TypeInv, TypeOK, ChanType
<1> QED
  BY <1>4, <1>5, <1>6, <1>7 DEF TypeInv, TypeOK

LEMMA ChannellingType ==
    ASSUME TypeInv, NEW w \in Callers, Channelling(w)
    PROVE  TypeInv'
<1>1. PICK c \in Chans :
        \/ \E v \in Values : mt_chan_send(w, c, v)
        \/ mt_chan_recv(w, c)
        \/ \E v \in Values : mt_chan_try_send(w, c, v)
        \/ mt_chan_try_recv(w, c)
        \/ mt_chan_close(w, c)
        \/ mt_chan_destroy(w, c)
  BY DEF Channelling
<1>2. ASSUME NEW v \in Values, mt_chan_send(w, c, v) PROVE TypeInv'
  <2>1. CASE mt_chan_try_send(w, c, v)
    BY <2>1, TrySendType
  <2>2. CASE /\ w \in Workers /\ Calls(w) /\ mt_task_block_on_channel(w, c, "send", v)
             /\ UNCHANGED <<current, runVars, live_count, running_tasks, join_waiting_count,
                            ret, sel, runq, timers, buf, closed, destroyed, handleVars>>
    BY <2>2, BlockType
  <2> QED
    BY <1>2, <2>1, <2>2 DEF mt_chan_send
<1>3. CASE mt_chan_recv(w, c)
  <2>1. CASE mt_chan_try_recv(w, c)
    BY <2>1, TryRecvType
  <2>2. CASE /\ w \in Workers /\ Calls(w) /\ mt_task_block_on_channel(w, c, "recv", NoValue)
             /\ UNCHANGED <<current, runVars, live_count, running_tasks, join_waiting_count,
                            ret, sel, runq, timers, buf, closed, destroyed, handleVars>>
    BY <2>2, BlockType
  <2> QED
    BY <1>3, <2>1, <2>2 DEF mt_chan_recv
<1> QED
  BY <1>1, <1>2, <1>3, TrySendType, TryRecvType, CloseType
-----------------------------------------------------------------------------
(* mt_select                                                               *)

\* The select call of a task that is scanning, and its cases.
LEMMA SelectingFacts ==
    ASSUME TypeInv, NEW w \in Workers, Selecting(w)
    PROVE  LET t == current[w]
           IN  /\ pc[w] = "task" /\ t \in Tasks
               /\ sel[t].call \in SelectCalls /\ sel[t].next \in Nat \ {0}
               /\ sel[t].call.cases \in Seq(SelectCases)
               /\ \A i \in DOMAIN sel[t].call.cases :
                     sel[t].call.cases[i].op = "send" => sel[t].call.cases[i].value \in Values
<1> DEFINE t == current[w]
<1>1. pc[w] = "task" /\ sel[t] # NoSelect /\ t \in Tasks
  BY DEF Selecting, TypeInv, BusyHasTask
<1>2. sel[t] \in Selects
  BY <1>1 DEF TypeInv, TypeOK, TaskType
<1>3. sel[t].call \in SelectCalls /\ sel[t].next \in Nat \ {0}
  BY <1>1, <1>2 DEF Selects
<1>4. sel[t].call.cases \in Seq(SelectCases)
  BY <1>3, SelectAssumption DEF SelectAssumption, SelectArgs
<1> QED
  BY <1>1, <1>3, <1>4, SelectAssumption DEF SelectAssumption

LEMMA TryCaseType ==
    ASSUME TypeInv, NEW w \in Workers, mt_select_try_case(w)
    PROVE  TypeInv'
<1> DEFINE t == current[w]
           n == sel[t].next
           cases == sel[t].call.cases
           x == cases[n]
<1>1. Selecting(w) /\ n <= Len(cases)
  BY Zenon DEF mt_select_try_case
<1>2. /\ t \in Tasks /\ sel[t].call \in SelectCalls /\ n \in Nat \ {0} /\ cases \in Seq(SelectCases)
      /\ \A i \in DOMAIN cases : cases[i].op = "send" => cases[i].value \in Values
  BY <1>1, SelectingFacts
<1>3. x \in SelectCases /\ (x.op = "send" => x.value \in Values)
  <2> HIDE DEF cases, n
  <2> QED
    BY <1>1, <1>2
<1>4. x.ch \in Chans
  BY Zenon, <1>3 DEF SelectCases
<1>5. TypeOK /\ sel \in [Tasks -> Selects]
  BY DEF TypeInv, TypeOK, TaskType
<1>6. /\ sel' = [sel EXCEPT ![t] = NoSelect] => sel' \in [Tasks -> Selects]
      /\ sel' = [sel EXCEPT ![t].next = @ + 1] => sel' \in [Tasks -> Selects]
  <2>1. sel' = [sel EXCEPT ![t] = NoSelect] => sel' \in [Tasks -> Selects]
    BY Zenon, <1>5 DEF Selects
  <2>2. sel[t] \in [call : SelectCalls, next : Nat \ {0}]
    BY <1>2, <1>5 DEF Selects, NoSelect
  <2>3. [sel[t] EXCEPT !.next = @ + 1] \in [call : SelectCalls, next : Nat \ {0}]
    BY <2>2
  <2>4. [sel[t] EXCEPT !.next = @ + 1] \in Selects
    BY <2>3 DEF Selects
  <2>5. sel' = [sel EXCEPT ![t].next = @ + 1] => sel' \in [Tasks -> Selects]
    BY Zenon, <1>5, <2>4
  <2> QED
    BY <2>1, <2>5
<1> HIDE DEF x
<1>7. CASE x.op = "send" /\ SendNow(x.ch, x.value) /\ sel' = [sel EXCEPT ![t] = NoSelect]
  <2>1. sel' \in [Tasks -> Selects] /\ x.value \in Values
    BY <1>3, <1>6, <1>7
  <2> QED
    BY <1>4, <1>5, <1>7, <2>1, SendNowType, WakingStep
<1>8. CASE x.op = "recv" /\ RecvNow(x.ch) /\ sel' = [sel EXCEPT ![t] = NoSelect]
  <2>1. sel' \in [Tasks -> Selects]
    BY <1>6, <1>8
  <2> QED
    BY <1>4, <1>5, <1>8, <2>1, RecvNowType, WakingStep
<1>9. CASE /\ sel' = [sel EXCEPT ![t] = NoSelect] \/ sel' = [sel EXCEPT ![t].next = @ + 1]
           /\ UNCHANGED <<wakeVars, quietVars, buf, closed, destroyed>>
  <2>1. sel' \in [Tasks -> Selects]
    BY <1>6, <1>9
  <2>2. WakeType' /\ Roused(pc, pc') /\ UNCHANGED quietVars
    BY <1>5, <1>9, WakeTypeKept, RousedSame DEF wakeVars
  <2>3. /\ buf' \in [Chans -> Seq(Values)]
        /\ closed' \in [Chans -> BOOLEAN] /\ destroyed' \subseteq Chans
    BY <1>5, <1>9 DEF TypeOK, ChanType
  <2> QED
    BY <2>1, <2>2, <2>3, WakingStep
<1> QED
  BY Zenon, <1>7, <1>8, <1>9 DEF mt_select_try_case, x

\* Entering mt_select and returning from it without parking.
LEMMA EnterSelectType ==
    ASSUME TypeInv, NEW w \in Workers,
           (\E s \in SelectCalls : mt_select(w, s)) \/ mt_select_return(w)
    PROVE  TypeInv'
<1>1. /\ sel' \in [Tasks -> Selects]
      /\ UNCHANGED <<workerVars, runVars, countVars, state, ret, runq, timers, chanVars, handleVars>>
  <2>1. CASE \E s \in SelectCalls : mt_select(w, s)
    <3>1. PICK s \in SelectCalls : mt_select(w, s)
      BY <2>1
    <3>2. [call |-> s, next |-> 1] \in Selects
      BY DEF Selects
    <3> QED
      BY Zenon, <3>1, <3>2 DEF mt_select, TypeInv, TypeOK, TaskType
  <2>2. CASE mt_select_return(w)
    BY Zenon, <2>2 DEF mt_select_return, TypeInv, TypeOK, TaskType, Selects
  <2> QED
    BY <2>1, <2>2
<1>2. WorkerType' /\ RunType' /\ CountType' /\ TaskType' /\ HandleType' /\ BusyHasTask'
  BY <1>1 DEF TypeInv, TypeOK, WorkerType, RunType, CountType, TaskType, HandleType, BusyHasTask,
              workerVars, runVars, countVars, handleVars
<1>3. ChanType'
  BY <1>1 DEF TypeInv, TypeOK, ChanType, chanVars
<1> QED
  BY <1>2, <1>3 DEF TypeInv, TypeOK

\* A waiter of a select, with a value if it is to send one.
OfSelect(x) ==
    x.kind \in {"select_send", "select_recv"} /\ (x.kind = "select_send" => x.value \in Values)

\* The waiters that a parking select registers.
LEMMA SelectWaitersType ==
    ASSUME TypeInv, NEW w \in Workers, Selecting(w)
    PROVE  LET ws == SelectWaiters(current[w], sel[current[w]].call.cases)
           IN  /\ ws \in Seq(Waiters)
               /\ \A x \in Range(ws) : OfSelect(x)
<1> DEFINE t == current[w]
           cases == sel[t].call.cases
           ws == SelectWaiters(t, cases)
<1>1. /\ t \in Tasks /\ cases \in Seq(SelectCases)
      /\ \A i \in DOMAIN cases : cases[i].op = "send" => cases[i].value \in Values
  BY SelectingFacts
<1>2. ws = [i \in DOMAIN cases |->
              Waiter(t, cases[i].ch, SelectKind(cases[i].op), i, cases[i].value)]
  BY DEF SelectWaiters
<1> HIDE DEF t, cases, ws
<1>3. DOMAIN cases = 1 .. Len(cases) /\ Len(cases) \in Nat
  BY <1>1
<1>4. ASSUME NEW i \in 1 .. Len(cases)
      PROVE  ws[i] \in Waiters /\ OfSelect(ws[i])
  <2>1. cases[i] \in SelectCases /\ i \in Nat
    BY <1>1
  <2>2. /\ cases[i].op \in {"send", "recv"} /\ cases[i].ch \in Chans
        /\ cases[i].value \in Values \cup {NoValue}
    BY <2>1 DEF SelectCases
  <2>3. ws[i] = Waiter(t, cases[i].ch, SelectKind(cases[i].op), i, cases[i].value)
    BY <1>2, <1>3
  <2>4. SelectKind(cases[i].op) \in Kinds \cap {"select_send", "select_recv"}
    BY <2>2 DEF SelectKind, Kinds
  <2>5. SelectKind(cases[i].op) = "select_send" => cases[i].op = "send"
    BY <2>2 DEF SelectKind
  <2>6. cases[i].op = "send" => cases[i].value \in Values
    BY <1>1, <1>3
  <2> QED
    BY <1>1, <2>1, <2>2, <2>3, <2>4, <2>5, <2>6 DEF Waiter, Waiters, OfSelect
<1>5. ws \in Seq(Waiters) /\ Len(ws) = Len(cases)
  BY <1>2, <1>3, <1>4
<1>6. \A x \in Range(ws) : \E i \in 1 .. Len(ws) : ws[i] = x
  BY <1>5, RangeFacts
<1> QED
  BY Zenon, <1>4, <1>5, <1>6 DEF ws, cases, t

\* Registering waiters of a select keeps the type of the wait queues.
LEMMA RegisteredType ==
    ASSUME TypeInv, NEW ws \in Seq(Waiters), \A x \in Range(ws) : OfSelect(x)
    PROVE  /\ Registered(ws) \in [Chans -> [Kinds -> Seq(Waiters)]]
           /\ SendersOffer(Registered(ws))
<1> DEFINE wq == Registered(ws)
<1>1. ASSUME NEW c \in Chans, NEW k \in Kinds
      PROVE  /\ wq[c][k] \in Seq(Waiters)
             /\ Range(wq[c][k]) \subseteq Range(waitq[c][k]) \cup {x \in Range(ws) : x.kind = k}
  <2> DEFINE S == {x \in Range(ws) : x.ch = c /\ x.kind = k}
             ks == Keep(ws, S)
  <2>1. waitq[c][k] \in Seq(Waiters)
    BY DEF TypeInv, TypeOK, ChanType
  <2>2. ks \in Seq(Waiters) /\ Range(ks) = Range(ws) \cap S
    <3> HIDE DEF S
    <3> QED
      BY KeepFacts
  <2>3. wq[c][k] = waitq[c][k] \o ks
    BY DEF Registered
  <2> HIDE DEF ks, wq
  <2>4. waitq[c][k] \o ks \in Seq(Waiters) /\ Range(waitq[c][k] \o ks) = Range(waitq[c][k]) \cup Range(ks)
    BY <2>1, <2>2, ConcatFacts
  <2> QED
    BY <2>2, <2>3, <2>4
<1>2. wq \in [Chans -> [Kinds -> Seq(Waiters)]]
  <2>1. wq = [c \in Chans |-> [k \in Kinds |-> wq[c][k]]]
    BY DEF Registered
  <2> HIDE DEF wq
  <2> QED
    BY <1>1, <2>1
<1> HIDE DEF wq
<1>3. SendersOffer(wq)
  <2>1. SendersOffer(waitq)
    BY WakeTypeHolds DEF TypeInv, WakeType
  <2> QED
    BY <1>1, <2>1 DEF SendersOffer, Kinds, OfSelect
<1> QED
  BY <1>2, <1>3 DEF wq

LEMMA ParkSelectType ==
    ASSUME TypeInv, NEW w \in Workers, mt_select_park(w)
    PROVE  TypeInv'
<1> DEFINE t == current[w]
           ws == SelectWaiters(t, sel[t].call.cases)
<1>1. Selecting(w)
  BY DEF mt_select_park, MustPark
<1>2. t \in Tasks /\ pc[w] = "task" /\ sel \in [Tasks -> Selects]
  BY <1>1, SelectingFacts DEF TypeInv, TypeOK, TaskType
<1>3. ws \in Seq(Waiters) /\ \A x \in Range(ws) : OfSelect(x)
  BY <1>1, SelectWaitersType
<1>4. waitq' = Registered(ws)
  BY DEF mt_select_park
<1>5. WorkerType' /\ BusyHasTask'
  <2>1. pc \in [Workers -> WorkerPcs] /\ Roused(pc, pc) /\ current' = current
    BY DEF mt_select_park, Roused, TypeInv, TypeOK, WorkerType
  <2>2. mt_notify_all(pc) \in [Workers -> WorkerPcs] /\ Roused(pc, mt_notify_all(pc))
    BY <2>1, NotifyAllFacts
  <2>3. mt_ctx_switch(w, pc) \/ mt_ctx_switch(w, mt_notify_all(pc))
    BY DEF mt_select_park
  <2> QED
    BY <1>2, <2>1, <2>2, <2>3, SwitchStep
<1>6. RunType' /\ CountType' /\ HandleType'
  <2>1. /\ UNCHANGED <<runVars, live_count, running_tasks, join_waiting_count, handleVars>>
        /\ channel_waiting_count' = channel_waiting_count + 1
    BY Zenon DEF mt_select_park
  <2> QED
    BY <2>1 DEF TypeInv, TypeOK, RunType, CountType, HandleType, runVars, handleVars
<1>7. TaskType'
  <2>1. timers' \in Seq(Tasks)
    <3>1. timers \in Seq(Tasks)
      BY DEF TypeInv, TypeOK, TaskType
    <3>2. CASE timers' = timers
      BY <3>1, <3>2
    <3>3. CASE \E i \in 1 .. Len(timers) + 1 : timers' = Inserted(timers, i, t)
      <4>1. PICK i \in 1 .. Len(timers) + 1 : timers' = Inserted(timers, i, t)
        BY <3>3
      <4> HIDE DEF t
      <4> QED
        BY <1>2, <3>1, <4>1, InsertFacts
    <3> QED
      BY Zenon, <3>2, <3>3 DEF mt_select_park, mt_timer_push
  <2>2. sel' \in [Tasks -> Selects]
    BY Zenon, <1>2 DEF mt_select_park, Selects
  <2> QED
    BY Zenon, <2>1, <2>2 DEF mt_select_park, TypeInv, TypeOK, TaskType, States, Parked
<1> HIDE DEF ws, t
<1>8. waitq' \in [Chans -> [Kinds -> Seq(Waiters)]] /\ SendersOffer(waitq')
  BY <1>3, <1>4, RegisteredType
<1>9. ChanType'
  <2>1. \A d \in Chans, k \in {"send", "select_send"} : \A i \in 1 .. Len(waitq'[d][k]) :
            waitq'[d][k][i].value \in Values
    BY <1>8, SendersOfferFacts
  <2> QED
    BY Zenon, <1>8, <2>1 DEF mt_select_park, TypeInv, TypeOK, ChanType
<1> QED
  BY <1>5, <1>6, <1>7, <1>9 DEF TypeInv, TypeOK

\* A select that cannot be registered whole leaves the queues well typed.
LEMMA FailSelectType ==
    ASSUME TypeInv, NEW w \in Workers, mt_select_fails(w)
    PROVE  TypeInv'
<1> DEFINE t == current[w]
           ws == SelectWaiters(t, sel[t].call.cases)
<1>1. Selecting(w)
  BY DEF mt_select_fails, MustPark
<1>2. /\ sel' = [sel EXCEPT ![t] = NoSelect]
      /\ UNCHANGED <<workerVars, runVars, countVars, state, ret, runq, timers,
                     buf, closed, destroyed, handleVars>>
  BY Zenon DEF mt_select_fails
<1>3. PICK n \in 0 .. Len(ws) : waitq' = EntriesFreed(Registered(SubSeq(ws, 1, n)), {t})
  BY Zenon DEF mt_select_fails
<1>4. ws \in Seq(Waiters) /\ \A x \in Range(ws) : OfSelect(x)
  BY <1>1, SelectWaitersType
<1> HIDE DEF ws, t
<1>5. /\ waitq' \in [Chans -> [Kinds -> Seq(Waiters)]] /\ SendersOffer(waitq')
  <2> DEFINE front == SubSeq(ws, 1, n)
  <2>1. front \in Seq(Waiters) /\ Range(front) \subseteq Range(ws)
    BY <1>4, SplitFacts
  <2>2. waitq' = EntriesFreed(Registered(front), {t})
    BY <1>3
  <2> HIDE DEF front
  <2>3. /\ Registered(front) \in [Chans -> [Kinds -> Seq(Waiters)]]
        /\ SendersOffer(Registered(front))
    BY <1>4, <2>1, RegisteredType
  <2> QED
    BY <2>2, <2>3, EntriesFreedType
<1>6. ChanType'
  <2>1. \A d \in Chans, k \in {"send", "select_send"} : \A i \in 1 .. Len(waitq'[d][k]) :
            waitq'[d][k][i].value \in Values
    BY <1>5, SendersOfferFacts
  <2> QED
    BY Zenon, <1>2, <1>5, <2>1 DEF TypeInv, TypeOK, ChanType
<1>7. sel' \in [Tasks -> Selects]
  BY Zenon, <1>2 DEF TypeInv, TypeOK, TaskType, Selects
<1>8. WorkerType' /\ RunType' /\ CountType' /\ TaskType' /\ HandleType' /\ BusyHasTask'
  BY <1>2, <1>7 DEF TypeInv, TypeOK, WorkerType, RunType, CountType, TaskType, HandleType, BusyHasTask,
              workerVars, runVars, countVars, handleVars
<1> QED
  BY <1>6, <1>8 DEF TypeInv, TypeOK
-----------------------------------------------------------------------------
(* Handles, join and cancel                                                *)

\* ChanType does not depend on anything else.
LEMMA ChanTypeKept ==
    ASSUME ChanType, UNCHANGED chanVars
    PROVE  ChanType'
  BY DEF ChanType, chanVars

\* The end of a task.
LEMMA CompleteType ==
    ASSUME TypeOK, NEW t \in Tasks, NEW result \in {"DONE", "CANCELLED"},
           NEW q \in Seq(Tasks), NEW p \in [Workers -> WorkerPcs],
           mt_handle_complete(t, result, q, p)
    PROVE  /\ pc' \in [Workers -> WorkerPcs] /\ Roused(p, pc')
           /\ state' \in [Tasks -> States] /\ runq' \in Seq(Tasks)
           /\ live_count' \in Nat /\ join_waiting_count' \in Nat
           /\ ret' \in [Tasks -> Returns]
           /\ outcome' \in [Tasks -> {"pending", "DONE", "CANCELLED"}]
           /\ handle_freed' \in [Tasks -> BOOLEAN]
           /\ join_q' \in [Tasks -> Seq(Tasks)]
<1> DEFINE st == [state EXCEPT ![t] = "freed"]
           js == join_q[t]
<1>1. js \in Seq(Tasks) /\ st \in [Tasks -> States] /\ join_q \in [Tasks -> Seq(Tasks)]
      /\ ret \in [Tasks -> Returns] /\ live_count \in Nat /\ join_waiting_count \in Nat
  BY DEF TypeOK, HandleType, TaskType, States, CountType
<1>2. mt_task_mark_ready(st, q, p, js)
  BY DEF mt_handle_complete
<1>3. join_waiting_count' = Drop(join_waiting_count, Len(js)) /\ live_count' = Drop(live_count, 1)
  BY DEF mt_handle_complete
<1>4. ret' = [u \in Tasks |-> IF u \in Range(js)
                              THEN Return(IF result = "CANCELLED" THEN "CANCELLED" ELSE "OK",
                                          0, NoValue)
                              ELSE ret[u]]
  BY DEF mt_handle_complete
<1>5. join_q' \in [Tasks -> Seq(Tasks)]
  BY <1>1 DEF mt_handle_complete
<1>6. outcome' \in [Tasks -> {"pending", "DONE", "CANCELLED"}]
      /\ handle_freed' \in [Tasks -> BOOLEAN]
  BY DEF mt_handle_complete, TypeOK, HandleType
<1> HIDE DEF js, st
<1>7. /\ pc' \in [Workers -> WorkerPcs] /\ Roused(p, pc')
      /\ state' \in [Tasks -> States] /\ runq' \in Seq(Tasks)
  BY Zenon, <1>1, <1>2, MarkReadyType
<1>8. live_count' \in Nat /\ join_waiting_count' \in Nat
  <2>1. Len(js) \in Nat
    BY <1>1
  <2> QED
    BY <1>1, <1>3, <2>1, DropType
<1>9. ret' \in [Tasks -> Returns]
  <2>1. Return(IF result = "CANCELLED" THEN "CANCELLED" ELSE "OK", 0, NoValue) \in Returns
    BY ReturnType DEF Results
  <2> QED
    BY <1>1, <1>4, <2>1
<1> QED
  BY <1>5, <1>6, <1>7, <1>8, <1>9

\* Cancelling a task that is not READY wakes it as another event would; what
\* the seven cases of mt_task_wake_for_cancel leave behind.
LEMMA CancelCases ==
    ASSUME TypeOK, NEW t \in Tasks,
           \/ CancelReady(t)   \/ CancelSleeping(t) \/ CancelChannel(t)
           \/ CancelSelect(t)  \/ CancelJoin(t)     \/ CancelFd(t)  \/ CancelOther(t)
    PROVE  /\ WakeType' /\ Roused(pc, pc')
           /\ live_count' \in Nat /\ join_waiting_count' \in Nat
           /\ outcome' \in [Tasks -> {"pending", "DONE", "CANCELLED"}]
           /\ handle_freed' \in [Tasks -> BOOLEAN]
           /\ join_q' \in [Tasks -> Seq(Tasks)]
<1> DEFINE one == <<t>>
<1>1. WakeType
  BY WakeTypeHolds
<1>2. /\ live_count \in Nat /\ join_waiting_count \in Nat
      /\ outcome \in [Tasks -> {"pending", "DONE", "CANCELLED"}]
      /\ handle_freed \in [Tasks -> BOOLEAN] /\ join_q \in [Tasks -> Seq(Tasks)]
  BY DEF TypeOK, CountType, HandleType
<1>3. one \in Seq(Tasks)
  OBVIOUS
<1>4. ASSUME mt_task_mark_ready(state, runq, pc, one)
      PROVE  /\ state' \in [Tasks -> States] /\ runq' \in Seq(Tasks)
             /\ pc' \in [Workers -> WorkerPcs] /\ Roused(pc, pc')
  <2> HIDE DEF one
  <2> QED
    BY Zenon, <1>1, <1>3, <1>4, MarkReadyType DEF WakeType
<1>5. Return("CANCELLED", 0, NoValue) \in Returns
  BY ReturnType DEF Results
<1>6. CASE CancelReady(t)
  <2> DEFINE q == Without(runq, t)
  <2>1. q \in Seq(Tasks)
    BY <1>1, WithoutFacts DEF WakeType
  <2>2. mt_handle_complete(t, "CANCELLED", q, pc) /\ UNCHANGED <<timers, waitq, channel_waiting_count>>
    BY <1>6 DEF CancelReady
  <2>3. pc \in [Workers -> WorkerPcs]
    BY <1>1 DEF WakeType
  <2> HIDE DEF q
  <2>4. /\ pc' \in [Workers -> WorkerPcs] /\ Roused(pc, pc')
        /\ state' \in [Tasks -> States] /\ runq' \in Seq(Tasks)
        /\ live_count' \in Nat /\ join_waiting_count' \in Nat
        /\ ret' \in [Tasks -> Returns]
        /\ outcome' \in [Tasks -> {"pending", "DONE", "CANCELLED"}]
        /\ handle_freed' \in [Tasks -> BOOLEAN]
        /\ join_q' \in [Tasks -> Seq(Tasks)]
    BY <2>1, <2>2, <2>3, CompleteType
  <2> QED
    BY <1>1, <2>2, <2>4 DEF WakeType, SendersOffer
<1>7. CASE CancelSleeping(t)
  <2>1. /\ mt_task_mark_ready(state, runq, pc, one) /\ timers' = Without(timers, t)
        /\ UNCHANGED <<ret, waitq, live_count, channel_waiting_count, join_waiting_count,
                       outcome, handle_freed, join_q>>
    BY <1>7 DEF CancelSleeping
  <2>2. timers' \in Seq(Tasks)
    BY <1>1, <2>1, WithoutFacts DEF WakeType
  <2> QED
    BY <1>1, <1>2, <1>4, <2>1, <2>2 DEF WakeType, SendersOffer
<1>8. CASE CancelChannel(t)
  <2>1. /\ mt_task_mark_ready(state, runq, pc, one) /\ waitq' = mt_select_free_task_waiters({t})
        /\ channel_waiting_count' = Drop(channel_waiting_count, 2)
        /\ ret' = [ret EXCEPT ![t] = Return("CANCELLED", 0, NoValue)]
        /\ UNCHANGED <<timers, live_count, join_waiting_count, outcome, handle_freed, join_q>>
    BY <1>8 DEF CancelChannel
  <2>2. waitq' \in [Chans -> [Kinds -> Seq(Waiters)]] /\ SendersOffer(waitq')
    BY <2>1, FreeWaitersType
  <2>3. channel_waiting_count' \in Nat
    BY <1>1, <2>1, DropType DEF WakeType
  <2>4. ret' \in [Tasks -> Returns]
    BY <1>1, <1>5, <2>1 DEF WakeType
  <2> QED
    BY Zenon, <1>1, <1>2, <1>4, <2>1, <2>2, <2>3, <2>4 DEF WakeType, SendersOffer
<1>9. CASE CancelSelect(t)
  <2>1. /\ mt_select_unpark_task(t, "CANCELLED", 0, NoValue)
        /\ UNCHANGED <<live_count, join_waiting_count, outcome, handle_freed, join_q>>
    BY <1>9 DEF CancelSelect
  <2>2. WakeType' /\ Roused(pc, pc')
    BY <2>1, UnparkType DEF Results
  <2> QED
    BY <1>2, <2>1, <2>2
<1>10. CASE CancelJoin(t)
  <2>1. /\ mt_task_mark_ready(state, runq, pc, one) /\ join_q' = [u \in Tasks |-> Without(join_q[u], t)]
        /\ join_waiting_count' = Drop(join_waiting_count, 2)
        /\ ret' = [ret EXCEPT ![t] = Return("CANCELLED", 0, NoValue)]
        /\ UNCHANGED <<timers, waitq, live_count, channel_waiting_count, outcome, handle_freed>>
    BY Zenon, <1>10 DEF CancelJoin
  <2>2. \A u \in Tasks : Without(join_q[u], t) \in Seq(Tasks)
    BY <1>2, WithoutFacts
  <2>3. join_q' \in [Tasks -> Seq(Tasks)]
    BY <2>1, <2>2
  <2>4. join_waiting_count' \in Nat
    BY <1>2, <2>1, DropType
  <2>5. ret' \in [Tasks -> Returns]
    BY <1>1, <1>5, <2>1 DEF WakeType
  <2> QED
    BY <1>1, <1>2, <1>4, <2>1, <2>3, <2>4, <2>5 DEF WakeType, SendersOffer
<1>11. CASE CancelOther(t)
  <2>1. UNCHANGED wakeVars /\ UNCHANGED <<live_count, join_waiting_count, outcome, handle_freed, join_q>>
    BY <1>11 DEF CancelOther, wakeVars
  <2>2. WakeType' /\ Roused(pc, pc')
    BY <2>1, WakeTypeKept, RousedSame DEF wakeVars
  <2> QED
    BY <1>2, <2>1, <2>2
<1>12. CASE CancelFd(t)
  <2> DEFINE p == mt_notify_all(pc)
  <2>1. /\ mt_task_mark_ready(state, runq, p, one) /\ timers' = Without(timers, t)
        /\ UNCHANGED <<ret, waitq, live_count, channel_waiting_count, join_waiting_count,
                       outcome, handle_freed, join_q>>
    BY <1>12 DEF CancelFd
  <2>2. timers' \in Seq(Tasks)
    BY <1>1, <2>1, WithoutFacts DEF WakeType
  <2>3. p \in [Workers -> WorkerPcs] /\ Roused(pc, p)
    BY <1>1, NotifyAllFacts DEF WakeType
  <2> HIDE DEF one, p
  <2>4. /\ state' \in [Tasks -> States] /\ runq' \in Seq(Tasks)
        /\ pc' \in [Workers -> WorkerPcs] /\ Roused(p, pc')
    BY Zenon, <1>1, <1>3, <2>1, <2>3, MarkReadyType DEF WakeType
  <2>5. Roused(pc, pc')
    BY Zenon, <2>3, <2>4, RousedTwice
  <2> QED
    BY <1>1, <1>2, <2>1, <2>2, <2>4, <2>5 DEF WakeType, SendersOffer
<1> QED
  BY <1>6, <1>7, <1>8, <1>9, <1>10, <1>11, <1>12

LEMMA CancelType ==
    ASSUME TypeInv, NEW w, NEW t \in Tasks, mt_task_cancel(w, t)
    PROVE  TypeInv'
<1>1. /\ cancel_requested' = [cancel_requested EXCEPT ![t] = TRUE]
      /\ UNCHANGED <<lock, current, runVars, running_tasks, sel, buf, closed, destroyed, released>>
      /\ \/ CancelReady(t)   \/ CancelSleeping(t) \/ CancelChannel(t)
         \/ CancelSelect(t)  \/ CancelJoin(t)     \/ CancelFd(t)  \/ CancelOther(t)
  BY DEF mt_task_cancel
<1>2. /\ WakeType' /\ Roused(pc, pc')
      /\ live_count' \in Nat /\ join_waiting_count' \in Nat
      /\ outcome' \in [Tasks -> {"pending", "DONE", "CANCELLED"}]
      /\ handle_freed' \in [Tasks -> BOOLEAN]
      /\ join_q' \in [Tasks -> Seq(Tasks)]
  BY <1>1, CancelCases DEF TypeInv
<1>3. WorkerType' /\ RunType' /\ CountType' /\ TaskType'
  BY <1>1, <1>2 DEF TypeInv, TypeOK, WakeType, WorkerType, RunType, CountType, TaskType, runVars
<1>4. HandleType'
  BY Zenon, <1>1, <1>2 DEF TypeInv, TypeOK, HandleType
<1>5. ChanType'
  <2>1. waitq' \in [Chans -> [Kinds -> Seq(Waiters)]] /\ SendersOffer(waitq')
    BY <1>2 DEF WakeType, SendersOffer
  <2>2. \A c \in Chans, k \in {"send", "select_send"} : \A i \in 1 .. Len(waitq'[c][k]) :
            waitq'[c][k][i].value \in Values
    BY <2>1, SendersOfferFacts
  <2> QED
    BY Zenon, <1>1, <2>1, <2>2 DEF TypeInv, TypeOK, ChanType
<1>6. BusyHasTask'
  BY <1>1, <1>2 DEF TypeInv, TypeOK, WorkerType, BusyHasTask, Roused
<1> QED
  BY <1>3, <1>4, <1>5, <1>6 DEF TypeInv, TypeOK

LEMMA GoType ==
    ASSUME TypeInv, NEW w, NEW t \in Tasks, mt_go(w, t)
    PROVE  TypeInv'
<1> DEFINE one == <<t>>
<1>1. /\ mt_task_mark_ready(state, runq, pc, one) /\ live_count' = live_count + 1
      /\ UNCHANGED <<lock, current, runVars, running_tasks, channel_waiting_count,
                     join_waiting_count, ret, sel, timers, chanVars, handleVars>>
  BY DEF mt_go
<1>2. one \in Seq(Tasks)
  OBVIOUS
<1> HIDE DEF one
<1>3. /\ state' \in [Tasks -> States] /\ runq' \in Seq(Tasks)
      /\ pc' \in [Workers -> WorkerPcs] /\ Roused(pc, pc')
  BY Zenon, <1>1, <1>2, MarkReadyType DEF TypeInv, TypeOK, TaskType, WorkerType
<1>4. WorkerType' /\ BusyHasTask'
  BY <1>1, <1>3 DEF TypeInv, TypeOK, WorkerType, BusyHasTask, Roused
<1>5. RunType' /\ CountType' /\ HandleType'
  BY <1>1 DEF TypeInv, TypeOK, RunType, CountType, HandleType, runVars, handleVars
<1>6. TaskType'
  BY <1>1, <1>3 DEF TypeInv, TypeOK, TaskType
<1>7. ChanType'
  BY <1>1, ChanTypeKept DEF TypeInv, TypeOK
<1> QED
  BY <1>4, <1>5, <1>6, <1>7 DEF TypeInv, TypeOK

LEMMA ReleaseType ==
    ASSUME TypeInv, NEW w, NEW t \in Tasks, mt_task_handle_release(w, t)
    PROVE  TypeInv'
<1>1. /\ released' = [released EXCEPT ![t] = TRUE]
      /\ handle_freed' = [handle_freed EXCEPT ![t] = outcome[t] # "pending"]
      /\ UNCHANGED <<workerVars, runVars, countVars, taskVars, chanVars,
                     cancel_requested, outcome, join_q>>
  BY DEF mt_task_handle_release
<1>2. WorkerType' /\ RunType' /\ CountType' /\ TaskType' /\ BusyHasTask'
  BY <1>1 DEF TypeInv, TypeOK, WorkerType, RunType, CountType, TaskType, BusyHasTask,
              workerVars, runVars, countVars, taskVars
<1>3. ChanType'
  BY <1>1, ChanTypeKept DEF TypeInv, TypeOK
<1>4. HandleType'
  BY <1>1 DEF TypeInv, TypeOK, HandleType
<1> QED
  BY <1>2, <1>3, <1>4 DEF TypeInv, TypeOK

LEMMA JoinType ==
    ASSUME TypeInv, NEW w \in Workers, NEW t \in Tasks, mt_join(w, t)
    PROVE  TypeInv'
<1> DEFINE u == current[w]
<1>1. pc[w] = "task" /\ u \in Tasks
  BY DEF mt_join, Calls, TypeInv, BusyHasTask
<1>2. /\ state' = [state EXCEPT ![u] = "waiting_join"]
      /\ join_waiting_count' = join_waiting_count + 1
      /\ join_q' = [join_q EXCEPT ![t] = Append(@, u)]
      /\ mt_ctx_switch(w, pc) /\ current' = current
      /\ UNCHANGED <<runVars, live_count, running_tasks, channel_waiting_count>>
      /\ UNCHANGED <<ret, sel, runq, timers, chanVars, cancel_requested, released,
                     outcome, handle_freed>>
  BY DEF mt_join
<1>3. pc \in [Workers -> WorkerPcs] /\ Roused(pc, pc)
  BY DEF TypeInv, TypeOK, WorkerType, Roused
<1>4. WorkerType' /\ BusyHasTask'
  BY <1>1, <1>2, <1>3, SwitchStep
<1>5. RunType' /\ CountType'
  BY <1>2 DEF TypeInv, TypeOK, RunType, CountType, runVars
<1>6. TaskType'
  BY Zenon, <1>2 DEF TypeInv, TypeOK, TaskType, States, Parked
<1>7. HandleType'
  <2>1. HandleType
    BY Zenon DEF TypeInv, TypeOK
  <2>2. join_q' = [join_q EXCEPT ![t] = Append(@, u)]
    BY <1>2
  <2>3. UNCHANGED <<cancel_requested, released, outcome, handle_freed>>
    BY Zenon, <1>2
  <2>4. join_q' \in [Tasks -> Seq(Tasks)]
    <3>1. join_q \in [Tasks -> Seq(Tasks)] /\ u \in Tasks
      BY Zenon, <1>1, <2>1 DEF HandleType
    <3> HIDE DEF u
    <3> QED
      BY <2>2, <3>1, QueuedAppend
  <2> QED
    BY Zenon, <2>1, <2>3, <2>4 DEF HandleType
<1>8. ChanType'
  BY <1>2, ChanTypeKept DEF TypeInv, TypeOK
<1> QED
  BY <1>4, <1>5, <1>6, <1>7, <1>8 DEF TypeInv, TypeOK

-----------------------------------------------------------------------------
(* The scheduler                                                           *)

LEMMA LeavingType ==
    ASSUME TypeInv, NEW w \in Workers, Leaving(w)
    PROVE  TypeInv'
<1> DEFINE u == current[w]
<1>1. pc[w] = "task" /\ u \in Tasks
  BY Zenon DEF Leaving, mt_yield, mt_sleep_ms, mt_task_entry, Calls, TypeInv, BusyHasTask
<1>2. /\ mt_ctx_switch(w, pc) \/ mt_ctx_switch(w, mt_notify_all(pc))
      /\ timers' = timers \/ \E i \in 1 .. Len(timers) + 1 : timers' = Inserted(timers, i, u)
      /\ \E s \in {"ready", "sleeping", "dead"} : state' = [state EXCEPT ![u] = s]
      /\ UNCHANGED <<current, runVars, countVars, ret, sel, runq, chanVars, handleVars>>
  BY DEF Leaving, mt_yield, mt_sleep_ms, mt_task_entry, mt_timer_push
<1>3. /\ pc \in [Workers -> WorkerPcs] /\ Roused(pc, pc)
      /\ mt_notify_all(pc) \in [Workers -> WorkerPcs] /\ Roused(pc, mt_notify_all(pc))
  BY NotifyAllFacts DEF TypeInv, TypeOK, WorkerType, Roused
<1>4. WorkerType' /\ BusyHasTask'
  BY <1>1, <1>2, <1>3, SwitchStep
<1>5. timers' \in Seq(Tasks)
  <2>1. timers \in Seq(Tasks)
    BY DEF TypeInv, TypeOK, TaskType
  <2> HIDE DEF u
  <2>2. ASSUME NEW i \in 1 .. Len(timers) + 1, timers' = Inserted(timers, i, u)
        PROVE  timers' \in Seq(Tasks)
    BY <1>1, <2>1, <2>2, InsertFacts
  <2> QED
    BY <1>2, <2>1, <2>2
<1>6. state' \in [Tasks -> States]
  BY Zenon, <1>2 DEF TypeInv, TypeOK, TaskType, States, Parked
<1>7. RunType' /\ CountType' /\ HandleType'
  BY <1>2 DEF TypeInv, TypeOK, RunType, CountType, HandleType, runVars, countVars, handleVars
<1>8. TaskType'
  BY <1>2, <1>5, <1>6 DEF TypeInv, TypeOK, TaskType
<1>9. ChanType'
  BY <1>2, ChanTypeKept DEF TypeInv, TypeOK
<1> QED
  BY <1>4, <1>7, <1>8, <1>9 DEF TypeInv, TypeOK
LEMMA AfterSwitchType ==
    ASSUME TypeInv, NEW w \in Workers, mt_task_after_switch(w)
    PROVE  TypeInv'
<1> DEFINE t == current[w]
           p == [pc EXCEPT ![w] = "loop"]
           one == <<t>>
           result == IF cancel_requested[t] THEN "CANCELLED" ELSE "DONE"
<1>1. /\ pc[w] = "switched"
      /\ current' = [current EXCEPT ![w] = NoTask] /\ running_tasks' = Drop(running_tasks, 1)
      /\ UNCHANGED <<lock, runVars, channel_waiting_count, sel, timers, chanVars,
                     cancel_requested, released>>
  BY DEF mt_task_after_switch
<1>2. t \in Tasks
  BY <1>1 DEF TypeInv, BusyHasTask
<1>3. /\ TypeOK /\ p \in [Workers -> WorkerPcs] /\ one \in Seq(Tasks)
      /\ result \in {"DONE", "CANCELLED"} /\ pc \in [Workers -> WorkerPcs]
      /\ state \in [Tasks -> States] /\ runq \in Seq(Tasks)
      /\ ret \in [Tasks -> Returns] /\ live_count \in Nat /\ join_waiting_count \in Nat
  BY <1>2 DEF TypeInv, TypeOK, WorkerType, WorkerPcs, TaskType, CountType
<1>4. /\ outcome \in [Tasks -> {"pending", "DONE", "CANCELLED"}]
      /\ handle_freed \in [Tasks -> BOOLEAN] /\ join_q \in [Tasks -> Seq(Tasks)]
  BY DEF TypeInv, TypeOK, HandleType
<1>5. /\ pc' \in [Workers -> WorkerPcs] /\ Roused(p, pc')
      /\ state' \in [Tasks -> States] /\ runq' \in Seq(Tasks)
      /\ live_count' \in Nat /\ join_waiting_count' \in Nat
      /\ ret' \in [Tasks -> Returns]
      /\ outcome' \in [Tasks -> {"pending", "DONE", "CANCELLED"}]
      /\ handle_freed' \in [Tasks -> BOOLEAN]
      /\ join_q' \in [Tasks -> Seq(Tasks)]
  <2>1. CASE /\ mt_task_mark_ready(state, runq, p, one)
             /\ UNCHANGED <<live_count, join_waiting_count, ret, outcome, handle_freed, join_q>>
    <3> HIDE DEF p, one
    <3>1. /\ state' \in [Tasks -> States] /\ runq' \in Seq(Tasks)
          /\ pc' \in [Workers -> WorkerPcs] /\ Roused(p, pc')
      BY Zenon, <1>3, <2>1, MarkReadyType
    <3> QED
      BY Zenon, <1>3, <1>4, <2>1, <3>1
  <2>2. CASE /\ pc' = p
             /\ UNCHANGED <<state, runq, live_count, join_waiting_count, ret,
                            outcome, handle_freed, join_q>>
    <3> HIDE DEF p
    <3>1. Roused(p, pc')
      BY <2>2 DEF Roused
    <3> QED
      BY <1>3, <1>4, <2>2, <3>1
  <2>3. CASE mt_handle_complete(t, result, runq, p)
    <3> HIDE DEF p, result, t
    <3> QED
      BY <1>2, <1>3, <2>3, CompleteType
  <2> QED
    BY <2>1, <2>2, <2>3 DEF mt_task_after_switch
<1>6. WorkerType'
  BY Zenon, <1>1, <1>5 DEF TypeInv, TypeOK, WorkerType
<1>7. BusyHasTask'
  BY Zenon, <1>1, <1>3, <1>5 DEF TypeInv, TypeOK, WorkerType, BusyHasTask, Roused
<1>8. RunType' /\ CountType'
  BY <1>1, <1>5, DropType DEF TypeInv, TypeOK, RunType, CountType, runVars
<1>9. TaskType' /\ HandleType'
  BY <1>1, <1>5 DEF TypeInv, TypeOK, TaskType, HandleType
<1>10. ChanType'
  BY <1>1, ChanTypeKept DEF TypeInv, TypeOK
<1> QED
  BY <1>6, <1>7, <1>8, <1>9, <1>10 DEF TypeInv, TypeOK

LEMMA TurnType ==
    ASSUME TypeInv, NEW w \in Workers, WorkerTurns(w)
    PROVE  TypeInv'
<1> DEFINE p == [pc EXCEPT ![w] = "pick"]
<1>1. /\ lock' = w
      /\ UNCHANGED <<current, runVars, live_count, running_tasks, join_waiting_count, sel,
                     buf, closed, destroyed, handleVars>>
  BY DEF WorkerTurns
<1>2. PICK n \in 0 .. (IF stopping THEN 0 ELSE Len(timers)) : mt_wake_expired_timers(w, n)
  BY DEF WorkerTurns
<1>3. TypeOK /\ n \in 0 .. Len(timers)
  BY DEF TypeInv, TypeOK, TaskType
<1>4. WakeType' /\ Roused(p, pc')
  BY Zenon, <1>2, <1>3, WakeExpiredType
<1>5. WorkerType' /\ RunType' /\ CountType' /\ TaskType' /\ HandleType'
  BY <1>1, <1>4 DEF TypeInv, TypeOK, WakeType, WorkerType, RunType, CountType, TaskType,
                    HandleType, runVars, handleVars
<1>6. ChanType'
  <2>1. waitq' \in [Chans -> [Kinds -> Seq(Waiters)]] /\ SendersOffer(waitq')
    BY <1>4 DEF WakeType, SendersOffer
  <2>2. \A c \in Chans, k \in {"send", "select_send"} : \A i \in 1 .. Len(waitq'[c][k]) :
            waitq'[c][k][i].value \in Values
    BY <2>1, SendersOfferFacts
  <2> QED
    BY Zenon, <1>1, <2>1, <2>2 DEF TypeInv, TypeOK, ChanType
<1>7. BusyHasTask'
  BY <1>1, <1>4 DEF TypeInv, TypeOK, WorkerType, BusyHasTask, Roused
<1> QED
  BY <1>5, <1>6, <1>7 DEF TypeInv, TypeOK

LEMMA DispatchType ==
    ASSUME TypeInv, NEW w \in Workers, WorkerDispatches(w)
    PROVE  TypeInv'
<1> DEFINE t == Head(runq)
<1>1. /\ runq # <<>> /\ runq' = Tail(runq) /\ state' = [state EXCEPT ![t] = "running"]
      /\ ret' = [ret EXCEPT ![t] = NoReturn] /\ current' = [current EXCEPT ![w] = t]
      /\ running_tasks' = running_tasks + 1 /\ pc' = [pc EXCEPT ![w] = "task"] /\ lock' = Free
      /\ UNCHANGED <<runVars, live_count, channel_waiting_count, join_waiting_count,
                     sel, timers, chanVars, handleVars>>
  BY DEF WorkerDispatches
<1>2. runq \in Seq(Tasks)
  BY DEF TypeInv, TypeOK, TaskType
<1>3. t \in Tasks /\ Tail(runq) \in Seq(Tasks)
  BY <1>1, <1>2, PopFacts
<1> HIDE DEF t
<1>4. WorkerType' /\ BusyHasTask'
  BY <1>1, <1>3 DEF TypeInv, TypeOK, WorkerType, WorkerPcs, BusyHasTask
<1>5. RunType' /\ CountType' /\ HandleType'
  BY <1>1 DEF TypeInv, TypeOK, RunType, CountType, HandleType, runVars, handleVars
<1>6. NoReturn \in Returns
  BY ReturnType DEF NoReturn, Results
<1>7. TaskType'
  BY <1>1, <1>3, <1>6 DEF TypeInv, TypeOK, TaskType, States
<1>8. ChanType'
  BY <1>1, ChanTypeKept DEF TypeInv, TypeOK
<1> QED
  BY <1>4, <1>5, <1>7, <1>8 DEF TypeInv, TypeOK

\* Steps of the workers and of the run that touch no task.
LEMMA QuietStep ==
    ASSUME TypeInv, lock' \in Workers \cup {Free}, pc' \in [Workers -> WorkerPcs],
           \A w \in Workers : pc'[w] \in {"task", "switched"} => pc[w] = pc'[w],
           RunType', UNCHANGED <<current, countVars, taskVars, chanVars, handleVars>>
    PROVE  TypeInv'
<1>1. WorkerType' /\ BusyHasTask'
  BY DEF TypeInv, TypeOK, WorkerType, BusyHasTask
<1>2. CountType' /\ TaskType' /\ HandleType'
  BY DEF TypeInv, TypeOK, CountType, TaskType, HandleType, countVars, taskVars, handleVars
<1>3. ChanType'
  BY ChanTypeKept DEF TypeInv, TypeOK
<1> QED
  BY <1>1, <1>2, <1>3 DEF TypeInv, TypeOK

LEMMA QuietType ==
    ASSUME TypeInv, NEW w \in Workers,
           \/ WorkerStarts(w) \/ WorkerStops(w) \/ WorkerFinishes(w)
           \/ WorkerReportsDeadlock(w) \/ WorkerWaits(w) \/ CondWaitReturns(w)
    PROVE  TypeInv'
<1> DEFINE all == mt_notify_all(pc)
<1>1. lock \in Workers \cup {Free} /\ pc \in [Workers -> WorkerPcs] /\ RunType
  BY DEF TypeInv, TypeOK, WorkerType
<1>2. all \in [Workers -> WorkerPcs] /\ Roused(pc, all)
  BY <1>1, NotifyAllFacts
<1>3. UNCHANGED <<current, countVars, taskVars, chanVars, handleVars>>
  BY DEF WorkerStarts, WorkerStops, WorkerFinishes, WorkerReportsDeadlock, WorkerWaits,
         CondWaitReturns
<1>4. RunType'
  BY Zenon, <1>1 DEF WorkerStarts, WorkerStops, WorkerFinishes, WorkerReportsDeadlock, WorkerWaits, CondWaitReturns,
              runVars, RunType
<1>5. lock' \in {lock, Free}
  BY DEF WorkerStarts, WorkerStops, WorkerFinishes, WorkerReportsDeadlock, WorkerWaits,
         CondWaitReturns, Leave
<1>6. \E s \in {"exited", "cond_wait", "timed_wait", "loop"} :
          pc' = [pc EXCEPT ![w] = s] \/ pc' = [all EXCEPT ![w] = s]
  BY DEF WorkerStarts, WorkerStops, WorkerFinishes, WorkerReportsDeadlock, WorkerWaits,
         CondWaitReturns, Leave
<1> HIDE DEF all
<1>7. /\ pc' \in [Workers -> WorkerPcs]
      /\ \A x \in Workers : pc'[x] \in {"task", "switched"} => pc[x] = pc'[x]
  BY <1>1, <1>2, <1>6 DEF WorkerPcs, Asleep, Roused
<1> QED
  BY <1>1, <1>3, <1>4, <1>5, <1>7, QuietStep

LEMMA RunStepType ==
    ASSUME TypeInv, StartFails \/ RunReturns \/ mt_run_internal \/ ShutdownStops
    PROVE  TypeInv'
<1>1. lock \in Workers \cup {Free} /\ pc \in [Workers -> WorkerPcs] /\ RunType
  BY DEF TypeInv, TypeOK, WorkerType
<1> DEFINE all == mt_notify_all(pc)
<1>2. all \in [Workers -> WorkerPcs] /\ Roused(pc, all)
  BY <1>1, NotifyAllFacts
<1>3. UNCHANGED <<lock, current, countVars, taskVars, chanVars, handleVars>>
  BY DEF StartFails, NoThreadArray, ThreadNotCreated, RunReturns, mt_run_internal, ShutdownStops, workerVars
<1>4. RunType'
  BY Zenon, <1>1 DEF StartFails, NoThreadArray, ThreadNotCreated, RunReturns, mt_run_internal, ShutdownStops, RunType
<1>5. \/ pc' = pc \/ pc' = all
      \/ \E s \in {"starting", "exited"} : pc' = [w \in Workers |-> s]
      \/ \E S : pc' = [w \in Workers |-> IF w \in S THEN "exited" ELSE all[w]]
  BY DEF StartFails, NoThreadArray, ThreadNotCreated, RunReturns, mt_run_internal, ShutdownStops, workerVars
<1> HIDE DEF all
<1>6. /\ pc' \in [Workers -> WorkerPcs]
      /\ \A x \in Workers : pc'[x] \in {"task", "switched"} => pc[x] = pc'[x]
  BY <1>1, <1>2, <1>5 DEF WorkerPcs, Roused
<1> QED
  BY <1>1, <1>3, <1>4, <1>6, QuietStep

LEMMA ShutdownType ==
    ASSUME TypeInv, mt_shutdown
    PROVE  TypeInv'
<1>1. CASE ShutdownStops
  BY <1>1, RunStepType
<1>2. CASE TearsDown /\ RuntimeReset
  <2>1. WorkerType' /\ RunType' /\ BusyHasTask'
    BY Zenon, <1>2 DEF TearsDown, RuntimeReset, TypeInv, TypeOK, WorkerType, RunType, BusyHasTask, workerVars
  <2>2. CountType'
    BY <1>2 DEF RuntimeReset, CountType
  <2>3. TaskType'
    <3>1. state' \in [Tasks -> States]
      BY <1>2 DEF TearsDown, States
    <3>2. ret' \in [Tasks -> Returns] /\ sel' \in [Tasks -> Selects]
      BY Zenon, <1>2 DEF TearsDown, TypeInv, TypeOK, TaskType
    <3>3. runq' \in Seq(Tasks) /\ timers' \in Seq(Tasks)
      BY <1>2 DEF RuntimeReset
    <3> QED BY <3>1, <3>2, <3>3 DEF TaskType
  <2>4. ChanType'
    <3>1. buf' \in [Chans -> Seq(Values)] /\ destroyed' \subseteq Chans
      BY Zenon, <1>2 DEF TearsDown, TypeInv, TypeOK, ChanType
    <3>2. closed' \in [Chans -> BOOLEAN]
      BY <1>2 DEF TearsDown
    <3>3. waitq' = [c \in Chans |-> [k \in Kinds |-> <<>>]]
      BY <1>2 DEF TearsDown
    <3>4. waitq' \in [Chans -> [Kinds -> Seq(Waiters)]]
      BY <3>3
    <3>5. \A c \in Chans, k \in {"send", "select_send"} : waitq'[c][k] = <<>>
      BY <3>3 DEF Kinds
    <3>6. \A c \in Chans, k \in {"send", "select_send"} : \A i \in 1 .. Len(waitq'[c][k]) :
             waitq'[c][k][i].value \in Values
      BY <3>5
    <3> QED BY <3>1, <3>2, <3>4, <3>6 DEF ChanType
  <2>5. HandleType'
    BY <1>2 DEF TearsDown, TypeInv, TypeOK, HandleType
  <2> QED
    BY <2>1, <2>2, <2>3, <2>4, <2>5 DEF TypeInv, TypeOK
<1> QED
  BY <1>1, <1>2 DEF mt_shutdown

-----------------------------------------------------------------------------
LEMMA StutterType ==
    TypeInv /\ UNCHANGED vars => TypeInv'
<1> SUFFICES ASSUME TypeInv, UNCHANGED vars PROVE TypeInv'
  OBVIOUS
<1>1. lock \in Workers \cup {Free} /\ pc \in [Workers -> WorkerPcs] /\ RunType
  BY DEF TypeInv, TypeOK, WorkerType
<1>2. lock' = lock /\ pc' = pc /\ UNCHANGED <<current, countVars, taskVars, chanVars, handleVars>>
  BY DEF vars, workerVars
<1>3. RunType'
  BY <1>1 DEF vars, runVars, RunType
<1> QED
  BY <1>1, <1>2, <1>3, QuietStep

LEMMA NextType ==
    TypeInv /\ [Next]_vars => TypeInv'
<1> SUFFICES ASSUME TypeInv, Next PROVE TypeInv'
  BY StutterType
<1>1. ASSUME NEW w \in Workers, Scheduling(w) PROVE TypeInv'
  BY <1>1, AfterSwitchType, TurnType, DispatchType, QuietType DEF Scheduling
<1>2. ASSUME NEW w \in Workers, CondWaitReturns(w) PROVE TypeInv'
  BY <1>2, QuietType
<1>3. ASSUME NEW w \in Workers, Leaving(w) PROVE TypeInv'
  BY <1>3, LeavingType
<1>4. ASSUME NEW w \in Workers, SelectStep(w) PROVE TypeInv'
  BY <1>4, TryCaseType, EnterSelectType, FailSelectType, ParkSelectType DEF SelectStep
<1>5. ASSUME NEW w \in Workers, NEW s \in SelectCalls, mt_select(w, s) PROVE TypeInv'
  BY <1>5, EnterSelectType
<1>6. ASSUME NEW w \in Callers, Channelling(w) PROVE TypeInv'
  BY <1>6, ChannellingType
<1>7. ASSUME NEW w \in Callers, Handling(w) PROVE TypeInv'
  <2>1. PICK t \in Tasks : \/ mt_go(w, t) \/ mt_join(w, t)
                           \/ mt_task_cancel(w, t) \/ mt_task_handle_release(w, t)
    BY <1>7 DEF Handling
  <2>2. mt_join(w, t) => w \in Workers
    BY Zenon DEF mt_join
  <2> QED
    BY <2>1, <2>2, GoType, JoinType, CancelType, ReleaseType
<1>8. CASE StartFails \/ RunReturns \/ mt_run_internal \/ mt_shutdown
  BY <1>8, RunStepType, ShutdownType
<1> QED
  BY <1>1, <1>2, <1>3, <1>4, <1>5, <1>6, <1>7, <1>8 DEF Next

\* In every run of the runtime, with any number of workers, tasks, channels
\* and capacities, every variable keeps its type: no counter wraps, no queue
\* holds anything but tasks or waiters, and a parked sender offers a value.
THEOREM TypeCorrect == Spec => []TypeOK
<1>1. Init => TypeInv
  BY InitTypeInv
<1>2. TypeInv /\ [Next]_vars => TypeInv'
  BY NextType
<1>3. TypeInv => TypeOK
  BY DEF TypeInv
<1> QED
  BY <1>1, <1>2, <1>3, PTL DEF Spec
=============================================================================
