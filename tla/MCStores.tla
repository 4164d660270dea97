------------------------------ MODULE MCStores ------------------------------
(***************************************************************************)
(* The ring buffer, the linked list and the timer heap side by side, on    *)
(* small instances.  They share no state: a behaviour uses one of them.    *)
(* The sizes of stacks are pure and only have their assumption evaluated.  *)
(***************************************************************************)
EXTENDS MtRing, MtLists, MtTimers, MtStack

VARIABLE store    \* the one it uses

storeVars == <<store, ringVars, listVars, timerVars>>

StoresInit ==
    /\ store \in {"ring", "list", "heap"} /\ RingInit /\ ListInit /\ TimersInit
    /\ store # "ring" => buffer = [i \in DOMAIN buffer |-> CHOOSE v \in Payloads : TRUE]

StoresNext ==
    \/ store = "ring" /\ RingNext /\ UNCHANGED <<store, listVars, timerVars>>
    \/ store = "list" /\ ListNext /\ UNCHANGED <<store, ringVars, timerVars>>
    \/ store = "heap" /\ TimersNext /\ UNCHANGED <<store, ringVars, listVars>>

StoresSpec == StoresInit /\ [][StoresNext]_storeVars
=============================================================================
