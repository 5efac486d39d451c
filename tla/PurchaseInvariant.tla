-------------------------- MODULE PurchaseInvariant --------------------------
(***************************************************************************)
(* The inductive invariant of PurchaseWorkflows.  Its safety invariants    *)
(* are not inductive by themselves: what a coroutine saw before it called  *)
(* RBXCrate has to be known still to hold after the call.  TaskKnows says  *)
(* so for every program counter, and HoldsLock why: whoever writes an      *)
(* order row, or asks RBXCrate to create something for it, holds its lock. *)
(* RBXCrate may act on a request long after that lock is gone: that it     *)
(* never works on two purchases is kept by what may still be executed      *)
(* (OneMayBeLive), not by what has been.                                   *)
(***************************************************************************)
EXTENDS PurchaseWorkflows

\* A coroutine in the middle of a locked transaction owns the row it locked.
HoldsLock ==
    \A t \in Tasks : task[t].pc \in LockedPc => lock[task[t].order] = t

\* The status of an order agrees with the history of its attempts.
HistoryMatchesStatus ==
    \A o \in Orders, n \in Ids :
        /\ status[o] = "draft" => attempt[o][n] = "none"
        /\ attempt[o][n] = "force_closed" => status[o] = "force_closed"

\* RBXCrate holds only what it was asked for.
OnlyRequested ==
    \A o \in Orders, n \in Ids : remote[o][n] # "absent" => n \in requested[o]

\* Id 0 is the first an order uses: replacements are asked for only after it was executed.
FirstIdFirst ==
    \A o \in Orders, n \in Ids : n \in requested[o] /\ n # 0 => remote[o][0] # "absent"

\* Asked for, and not cancelled: RBXCrate works on it, has delivered it, or may yet create it.
MayBeLive(o, n) == n \in requested[o] /\ remote[o][n] # "cancelled"

\* At most one purchase of an order is or may become live.
OneMayBeLive ==
    \A o \in Orders : \A m, n \in Ids : MayBeLive(o, m) /\ MayBeLive(o, n) => m = n

\* What a coroutine knows at each program counter.
KnowsOf(pc, o, n, old) ==
    /\ pc \in {"startCreate", "startRecord"} =>
        /\ n = 0
        /\ status[o] \in {"draft", "preorder"}
        /\ \A m \in Ids : ~IsActive(o, m)
    /\ pc = "startCreate" => n \in requested[o]
    /\ pc = "startRecord" => attempt[o][n] = "none" /\ remote[o][n] # "absent"
    /\ pc \in {"requeueCancel", "requeueCreate", "requeueRecord"} =>
        /\ old \in Ids
        /\ status[o] = "purchasing"
        /\ IsActive(o, old)
    /\ pc \in {"requeueCreate", "requeueRecord"} => remote[o][old] = "cancelled"
    /\ pc = "requeueCreate" => n \in Ids /\ n \in requested[o]
    /\ pc = "requeueRecord" =>
        n \in Ids /\ attempt[o][n] = "none" /\ remote[o][n] # "absent"
    /\ pc \in {"syncLock", "cancelRemote"} => n \in Ids /\ attempt[o][n] # "none"
    /\ pc = "cancelRecord" => n \in Ids /\ remote[o][n] = "cancelled"

TaskKnows ==
    \A t \in Tasks :
        task[t] # Idle => KnowsOf(task[t].pc, task[t].order, task[t].id, task[t].old)

\* The parts about orders alone, and the parts about coroutines.
OrdersInv ==
    /\ OneActiveAttempt
    /\ PurchasingIsBacked
    /\ FinishedIsSettled
    /\ LocalMatchesRemote
    /\ OneMayBeLive
    /\ HistoryMatchesStatus
    /\ OnlyRequested
    /\ FirstIdFirst
TasksInv == HoldsLock /\ TaskKnows

\* The strengthening: it holds initially and every step preserves it.
IInv == TypeOK /\ OrdersInv /\ TasksInv

=============================================================================
