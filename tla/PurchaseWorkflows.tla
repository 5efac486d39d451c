-------------------------- MODULE PurchaseWorkflows --------------------------
(***************************************************************************)
(* The marketplace workflows of SensFlow                                   *)
(* (sensflow/application/marketplace_workflows.py): buying for a Client    *)
(* Order, synchronizing an attempt with RBXCrate, replacing it, cancelling *)
(* it and force closing it, all running concurrently.                      *)
(*                                                                         *)
(* Every operation is one coroutine ("task") of the asyncio process: the   *)
(* automation loop, or the handler of one Telegram update.  An operation   *)
(* opens a database transaction, locks the client_orders row (SELECT ...   *)
(* FOR UPDATE) and commits at the end; the row lock is held across the     *)
(* HTTP calls made in between.  RBXCrate is a separate system: what it     *)
(* accepted stays accepted when the transaction rolls back, and what it    *)
(* was asked to create it may still create when the caller has given up.   *)
(* The model therefore has one step for sending a request to create and    *)
(* one for its answer, one for a call that cancels, and writes the         *)
(* database only in the step that commits; Abort and Crash may come        *)
(* between any two steps, and a request may be executed after them.        *)
(*                                                                         *)
(* Attempts.  A marketplace_orders row is named by its rbxcreate_order_id, *)
(* which is unique: id 0 of an order is str(order.id), the id start_purchase*)
(* sends every time; ids 1..MaxRequeues are the uuid4 values the           *)
(* replacements of that order draw.                                        *)
(***************************************************************************)
EXTENDS Naturals

CONSTANTS
    Orders,        \* Client Orders
    Tasks,         \* coroutines that may run an operation
    MaxRequeues,   \* bound on the uuids one order's replacements may use
    NoTask,        \* "the row is not locked"
    NoId           \* "no attempt"

ASSUME RequeuesAssumption == MaxRequeues \in Nat
ASSUME NoTaskAssumption == NoTask \notin Tasks
ASSUME NoIdAssumption == NoId \notin Nat

VARIABLES
    status,    \* client_orders.current_status
    cost,      \* the attempt whose price is in client_orders.marketplace_cost
    attempt,   \* marketplace_orders.marketplace_status, "none" if there is no row
    remote,    \* what RBXCrate holds under each id
    requested, \* the ids RBXCrate was ever sent a request to create
    lock,      \* holder of the client_orders row lock
    task       \* program counter and locals of each coroutine

vars == <<status, cost, attempt, remote, requested, lock, task>>
database == <<status, cost, attempt>>

Ids == 0 .. MaxRequeues

OrderStatus == {"draft", "preorder", "purchasing",
                "completed", "cancelled", "force_closed"}
Terminal == {"completed", "cancelled", "force_closed"}
AttemptStatus == {"none", "active", "completed", "cancelled", "force_closed"}
RemoteStatus == {"absent", "active", "completed", "cancelled"}

(***************************************************************************)
(* Where a coroutine stands.  Only the first five hold the row lock.       *)
(***************************************************************************)
LockedPc == {"startCreate", "startRecord",
             "requeueCancel", "requeueCreate", "requeueRecord"}
UnlockedPc == {"fastStart", "syncLock", "cancelRemote", "cancelRecord"}

Idle == [pc |-> "idle"]
Job(pc, o, n, old) == [pc |-> pc, order |-> o, id |-> n, old |-> old]

ALLOWED_TRANSITIONS ==
    [draft        |-> {"preorder", "purchasing", "cancelled"},
     preorder     |-> {"purchasing", "completed", "cancelled", "force_closed"},
     purchasing   |-> {"preorder", "completed", "cancelled", "force_closed"},
     completed    |-> {},
     cancelled    |-> {},
     force_closed |-> {}]

CanMove(o, target) == target \in ALLOWED_TRANSITIONS[status[o]]

IsActive(o, n) == attempt[o][n] = "active"
HasActive(o) == \E n \in Ids : IsActive(o, n)

Free(o) == lock[o] = NoTask

Init ==
    /\ status = [o \in Orders |-> "draft"]
    /\ cost = [o \in Orders |-> NoId]
    /\ attempt = [o \in Orders |-> [n \in Ids |-> "none"]]
    /\ remote = [o \in Orders |-> [n \in Ids |-> "absent"]]
    /\ requested = [o \in Orders |-> {}]
    /\ lock = [o \in Orders |-> NoTask]
    /\ task = [t \in Tasks |-> Idle]

(***************************************************************************)
(* Ways for a coroutine to move on                                         *)
(***************************************************************************)
Goto(t, job) == task' = [task EXCEPT ![t] = job]
Continue(t, pc) == Goto(t, Job(pc, task[t].order, task[t].id, task[t].old))
Finish(t) == Goto(t, Idle)
Acquire(t, o) == Free(o) /\ lock' = [lock EXCEPT ![o] = t]
Release(o) == lock' = [lock EXCEPT ![o] = NoTask]

\* The transaction is rolled back: nothing it wrote was ever visible.
RollBack(t) == Finish(t) /\ Release(task[t].order) /\ UNCHANGED <<database, requested>>

(***************************************************************************)
(* RBXCrate's side.  A creation is accepted at most once per id (409       *)
(* otherwise); a cancellation works only on an active order (422           *)
(* otherwise).  Either may take effect without the caller learning it: the *)
(* response is lost or unusable, or comes after the caller's timeout.      *)
(***************************************************************************)
RemoteCreates(o, n) ==
    /\ remote[o][n] = "absent"
    /\ remote' = [remote EXCEPT ![o][n] = "active"]
RemoteCancels(o, n) ==
    /\ remote[o][n] = "active"
    /\ remote' = [remote EXCEPT ![o][n] = "cancelled"]

\* A request to create n is on its way to RBXCrate, where it stays executable.
Requests(o, n) == requested' = [requested EXCEPT ![o] = @ \cup {n}]
\* A fresh uuid4: an id RBXCrate has never heard of.
IsFresh(o, n) == n \in Ids \ {0} /\ n \notin requested[o]

\* The replacement is asked for under a fresh id.
AskReplacement(t) ==
    \E n \in Ids :
        /\ IsFresh(task[t].order, n)
        /\ Requests(task[t].order, n)
        /\ Goto(t, Job("requeueCreate", task[t].order, n, task[t].old))

\* start_purchase is run by the operator from idle, or by fast_requeue on the automation
\* loop, which looked at the order in an earlier session.
MayStart(t, o) ==
    \/ task[t] = Idle
    \/ task[t].pc = "fastStart" /\ task[t].order = o

-----------------------------------------------------------------------------
(***************************************************************************)
(* Defective variants of operations below, one per property.  No behaviour *)
(* of the specification uses them: each takes the place of the operation   *)
(* it is named after to show that the property notices.                    *)
(***************************************************************************)

\* The row is not locked while RBXCrate is called.
StartPurchaseUnlocked(t, o) ==
    /\ MayStart(t, o)
    /\ status[o] \in {"draft", "preorder"}
    /\ ~HasActive(o)
    /\ Requests(o, 0)
    /\ Goto(t, Job("startCreate", o, 0, NoId))
    /\ UNCHANGED <<database, remote, lock>>

\* Only attempts of Purchasing orders are polled.
SyncReadPurchasing(t, o, n) ==
    /\ task[t] = Idle
    /\ status[o] = "purchasing"
    /\ IsActive(o, n)
    /\ Goto(t, Job("syncLock", o, n, NoId))
    /\ UNCHANGED <<database, remote, requested, lock>>

\* The state machine is not asked before the order is put back.
ApplyCancelledUnchecked(o, n) ==
    /\ remote[o][n] = "cancelled"
    /\ attempt' = [attempt EXCEPT ![o][n] = "cancelled"]
    /\ status' = [status EXCEPT ![o] = "preorder"]
    /\ UNCHANGED cost

\* The order is not put back when its attempt was cancelled.
ApplyCancelledKeepingOrder(o, n) ==
    /\ remote[o][n] = "cancelled"
    /\ CanMove(o, "preorder")
    /\ attempt' = [attempt EXCEPT ![o][n] = "cancelled"]
    /\ UNCHANGED <<status, cost>>

\* The attempt's word for the outcome is written to the order.
ApplyCompletedWrongWord(o, n) ==
    /\ remote[o][n] = "completed"
    /\ CanMove(o, "completed")
    /\ attempt' = [attempt EXCEPT ![o][n] = "completed"]
    /\ status' = [status EXCEPT ![o] = "active"]
    /\ UNCHANGED cost

\* The row is not locked while the attempt is replaced.
RequeueBeginUnlocked(t, o) ==
    /\ task[t] = Idle
    /\ status[o] = "purchasing"
    /\ \E n \in Ids :
        /\ IsActive(o, n)
        /\ remote[o][n] = "active"
        /\ Goto(t, Job("requeueCancel", o, n, n))
    /\ UNCHANGED <<database, remote, requested, lock>>

\* The replacement is created whether or not the cancellation was confirmed.
RequeueCancelledUnconfirmed(t) ==
    /\ task[t].pc = "requeueCancel"
    /\ AskReplacement(t)
    /\ UNCHANGED <<database, remote, lock>>

\* The replaced attempt is left active.
RequeueRecordedTwice(t) ==
    LET o == task[t].order
    IN  /\ task[t].pc = "requeueRecord"
        /\ attempt' = [attempt EXCEPT ![o][task[t].id] = "active"]
        /\ Release(o)
        /\ Finish(t)
        /\ UNCHANGED <<status, cost, remote, requested>>

\* An unsuccessful cancellation call counts as confirmed.
CancelConfirmedAnyway(t) ==
    /\ task[t].pc = "cancelRemote"
    /\ Continue(t, "cancelRecord")
    /\ UNCHANGED <<database, remote, requested, lock>>

\* The order is cancelled without a look at its attempts.
CancelLocallyRegardless(t, o) ==
    /\ task[t] = Idle
    /\ Free(o)
    /\ CanMove(o, "cancelled")
    /\ status' = [status EXCEPT ![o] = "cancelled"]
    /\ UNCHANGED <<cost, attempt, remote, requested, lock, task>>

\* The order is closed and its attempt forgotten.
ForceCloseKeepingAttempt(o) ==
    /\ Free(o)
    /\ CanMove(o, "force_closed")
    /\ status' = [status EXCEPT ![o] = "force_closed"]
    /\ UNCHANGED <<cost, attempt, remote, requested, lock, task>>

-----------------------------------------------------------------------------
(***************************************************************************)
(* start_purchase: a paid Draft, or a PreOrder for which stock appeared.   *)
(***************************************************************************)
\* Stock was found and no attempt is active: RBXCrate is asked to create, and the row stays
\* locked until the answer or the last timeout.
StartPurchase(t, o) ==
    /\ MayStart(t, o)
    /\ status[o] \in {"draft", "preorder"}
    /\ ~HasActive(o)
    /\ Acquire(t, o)
    /\ Requests(o, 0)
    /\ Goto(t, Job("startCreate", o, 0, NoId))
    /\ UNCHANGED <<database, remote>>

\* No offer satisfies the order's rate and quantity: a Draft becomes a PreOrder.
StartWithoutStock(t, o) ==
    /\ MayStart(t, o)
    /\ Free(o)
    /\ status[o] = "draft"
    /\ status' = [status EXCEPT ![o] = "preorder"]
    /\ Finish(t)
    /\ UNCHANGED <<cost, attempt, remote, requested, lock>>

\* RBXCrate accepted the order and the answer arrived.
StartCreated(t) ==
    /\ task[t].pc = "startCreate"
    /\ RemoteCreates(task[t].order, task[t].id)
    /\ Continue(t, "startRecord")
    /\ UNCHANGED <<database, requested, lock>>

\* Commit: Purchasing, with one active attempt.
StartRecorded(t) ==
    LET o == task[t].order
        n == task[t].id
    IN  /\ task[t].pc = "startRecord"
        /\ attempt[o][n] = "none"
        /\ status' = [status EXCEPT ![o] = "purchasing"]
        /\ attempt' = [attempt EXCEPT ![o][n] = "active"]
        /\ Release(o)
        /\ Finish(t)
        /\ UNCHANGED <<cost, remote, requested>>

\* fast_requeue's own session saw a PreOrder without an active attempt.
FastTrigger(t, o) ==
    /\ task[t] = Idle
    /\ status[o] = "preorder"
    /\ ~HasActive(o)
    /\ Goto(t, Job("fastStart", o, NoId, NoId))
    /\ UNCHANGED <<database, remote, requested, lock>>

-----------------------------------------------------------------------------
(***************************************************************************)
(* synchronize_marketplace_order.  The attempt is first read without a     *)
(* lock, only to learn its order; the second, locking read returns the     *)
(* same identity-mapped object, whose attributes SQLAlchemy does not       *)
(* refresh.  So the coroutine goes on with the status it saw first         *)
(* ("active" here: the other values return early), while the order is      *)
(* read fresh under the lock.                                              *)
(***************************************************************************)
SyncRead(t, o, n) ==
    /\ task[t] = Idle
    /\ IsActive(o, n)
    /\ Goto(t, Job("syncLock", o, n, NoId))
    /\ UNCHANGED <<database, remote, requested, lock>>

\* _apply_synchronization, "completed": the price comes from the snapshot, or else
\* from an earlier observation.
ApplyCompleted(o, n) ==
    /\ remote[o][n] = "completed"
    /\ CanMove(o, "completed")
    /\ \/ cost' = [cost EXCEPT ![o] = n]
       \/ cost[o] # NoId /\ UNCHANGED cost
    /\ attempt' = [attempt EXCEPT ![o][n] = "completed"]
    /\ status' = [status EXCEPT ![o] = "completed"]

\* _apply_synchronization, any other final status: back to the paid waiting state.
ApplyCancelled(o, n) ==
    /\ remote[o][n] = "cancelled"
    /\ CanMove(o, "preorder")
    /\ attempt' = [attempt EXCEPT ![o][n] = "cancelled"]
    /\ status' = [status EXCEPT ![o] = "preorder"]
    /\ UNCHANGED cost

\* _apply_synchronization, still active: an observed price is remembered.
ApplyActive(o, n) ==
    /\ remote[o][n] = "active"
    /\ status[o] = "purchasing"
    /\ cost' = [cost EXCEPT ![o] = n]
    /\ UNCHANGED <<status, attempt>>

SyncApply(t) ==
    LET o == task[t].order
        n == task[t].id
    IN  /\ task[t].pc = "syncLock"
        /\ Free(o)
        /\ status[o] \notin {"completed", "force_closed"}
        /\ ApplyCompleted(o, n) \/ ApplyCancelled(o, n) \/ ApplyActive(o, n)
        /\ Finish(t)
        /\ UNCHANGED <<remote, requested, lock>>

-----------------------------------------------------------------------------
(***************************************************************************)
(* _requeue_active (manual_requeue and automatic_requeue): poll, cancel,   *)
(* confirm and replace one attempt in a single transaction.                *)
(***************************************************************************)

\* The poll found the attempt finished: its result is applied instead.
RequeueSettles(t, o) ==
    /\ task[t] = Idle
    /\ Free(o)
    /\ status[o] = "purchasing"
    /\ \E n \in Ids : IsActive(o, n) /\ (ApplyCompleted(o, n) \/ ApplyCancelled(o, n))
    /\ UNCHANGED <<remote, requested, lock, task>>

RequeueBegin(t, o) ==
    /\ task[t] = Idle
    /\ status[o] = "purchasing"
    /\ \E n \in Ids :
        /\ IsActive(o, n)
        /\ remote[o][n] = "active"
        /\ Goto(t, Job("requeueCancel", o, n, n))
    /\ Acquire(t, o)
    /\ UNCHANGED <<database, remote, requested>>

\* The cancellation is confirmed, and RBXCrate asked to create the replacement.
RequeueCancelled(t) ==
    /\ task[t].pc = "requeueCancel"
    /\ RemoteCancels(task[t].order, task[t].old)
    /\ AskReplacement(t)
    /\ UNCHANGED <<database, lock>>

\* 422, or an error: the attempt is retained, whatever RBXCrate did.
RequeueNotCancelled(t) ==
    /\ task[t].pc = "requeueCancel"
    /\ UNCHANGED remote \/ RemoteCancels(task[t].order, task[t].old)
    /\ RollBack(t)

RequeueCreated(t) ==
    /\ task[t].pc = "requeueCreate"
    /\ RemoteCreates(task[t].order, task[t].id)
    /\ Continue(t, "requeueRecord")
    /\ UNCHANGED <<database, requested, lock>>

\* Commit: the old attempt is cancelled, the replacement active, the order Purchasing
\* (it went through PreOrder inside the transaction).
RequeueRecorded(t) ==
    LET o == task[t].order
    IN  /\ task[t].pc = "requeueRecord"
        /\ attempt' = [attempt EXCEPT ![o][task[t].old] = "cancelled",
                                      ![o][task[t].id] = "active"]
        /\ Release(o)
        /\ Finish(t)
        /\ UNCHANGED <<status, cost, remote, requested>>

-----------------------------------------------------------------------------
(***************************************************************************)
(* cancel_active_purchase: unlike the others it calls RBXCrate between two *)
(* transactions, with no lock held.                                        *)
(***************************************************************************)

\* First transaction, an attempt is active: remember it and let the lock go.
CancelBegin(t, o) ==
    /\ task[t] = Idle
    /\ Free(o)
    /\ \E n \in Ids : IsActive(o, n) /\ Goto(t, Job("cancelRemote", o, n, NoId))
    /\ UNCHANGED <<database, remote, requested, lock>>

\* First transaction, nothing is active: the Client Order itself is cancelled.
CancelLocally(t, o) ==
    /\ task[t] = Idle
    /\ Free(o)
    /\ ~HasActive(o)
    /\ CanMove(o, "cancelled")
    /\ status' = [status EXCEPT ![o] = "cancelled"]
    /\ UNCHANGED <<cost, attempt, remote, requested, lock, task>>

CancelConfirmed(t) ==
    /\ task[t].pc = "cancelRemote"
    /\ RemoteCancels(task[t].order, task[t].id)
    /\ Continue(t, "cancelRecord")
    /\ UNCHANGED <<database, requested, lock>>

\* The call took effect but raised, or a retry of it was answered with 422.
CancelUnconfirmed(t) ==
    /\ task[t].pc = "cancelRemote"
    /\ RemoteCancels(task[t].order, task[t].id)
    /\ Finish(t)
    /\ UNCHANGED <<database, requested, lock>>

\* Second transaction: cancel attempt and order, unless the attempt changed meanwhile.
CancelRecorded(t) ==
    LET o == task[t].order
        n == task[t].id
    IN  /\ task[t].pc = "cancelRecord"
        /\ Free(o)
        /\ IsActive(o, n)
        /\ CanMove(o, "preorder")
        /\ attempt' = [attempt EXCEPT ![o][n] = "cancelled"]
        /\ status' = [status EXCEPT ![o] = "cancelled"]
        /\ Finish(t)
        /\ UNCHANGED <<cost, remote, requested, lock>>

-----------------------------------------------------------------------------
(***************************************************************************)
(* Operations of one transaction and no call to RBXCrate                   *)
(***************************************************************************)

\* force_close
ForceClose(o) ==
    /\ Free(o)
    /\ CanMove(o, "force_closed")
    /\ attempt' = [attempt EXCEPT ![o] =
                    [n \in Ids |-> IF @[n] = "active" THEN "force_closed" ELSE @[n]]]
    /\ status' = [status EXCEPT ![o] = "force_closed"]
    /\ UNCHANGED <<cost, remote, requested, lock, task>>

\* OrderService.send_to_preorder
SendToPreorder(o) ==
    /\ Free(o)
    /\ status[o] = "draft"
    /\ status' = [status EXCEPT ![o] = "preorder"]
    /\ UNCHANGED <<cost, attempt, remote, requested, lock, task>>

\* OrderService.delete_draft
DeleteDraft(o) ==
    /\ Free(o)
    /\ status[o] = "draft"
    /\ status' = [status EXCEPT ![o] = "cancelled"]
    /\ UNCHANGED <<cost, attempt, remote, requested, lock, task>>

-----------------------------------------------------------------------------
(***************************************************************************)
(* Failures and the environment                                            *)
(***************************************************************************)

\* The operation ends early: a guard of the source returns, or an exception (a call that
\* timed out, an unusable answer) rolls its transaction back.
Abort(t) ==
    /\ task[t] # Idle
    /\ Finish(t)
    /\ lock' = [o \in Orders |-> IF lock[o] = t THEN NoTask ELSE lock[o]]
    /\ UNCHANGED <<database, remote, requested>>

\* The process dies: every coroutine and every open transaction is gone.
Crash ==
    /\ \E t \in Tasks : task[t] # Idle
    /\ task' = [t \in Tasks |-> Idle]
    /\ lock' = [o \in Orders |-> NoTask]
    /\ UNCHANGED <<database, remote, requested>>

RemoteCompletes(o, n) ==
    /\ remote[o][n] = "active"
    /\ remote' = [remote EXCEPT ![o][n] = "completed"]
    /\ UNCHANGED <<database, requested, lock, task>>

\* RBXCrate gives up on an order by itself ("Cancelled" or "Error"), or executes a request
\* to cancel whose caller has given up.
RemoteFails(o, n) ==
    /\ RemoteCancels(o, n)
    /\ UNCHANGED <<database, requested, lock, task>>

\* RBXCrate creates what it was asked for, and the caller does not learn of it: its request
\* timed out, the answer was a 5xx or unusable, or the process died.  The client repeats the
\* request; when it gives up, or RBXCrate is slow, the order is created after the rollback,
\* whatever has become of the Client Order since.
RemoteExecutes(o, n) ==
    /\ n \in requested[o]
    /\ RemoteCreates(o, n)
    /\ UNCHANGED <<database, requested, lock, task>>

-----------------------------------------------------------------------------
StartStep(t) ==
    \/ \E o \in Orders : StartPurchase(t, o) \/ StartWithoutStock(t, o) \/ FastTrigger(t, o)
    \/ StartCreated(t) \/ StartRecorded(t)

SyncStep(t) ==
    \/ \E o \in Orders, n \in Ids : SyncRead(t, o, n)
    \/ SyncApply(t)

RequeueStep(t) ==
    \/ \E o \in Orders : RequeueSettles(t, o) \/ RequeueBegin(t, o)
    \/ RequeueCancelled(t) \/ RequeueNotCancelled(t)
    \/ RequeueCreated(t) \/ RequeueRecorded(t)

CancelStep(t) ==
    \/ \E o \in Orders : CancelBegin(t, o) \/ CancelLocally(t, o)
    \/ CancelConfirmed(t) \/ CancelUnconfirmed(t) \/ CancelRecorded(t)

RemoteStep ==
    \E o \in Orders, n \in Ids :
        RemoteCompletes(o, n) \/ RemoteFails(o, n) \/ RemoteExecutes(o, n)

Next ==
    \/ \E t \in Tasks :
        StartStep(t) \/ SyncStep(t) \/ RequeueStep(t) \/ CancelStep(t) \/ Abort(t)
    \/ \E o \in Orders : ForceClose(o) \/ SendToPreorder(o) \/ DeleteDraft(o)
    \/ RemoteStep
    \/ Crash

Spec == Init /\ [][Next]_vars

(***************************************************************************)
(* Fairness.  run_synchronization_pass goes over all active attempts again *)
(* and again while the process runs, a crashed process is restarted, and a *)
(* row lock is held for finitely many calls, each bounded by a timeout: so *)
(* an attempt that stays active is again and again read while its order is *)
(* free, and of infinitely many polls that could book a delivery not all   *)
(* fail.  Operations end; operators and RBXCrate owe nothing.              *)
(***************************************************************************)
SyncReadFree(o, n) == Free(o) /\ \E t \in Tasks : SyncRead(t, o, n)
SyncBooks(o, n) ==
    \E t \in Tasks : task[t].pc = "syncLock" /\ task[t].order = o /\ task[t].id = n
                   /\ SyncApply(t)

Fairness ==
    /\ \A t \in Tasks : WF_vars(Abort(t))
    /\ \A o \in Orders, n \in Ids :
        SF_vars(SyncReadFree(o, n)) /\ SF_vars(SyncBooks(o, n))

FairSpec == Spec /\ Fairness

-----------------------------------------------------------------------------
(***************************************************************************)
(* Properties                                                              *)
(***************************************************************************)

\* Every variable has the shape the tables, the row locks and the coroutines give it.
TypeOK ==
    /\ status \in [Orders -> OrderStatus]
    /\ cost \in [Orders -> Ids \cup {NoId}]
    /\ attempt \in [Orders -> [Ids -> AttemptStatus]]
    /\ remote \in [Orders -> [Ids -> RemoteStatus]]
    /\ requested \in [Orders -> SUBSET Ids]
    /\ lock \in [Orders -> Tasks \cup {NoTask}]
    /\ task \in [Tasks -> {Idle}
                 \cup [pc : LockedPc \cup UnlockedPc, order : Orders,
                       id : Ids \cup {NoId}, old : Ids \cup {NoId}]]

\* Only one Marketplace Order is active for one Client Order, although the checks and
\* the inserts of start_purchase and _requeue_active lie calls to RBXCrate apart.
OneActiveAttempt ==
    \A o \in Orders : \A m, n \in Ids : IsActive(o, m) /\ IsActive(o, n) => m = n

\* A Purchasing order always has an attempt being executed: no interleaving, rollback or
\* crash leaves the orphan that startup recovery is written to repair.
PurchasingIsBacked ==
    \A o \in Orders : status[o] = "purchasing" => HasActive(o)

\* A finished order has no attempt left that automation would go on polling and replacing,
\* and it is completed exactly when one of its attempts is.
FinishedIsSettled ==
    \A o \in Orders :
        /\ status[o] \in Terminal => ~HasActive(o)
        /\ status[o] = "completed" <=> \E n \in Ids : attempt[o][n] = "completed"

\* What the database says of an attempt was said by RBXCrate first: a row is never marked
\* cancelled before the cancellation is confirmed, nor completed before the delivery.
LocalMatchesRemote ==
    \A o \in Orders, n \in Ids :
        /\ attempt[o][n] # "none" => remote[o][n] # "absent"
        /\ attempt[o][n] = "cancelled" => remote[o][n] = "cancelled"
        /\ attempt[o][n] = "completed" => remote[o][n] = "completed"

\* RBXCrate never works on, or has delivered, two purchases for the same Client Order,
\* counting the ones the database knows nothing of and the ones executed late.
OneLivePurchase ==
    \A o \in Orders : \A m, n \in Ids :
        {remote[o][m], remote[o][n]} \subseteq {"active", "completed"} => m = n

\* Once RBXCrate has taken an order, no unique index of marketplace_orders can refuse the
\* row that records it.
CreationIsRecordable ==
    \A t \in Tasks :
        /\ task[t].pc = "startRecord" =>
            attempt[task[t].order][task[t].id] = "none" /\ ~HasActive(task[t].order)
        /\ task[t].pc = "requeueRecord" =>
            attempt[task[t].order][task[t].id] = "none" /\ IsActive(task[t].order, task[t].old)

\* A coroutine waits for RBXCrate to create n for order o.
AwaitsCreation(t, o, n) ==
    /\ task[t].pc \in {"startCreate", "requeueCreate"}
    /\ task[t].order = o
    /\ task[t].id = n

\* What RBXCrate creates for an order that is already finished is a stray: a request made
\* while the order was open, which its caller has given up, executed after the order was
\* cancelled or force closed.  Nobody asks, or waits, for a purchase of a finished order, and
\* nothing is created any more, not even late, for an order that was delivered.
LatePurchasesAreStray ==
    [][\A o \in Orders, n \in Ids :
        remote[o][n] = "absent" /\ remote'[o][n] # "absent" /\ status[o] \in Terminal =>
            /\ status[o] # "completed"
            /\ \A t \in Tasks : ~AwaitsCreation(t, o, n)]_vars

\* A finished order or attempt never changes again, even by a coroutine that read it
\* before it finished.
FinishedStaysFinished ==
    [][\A o \in Orders :
        /\ status[o] \in Terminal => status'[o] = status[o] /\ cost'[o] = cost[o]
        /\ \A n \in Ids :
            attempt[o][n] \in Terminal => attempt'[o][n] = attempt[o][n]]_vars

\* The workflows implement the order life cycle.
Lifecycle == INSTANCE OrderLifecycle WITH
    working <- [o \in Orders |-> {n \in Ids : IsActive(o, n)}],
    delivered <- [o \in Orders |-> {n \in Ids : attempt[o][n] = "completed"}]

\* Every committed change is one the life cycle allows, and nothing else is visible.
ImplementsLifecycle == Lifecycle!Spec

\* A purchase RBXCrate delivered for an attempt the database knows is eventually booked, also
\* when the order was put back to PreOrder meanwhile (or the operator force closes it).
DeliveredIsBooked ==
    \A o \in Orders, n \in Ids :
        (IsActive(o, n) /\ remote[o][n] = "completed") ~> ~IsActive(o, n)

(***************************************************************************)
(* What the documents say and the code does not do                         *)
(***************************************************************************)

\* "The operator SHALL always be able to manually cancel a Client Order": when RBXCrate
\* confirmed the cancellation and the attempt is still the active one, the second
\* transaction of cancel_active_purchase can commit.
CancelCanCommit ==
    \A t \in Tasks :
        task[t].pc = "cancelRecord" /\ IsActive(task[t].order, task[t].id) =>
            CanMove(task[t].order, "preorder")

\* "Marketplace Orders MAY be recreated unlimited times until completion": a waiting order
\* without an attempt can be bought, so the id start_purchase sends is still unused.
RecreationPossible ==
    \A o \in Orders :
        status[o] = "preorder" /\ ~HasActive(o) /\ Free(o) => remote[o][0] = "absent"

=============================================================================
