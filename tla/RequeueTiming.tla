----------------------------- MODULE RequeueTiming -----------------------------
(***************************************************************************)
(* When SensFlow may ask RBXCrate about an attempt, and when automation    *)
(* may replace one (sensflow/application/marketplace_workflows.py): the    *)
(* fresh-purchase guard, the status check cooldown, the backoff after HTTP *)
(* 429, the growing requeue delay and the limit on attempts per day.       *)
(*                                                                         *)
(* The orders are those of one customer, all Purchasing with an attempt    *)
(* that stays active: what RBXCrate does with it is PurchaseWorkflows'     *)
(* subject.  Time is counted in units; it may pass between any two steps,  *)
(* also while a coroutine waits for a row lock or for RBXCrate.            *)
(***************************************************************************)
EXTENDS Naturals, Sequences, FiniteSetsExt

CONSTANTS
    Orders,       \* Client Orders of one customer
    Tasks,        \* coroutines that may run an operation
    Automation,   \* the one of them that is the automation loop
    MaxTime,      \* bound on the clock
    MaxWait,      \* how long the first purchases may have waited for their orders' rows
    FreshGuard,   \* FRESH_PURCHASE_GUARD_SECONDS
    Cooldown,     \* STATUS_CHECK_COOLDOWN_SECONDS
    Backoff,      \* STATUS_CHECK_BACKOFF_SECONDS, a sequence
    Window,       \* MARKETPLACE_ATTEMPT_WINDOW
    DelayTiers,   \* pairs <<last attempt number, delay>> of marketplace_requeue_delay_seconds
    NoTime,       \* a timestamp that is not set
    NoTask        \* "not locked"

ASSUME OrdersAssumption == IsFiniteSet(Orders)
ASSUME BoundsAssumption ==
    /\ {MaxTime, FreshGuard, Cooldown, Window} \subseteq Nat \ {0}
    /\ MaxWait \in 0 .. MaxTime
ASSUME BackoffAssumption == Backoff \in Seq(Nat) /\ Backoff # <<>>
ASSUME TiersAssumption ==
    /\ DelayTiers \in Seq((Nat \ {0}) \X Nat)
    /\ \A i, j \in DOMAIN DelayTiers :
         i < j => DelayTiers[i][1] < DelayTiers[j][1] /\ DelayTiers[i][2] <= DelayTiers[j][2]
ASSUME NoTimeAssumption == NoTime \notin Nat
ASSUME TaskAssumption == Automation \in Tasks /\ NoTask \notin Tasks

VARIABLES
    now,         \* the clock
    auto,        \* client_orders.automatic_requeue_enabled
    requeuedAt,  \* client_orders.last_requeue_at
    createdAt,   \* created_at of the active attempt: when its transaction began
    started,     \* purchase_started_at of the active attempt; it tells attempts apart
    guards,      \* status check columns of the active attempt
    created,     \* created_at of the customer's marketplace_orders rows, oldest insertion first
    rowLock,     \* holder of each client_orders row
    customerLock,\* holder of the customers row
    task         \* program counter and locals of each coroutine

vars == <<now, auto, requeuedAt, createdAt, started, guards, created,
          rowLock, customerLock, task>>
persisted == <<auto, requeuedAt, createdAt, started, guards, created>>

Time == 0 .. MaxTime
Limit == IF DelayTiers = <<>> THEN 0 ELSE DelayTiers[Len(DelayTiers)][1]

NeverChecked == [checked |-> NoTime, until |-> NoTime, limited |-> 0]
Idle == [pc |-> "idle"]

\* marketplace_requeue_delay_seconds: the tier of an attempt number; none above the limit.
HasDelay(k) == k <= Limit
RequeueDelay(k) ==
    DelayTiers[Min({i \in DOMAIN DelayTiers : k <= DelayTiers[i][1]})][2]

\* count_created_for_username_since
CountSince(rows, since) == Cardinality({n \in DOMAIN rows : rows[n] >= since})

Since(time, span) == IF time > span THEN time - span ELSE 0

\* The persisted guards of _get_order_info_if_due have elapsed.
Due(start, g, time) ==
    /\ time - start >= FreshGuard
    /\ g.until # NoTime => time >= g.until
    /\ g.checked # NoTime => time - g.checked >= Cooldown

Answered(time) == [checked |-> time, until |-> NoTime, limited |-> 0]
RateLimited(g, time) ==
    [checked |-> time,
     until   |-> time + Backoff[Min({g.limited + 1, Len(Backoff)})],
     limited |-> g.limited + 1]

\* Every order has just been bought for.  The transaction of start_purchase began at 0, where
\* the database puts created_at; the clock of purchase_started_at was read once the order's
\* row was locked.
Init ==
    /\ now = MaxWait
    /\ auto = [o \in Orders |-> TRUE]
    /\ requeuedAt = [o \in Orders |-> NoTime]
    /\ createdAt = [o \in Orders |-> 0]
    /\ started \in [Orders -> 0 .. MaxWait]
    /\ guards = [o \in Orders |-> NeverChecked]
    /\ created = [n \in 1 .. Cardinality(Orders) |-> 0]
    /\ rowLock = [o \in Orders |-> NoTask]
    /\ customerLock = NoTask
    /\ task = [t \in Tasks |-> Idle]

Free(o) == rowLock[o] = NoTask
Goto(t, job) == task' = [task EXCEPT ![t] = job]

\* The transaction ends, by commit or rollback.
EndTransaction(t) ==
    /\ Goto(t, Idle)
    /\ rowLock' = [o \in Orders |-> IF rowLock[o] = t THEN NoTask ELSE rowLock[o]]
    /\ customerLock' = IF customerLock = t THEN NoTask ELSE customerLock
    /\ UNCHANGED now

Tick ==
    /\ now < MaxTime
    /\ now' = now + 1
    /\ UNCHANGED <<persisted, rowLock, customerLock, task>>

\* Defective: the attempts made are not counted up to the next one.
NextAttemptUncounted(t) == CountSince(created, Since(task[t].now, Window))

\* The number the next attempt of this customer would have today.
NextAttempt(t) == CountSince(created, Since(task[t].now, Window)) + 1

Anchor(o) == IF requeuedAt[o] # NoTime THEN requeuedAt[o] ELSE createdAt[o]

-----------------------------------------------------------------------------
(***************************************************************************)
(* Defective variants, to see each property fail.                          *)
(***************************************************************************)
\* The order is read without locking it.
RequeueLockOrderUnlocked(t) ==
    LET o == task[t].order
    IN  /\ task[t].pc = "requeueLock"
        /\ t = Automation => auto[o]
        /\ now - started[o] >= FreshGuard
        /\ Goto(t, [pc |-> "requeueCustomer", order |-> o, opened |-> task[t].opened, now |-> now])
        /\ UNCHANGED <<now, persisted, rowLock, customerLock>>

\* The customer is not locked while RBXCrate is asked.
RequeuePollUnlocked(t) ==
    LET o == task[t].order
    IN  /\ task[t].pc = "requeueCustomer"
        /\ t = Automation =>
             /\ HasDelay(NextAttempt(t))
             /\ task[t].now - Anchor(o) >= RequeueDelay(NextAttempt(t))
        /\ Due(started[o], guards[o], now)
        /\ Goto(t, [pc |-> "requeueAnswer", order |-> o, opened |-> task[t].opened, asked |-> now])
        /\ UNCHANGED <<now, persisted, rowLock, customerLock>>

-----------------------------------------------------------------------------
(***************************************************************************)
(* synchronize_marketplace_order.  The attempt is read before its order is *)
(* locked, and the locking read does not refresh it: the guards a          *)
(* coroutine goes by are those it saw first.                               *)
(***************************************************************************)
SyncRead(t, o) ==
    /\ task[t] = Idle
    /\ Goto(t, [pc |-> "syncLock", order |-> o, started |-> started[o], guards |-> guards[o]])
    /\ UNCHANGED <<now, persisted, rowLock, customerLock>>

\* The guards have elapsed: RBXCrate is asked, with the order locked.
SyncPoll(t) ==
    LET o == task[t].order
    IN  /\ task[t].pc = "syncLock"
        /\ Free(o)
        /\ Due(task[t].started, task[t].guards, now)
        /\ rowLock' = [rowLock EXCEPT ![o] = t]
        /\ Goto(t, [pc |-> "syncAnswer", order |-> o, started |-> task[t].started,
                    guards |-> task[t].guards, asked |-> now])
        /\ UNCHANGED <<now, persisted, customerLock>>

\* The answer, or 429, is written to the attempt that was asked about.
SyncAnswer(t) ==
    LET o == task[t].order
    IN  /\ task[t].pc = "syncAnswer"
        /\ \E g \in {Answered(task[t].asked), RateLimited(task[t].guards, task[t].asked)} :
             guards' = [guards EXCEPT ![o] = IF started[o] = task[t].started THEN g ELSE @]
        /\ EndTransaction(t)
        /\ UNCHANGED <<auto, requeuedAt, createdAt, started, created>>

-----------------------------------------------------------------------------
(***************************************************************************)
(* _requeue_active.  The clock is read once the order is locked, before    *)
(* the customer is; the new row's created_at is the start of the           *)
(* transaction.                                                            *)
(***************************************************************************)
RequeueOpen(t, o) ==
    /\ task[t] = Idle
    /\ Goto(t, [pc |-> "requeueLock", order |-> o, opened |-> now])
    /\ UNCHANGED <<now, persisted, rowLock, customerLock>>

\* The order is locked, still enrolled, and its attempt is old enough.
RequeueLockOrder(t) ==
    LET o == task[t].order
    IN  /\ task[t].pc = "requeueLock"
        /\ Free(o)
        /\ t = Automation => auto[o]
        /\ now - started[o] >= FreshGuard
        /\ rowLock' = [rowLock EXCEPT ![o] = t]
        /\ Goto(t, [pc |-> "requeueCustomer", order |-> o, opened |-> task[t].opened, now |-> now])
        /\ UNCHANGED <<now, persisted, customerLock>>

\* The day's attempts are used up: automation is switched off for the order.
RequeueExhausted(t) ==
    LET o == task[t].order
    IN  /\ task[t].pc = "requeueCustomer"
        /\ customerLock = NoTask
        /\ t = Automation
        /\ ~HasDelay(NextAttempt(t))
        /\ auto' = [auto EXCEPT ![o] = FALSE]
        /\ EndTransaction(t)
        /\ UNCHANGED <<requeuedAt, createdAt, started, guards, created>>

\* The delay has elapsed and the status may be checked: RBXCrate is asked, customer locked.
RequeuePoll(t) ==
    LET o == task[t].order
    IN  /\ task[t].pc = "requeueCustomer"
        /\ customerLock = NoTask
        /\ t = Automation =>
             /\ HasDelay(NextAttempt(t))
             /\ task[t].now - Anchor(o) >= RequeueDelay(NextAttempt(t))
        /\ Due(started[o], guards[o], now)
        /\ customerLock' = t
        /\ Goto(t, [pc |-> "requeueAnswer", order |-> o, opened |-> task[t].opened, asked |-> now])
        /\ UNCHANGED <<now, persisted, rowLock>>

\* 429, no suitable stock, or 422 to the cancellation: the attempt is retained.
RequeueRetained(t) ==
    LET o == task[t].order
    IN  /\ task[t].pc = "requeueAnswer"
        /\ \E g \in {Answered(task[t].asked), RateLimited(guards[o], task[t].asked)} :
             guards' = [guards EXCEPT ![o] = g]
        /\ EndTransaction(t)
        /\ UNCHANGED <<auto, requeuedAt, createdAt, started, created>>

\* The attempt was cancelled and replaced: a new row, with guards of its own.
RequeueReplaced(t) ==
    LET o == task[t].order
    IN  /\ task[t].pc = "requeueAnswer"
        /\ createdAt' = [createdAt EXCEPT ![o] = task[t].opened]
        /\ started' = [started EXCEPT ![o] = now]
        /\ requeuedAt' = [requeuedAt EXCEPT ![o] = now]
        /\ guards' = [guards EXCEPT ![o] = NeverChecked]
        /\ created' = Append(created, task[t].opened)
        /\ EndTransaction(t)
        /\ UNCHANGED auto

-----------------------------------------------------------------------------
\* An early return, or an exception that rolls the transaction back.
GiveUp(t) ==
    /\ task[t] # Idle
    /\ EndTransaction(t)
    /\ UNCHANGED persisted

\* OrderService.toggle_auto_requeue
Toggle(o) ==
    /\ Free(o)
    /\ auto' = [auto EXCEPT ![o] = ~@]
    /\ UNCHANGED <<now, requeuedAt, createdAt, started, guards, created,
                   rowLock, customerLock, task>>

Next ==
    \/ Tick
    \/ \E t \in Tasks :
        \/ \E o \in Orders : SyncRead(t, o) \/ RequeueOpen(t, o)
        \/ SyncPoll(t) \/ SyncAnswer(t)
        \/ RequeueLockOrder(t) \/ RequeueExhausted(t) \/ RequeuePoll(t)
        \/ RequeueRetained(t) \/ RequeueReplaced(t)
        \/ GiveUp(t)
    \/ \E o \in Orders : Toggle(o)

Spec == Init /\ [][Next]_vars

-----------------------------------------------------------------------------
\* Every variable has the shape its column, lock or coroutine gives it.
TypeOK ==
    /\ now \in Time
    /\ auto \in [Orders -> BOOLEAN]
    /\ requeuedAt \in [Orders -> Time \cup {NoTime}]
    /\ createdAt \in [Orders -> Time]
    /\ started \in [Orders -> Time]
    /\ \A o \in Orders :
        /\ guards[o].checked \in Time \cup {NoTime}
        /\ guards[o].until \in Nat \cup {NoTime}
        /\ guards[o].limited \in Nat
    /\ created \in Seq(Time)
    /\ rowLock \in [Orders -> Tasks \cup {NoTask}]
    /\ customerLock \in Tasks \cup {NoTask}

Replaces(t, o) == task[t].pc = "requeueAnswer" /\ task'[t] = Idle /\ started'[o] # started[o]

\* An attempt automation makes is within the limit of its customer's attempts per window,
\* those the operator made meanwhile and those of other orders included, although the rows
\* were counted before its own was inserted.
AutomaticWithinLimit ==
    [][\A o \in Orders :
        Replaces(Automation, o) => CountSince(created', Since(now, Window)) <= Limit]_vars

\* When the attempt of o was made: a replacement when RBXCrate had created it, a first attempt
\* when its transaction began.
MadeAt(o) == IF requeuedAt[o] = NoTime THEN createdAt[o] ELSE started[o]

\* Automation never replaces an attempt sooner after it was made than the delay its
\* customer's attempts in the window call for at that moment, however long it waited for
\* locks and for RBXCrate, and whoever made those attempts.  A first attempt that had to wait
\* for its order's row may be replaced sooner after the purchase started than that delay, but
\* no attempt before the fresh-purchase guard has elapsed.
AutomaticIsSpaced ==
    [][\A o \in Orders :
        LET k == CountSince(created, Since(now, Window)) + 1
        IN  Replaces(Automation, o) =>
              /\ now - started[o] >= FreshGuard
              /\ HasDelay(k) => now - MadeAt(o) >= RequeueDelay(k)]_vars

\* Whoever replaces an attempt asked RBXCrate about that same attempt under the same locks:
\* what was learnt is not about one replaced meanwhile.
AnswerIsCurrent ==
    \A t \in Tasks :
        task[t].pc = "requeueAnswer" =>
            /\ rowLock[task[t].order] = t /\ customerLock = t
            /\ started[task[t].order] + FreshGuard <= task[t].asked

=============================================================================
