# Verification of SensFlow

SensFlow is a single-operator back office for buying Robux for customers on the
marketplace RBXCrate.  One asyncio process runs a Telegram bot, an automation
loop and a start-up recovery over one PostgreSQL database.  This directory holds
TLA+ models of its core, the TLC configurations that check them on small
instances, and TLAPS proofs of the core's invariants for instances of any size.

Paths below are relative to `sensflow/` unless they start with `docs/`.

## 1. The system

| Component | Source | State it keeps | Operations | Model |
|---|---|---|---|---|
| Marketplace workflows | `application/marketplace_workflows.py`, `domain/marketplace` | `client_orders` status, `marketplace_orders` rows, row locks; external: RBXCrate's orders | `start_purchase`, `fast_requeue`, `automatic_requeue`, `requeue_active`, `synchronize_marketplace_order`, `cancel_active_purchase`, `force_close` | `PurchaseWorkflows` |
| Order state machine | `domain/order` | the status of an order | the transition table and what each transition demands | `OrderLifecycle`, and the guards of `PurchaseWorkflows` |
| Polling and requeue guards | `application/marketplace_workflows.py` | `last_status_check_at`, `status_check_backoff_until`, the automatic-requeue columns | `_get_order_info_if_due`, guards of `_requeue_active`, `toggle_auto_requeue` | `RequeueTiming` |
| Stock planning | `application/marketplace_workflows.py` | none beyond one pass; an order's preferred-rate deadline | `plan_automation`, `select_stock`, `activate_fallback` | `StockPlanning` |
| Order intake and customers | `application/services.py`, `domain/customer`, `repositories` | `customers` with their place history, `customer_place_caches`, draft orders | `create_order`, `repeat_order`, `update_place_id`, `refresh_customer`, `send_to_preorder`, `delete_draft` | `OrderIntake` |
| Settings | `domain/settings`, `SettingsService` of `application/services.py`, `routers/settings.py` | the one row of `system_settings` | `get_settings`, `update_setting`, the toggles | `SystemSettings` |
| Migrations and container | `src/migrations`, `Dockerfile`, `docker-compose.yml` | the schema's version, every row an earlier version left | `alembic upgrade head`, `downgrade -1`, restart | `SchemaMigrations`, `Deployment` |
| Notification queue | `application/notifications.py` | `notification_queue` | `queue`, `queue_once`, `deliver_pending` | `Notifications` |
| RBXCrate client and bridge | `integrations/rbxcreate`, `application/rbxcreate_bridge.py` | none; external: RBXCrate's orders | create, cancel, info, stock and balance calls with up to three attempts each, preorder fallback | `RbxcrateCalls` |
| Automation loop, recovery, lifecycle | `application/automation_loop.py`, `recovery.py`, `lifecycle.py` | six timers, tasks, open connections; what stock alert was last announced | passes, start, stop, recovery | `Application`; the stock alerts in `Notifications` |
| Operator's console | `routers/orders.py`, `routers/customers.py`, `routers/settings.py`, `application/services.py:141-182` | FSM state and data per chat; the cards earlier messages keep | order card and its actions, `edit_draft`, the dialogues that ask for one value | `Console` |
| Telegram wizard | `presentation/telegram/routers/create_order.py` | FSM state and data per chat; the buttons earlier messages keep | dialogue steps that end in `create_order` | `CreateOrderWizard` |
| Finance, statistics, Roblox look-ups, dry run, configuration, rendering, searches and pages | remaining files | none of their own | arithmetic, reads, text | not modelled, see section 8 |

How they interact.  A Telegram update becomes one asyncio task; the automation
loop is one more task.  Both call the workflows, which open one transaction per
operation, lock the `client_orders` row first and then the attempt and the
customer, and call RBXCrate **while holding the locks** (`cancel_active_purchase`
is the exception: it calls between two transactions).  RBXCrate never calls back;
what it did is learnt by polling only.  Failures roll the local transaction back
and leave RBXCrate as it is.  Notifications are rows that a later pass sends.  Before the
process starts, the container upgrades the schema and the rows of whatever version it finds.

What is hard about it:

* two systems of record, of which only one rolls back;
* coroutines that read, wait (for RBXCrate, for a row lock) and then write, over
  sessions whose identity map does not refresh what was read before;
* several operations of one order at once: a tap by the operator, a fast trigger,
  an automatic replacement, a synchronization, a force close;
* calls that time out after they took effect, and are repeated;
* uniqueness that only some unique indexes enforce;
* counters and cooldowns that are measured before the row they limit is locked;
* values that are valid only together and are edited one by one;
* dialogues of one chat that share its data and overtake each other, and buttons
  that outlive what they were shown for;
* migrations that convert rows in place and commit in the middle, killed and repeated.

What makes each part correct:

* workflows: one active attempt per order; nothing is bought twice; nobody buys for
  a finished order, and what RBXCrate still creates for one is a request that was
  given up; what the database says RBXCrate said first; finished stays finished; a
  delivery is booked in the end;
* guards: automatic replacements stay within their number and their spacing, and
  only act on an answer newer than the attempt it is about;
* planning: no tier is promised twice, no order is passed over that fits, no rate
  above the order's is recorded with a purchase (which rate RBXCrate charges in the
  end is its own affair), executing the plan order by order finds what planning
  found;
* intake: a Roblox user has one verified customer, the one retry suffices unless a
  request without an identity was in between, of a customer's orders no two recent
  copies are to be bought, no place a customer had is forgotten;
* settings: an edit is refused only for what it would make of the row;
* migrations: an upgrade ends wherever it was killed, unless it refuses the row of
  settings, converts nothing above 1 % twice and loses nothing; an order goes on at the rate it was accepted for;
* console: RBXCrate executes what the order says, an amount reaches the order it was
  typed for, a button that is offered is accepted unless the order changed;
* notifications: each is decided once and repeated only where a crash or a failed
  commit explains it;
* client: what is reported as accepted is accepted, under the kind reported;
* loop and lifecycle: passes recur, a failing pass does not stop the others for
  good, shutdown ends and nothing of the loop runs on closed connections.

## 2. Plan

Written, in the order of what matters most to the operator's money:

1. `OrderLifecycle`, `PurchaseWorkflows`, `PurchaseInvariant`,
   `PurchaseWorkflows_proofs`: the workflows, what they promise, and the proof.
2. `RequeueTiming`, `StockPlanning`, `RequeueTiming_proofs`: when and from which tier
   automation buys; what is proved of the planning is in `AutomationLoop_proofs`.
3. `OrderIntake`, `CreateOrderWizard`, `OrderIntake_proofs`: how an order and its
   customer come to be, and where the customer moves.
4. `RbxcrateCalls`, `RbxcrateCalls_proofs`: what a repeated call means.
5. `Notifications`, `Application`, `Notifications_proofs`, `AutomationLoop_proofs`: the
   queue, the process, and what the loop's passes rest on.
6. `SystemSettings`, `SchemaMigrations`, and `Deployment`, which composes them;
   `Deployment_proofs`: the row of settings from the version that wrote it to the
   handlers that edit it.
7. `Console`, `Console_proofs`: the operator beside automation.  It uses
   `OrderLifecycle` for what happens to an order, and `PurchaseWorkflows` implements
   that life cycle: the abstract specification stands between the two.

Left, in order:

1. `CreateOrderWizard` with two handlers at once, and properties that hold (the
   similar orders were shown before an order is created beside them).
2. The lock order of all operations (order, attempt, customer) in one module, to
   show that they cannot wait in a circle.
3. Two names in the runs of `OrderIntake`, and a refresh that renames.
4. Proofs about the modules above, and the wizard's once it has properties that hold;
   section 5 says what is proved of the others.

## 3. How the modules correspond to the code

In all modules a step is what the process does between two points at which
another coroutine can run or the world can interfere: an `await` that reaches
the database or a remote system.  A transaction writes the database only in the
step that commits.  Isolation is READ COMMITTED, rows are locked by `SELECT ...
FOR UPDATE` where the code does so, and an object a session already holds is
*not* refreshed by a later locking `SELECT`; the modules that depend on this say so.
Every module with properties that hold contains, in a marked section, defective
variants of some operations.  No behaviour uses them: each replaces the
operation it is named after to see that a property notices.

**`PurchaseWorkflows`** models `application/marketplace_workflows.py` with the
checks of `domain/order` and `domain/marketplace` it relies on.

| State | Code |
|---|---|
| `status`, `cost` | `client_orders.current_status`; the attempt whose price is in `marketplace_cost` |
| `attempt[o][n]` | `marketplace_orders.marketplace_status` of the row with identifier `n`; id 0 is `str(order.id)`, higher ids are the uuids of replacements |
| `remote[o][n]` | what RBXCrate holds under that identifier (external) |
| `requested[o]` | the identifiers RBXCrate was ever sent a request to create |
| `lock`, `task` | the lock on the `client_orders` row; program counter and locals of each coroutine |

| Actions | Operation |
|---|---|
| `StartPurchase`, `StartWithoutStock`, `StartCreated`, `StartRecorded`, `FastTrigger` | `start_purchase`, by the operator or through `fast_requeue` |
| `SyncRead`, `SyncApply` | `synchronize_marketplace_order` and the `_apply_*` methods |
| `RequeueSettles`, `RequeueBegin`, `RequeueCancelled`, `RequeueNotCancelled`, `RequeueCreated`, `RequeueRecorded` | `_requeue_active`, manual and automatic |
| `CancelBegin`, `CancelLocally`, `CancelConfirmed`, `CancelUnconfirmed`, `CancelRecorded` | `cancel_active_purchase` and `cancel_order` |
| `ForceClose`, `SendToPreorder`, `DeleteDraft` | the operations of one transaction |
| `Abort`, `Crash` | an early return or exception at any point; the end of the process |
| `RemoteCompletes`, `RemoteFails` | RBXCrate by itself |
| `RemoteExecutes` | a request to create whose answer nobody gets: lost on the way, or executed after its caller gave up |

A create is sent in one step and answered in another, and the client repeats it after a
timeout (`client.py:96`).  So a request stays executable from the moment it is sent:
RBXCrate may create the order while the caller still holds the row, after the rollback,
after a crash, or when the order has long been cancelled or force closed.

Timing guards and missing stock appear here as `Abort`, which may happen
anywhere: the core's properties must hold whatever they decide.  The operator's
"run synchronization now" and recovery are further coroutines of the same
operations.

**`OrderLifecycle`** is the abstract specification: an order's status, the
attempts RBXCrate works on for it, and the delivered ones; eight kinds of change.
`PurchaseWorkflows` implements it under `working` = the active attempts,
`delivered` = the completed ones: locks, coroutines, prices and RBXCrate's side
are hidden, and every step that commits must be a change the life cycle has.

**`RequeueTiming`** models `_get_order_info_if_due`, the guards of
`_requeue_active` and `toggle_auto_requeue` for the orders of one customer, all
Purchasing.  `now` is the clock; `guards`, `requeuedAt`, `started`, `auto` are the
columns of that meaning; `createdAt` is the `created_at` of the active attempt and
`created` has that of each row of the customer.  `Tick` may
come between any two steps, so also while a coroutine waits for a lock or for
RBXCrate.  One operator and automation run at once.  A new row's `created_at` is
the start of its transaction (`opened`), its `purchase_started_at` the time of
the replacement, read once its locks are held.  The first purchases begin at 0 and may
have waited up to `MaxWait` for their orders' rows, so that `started` is then later than
the `createdAt` automation counts from (`Anchor`).  Since the fresh-purchase guard is at least one unit,
`started` tells the attempts of an order apart.

**`StockPlanning`** is one stock pass: `Consider` takes the waiting orders in the
order `_select_preorders_by_order_limit` does, `Place` or `Skip`s them;
`Start` is `fast_requeue` of a planned order, which selects a tier of the same
snapshot again; `Expire` is the moment an order's preferred rate ends, which
`activate_fallback` records.

**`OrderIntake`** is `create_order`, a first and a second try each in one
transaction (`CreateOrder`, `CreateAgain`, `CreateChecked` or `CreateRefused`,
`CreateCommit` or `CreateConflict`), with the customer and place rows it finds or
inserts, `repeat_order` (`RepeatCheck`, `RepeatCommit`), `update_place_id` and
`refresh_customer` (`BeginMove`, `MoveCommit`, `MoveFails`; the row stays locked while
Roblox is asked), and the life of the orders as far as `find_similar_active` sees
it.  A request has the Roblox User ID of a look-up or none; the
`SELECT ... FOR UPDATE` by name has no LIMIT, so it locks every customer of that name
and goes on with one.  `held` records every Place ID a customer's row was ever given, for
`PlaceHistoryIsComplete` to compare its history with.  Row locks and unique
indexes are those of `repositories` and the schema.

**`Notifications`** is the queue: `Queue` and `AlertCheck`/`AlertCommit`
(`queue_once`), `StockAlert` (the loop's `_queue_stock_notifications`, whose memory
is `announced`), and `deliver_pending` of the loop and of the operator at once.
The list is read first; each row is then locked, re-read and sent in a
transaction of its own.  Cooldowns pass by `Age`, older ones first.

**`CreateOrderWizard`** is the dialogue in one chat: `state` and `data` are the FSM
context, `shown` says what messages in the chat still offer.  `Tap` needs
a button a message has and a handler that accepts it in this state (some of them
have no state filter); the handlers' waits (look-up, settings, stock, creation) are
separate steps, after which the data is read again or was kept, as in the code.

**`Console`** is the order card and the dialogues beside the wizard.

| State | Code |
|---|---|
| `status`, `working`, `delivered` | the orders, as `OrderLifecycle` has them |
| `robux`, `bought` | `requested_robux`; what the attempt RBXCrate executes was asked for |
| `lock` | the lock on each `client_orders` row |
| `state`, `data` | the FSM context of the chat: `edit_order_id`, `edit_requested_robux` |
| `task` | one task per update: where its handler or service is |

| Actions | Code |
|---|---|
| `TapOrder`, `TapElsewhere` | an update arrives; a tap goes on after `callback.answer()` |
| `BeginDraftEdit`, `TypeAmount`, `TypePlace` | the dialogue of `routers/orders.py` |
| `BeginOther`, `TypeOther`, `Back`, `Leave` | the searches, the prompts for one value, back and menu buttons |
| `SelectOrder`, `CommitOrder`, `Return` | the service behind a button: `SELECT ... FOR UPDATE` and the check of the status, the effect and commit, the rest of the handler |
| `Elsewhere` | automation, recovery and the wizard, each a step of `OrderLifecycle` |
| `Restart` | the process ends |

`OrderActions` is the table of `_order_actions`, `Accepting` what each service
accepts.  Between `SelectOrder` and `CommitOrder` a service may ask RBXCrate; it keeps
the lock, except in the two operations that come back for it.

**`SystemSettings`** is the row and the handlers that edit it: `Read` inserts it when
there is none, `Toggle` and `Type` decide what to write, `SelectForUpdate` (or `Insert`)
locks the row, `Apply` validates the whole row as the domain and the CHECK
constraints do and commits, `Rollback` loses it.  A toggle carries the value it
computed from a row it read in an earlier transaction.

**`SchemaMigrations`** has the revisions as functions from a database to a database, or
`Refused`: `Up1` ... `Up8` and `Down2` ... `Down8`, restricted to what converts, checks or
protects rows.  A conversion that PostgreSQL refuses is `Refused` even where a later
statement would overwrite its result: 0003 casts the interval before it sets it.  Alembic runs the revisions of a command in one transaction (`work`); an
autocommit block commits what came before and then each of its statements (`EnterBlock`,
`AddValue`), so `RunRevision` may start in a database a killed command left half way.

**`Deployment`** composes both: the container starts, upgrades, and then runs the
handlers of `SystemSettings` on the same row (`Operate`); `Crash` is a kill at any step,
`TakeBack` a downgrade of a stopped container.  `Init` is any version with any rows
that version could hold; the database may also be empty.  `asked` remembers what
the operator set, in the units of today.  The categories of notifications are a bag:
a revision may enter one twice or remove every copy, and no code reads the array in
order.  `EditsAssumption` says that categories are not typed: the settings screen has
no button that would ask for them (`keyboards.py:495-500`), only the toggles.

**`RbxcrateCalls`** is one identifier and several calls about it: the retry loop of
`client.py` (`Send`, `Serve`, `TimesOut`, `Breaks`, `Return`), the fallback to a
supplier preorder in `rbxcreate_bridge.py` (`FallBack`), and requests RBXCrate
executes after the caller gave them up (`ServeLate`).  That RBXCrate refuses an
identifier it knows and echoes the identifier in its answers is assumed from how
the client treats both; these definitions are marked external.

**`Application`** is `lifecycle.py`, the place of `recovery.py` in it, and the schedule
of `automation_loop.py`: `main` follows `run`, `start` and `stop`; `polling` is the
task aiogram polls in; `loop` is the position of `_run` and the timers the
iteration's single "now" found due.

## 4. The runs

"About" is what a run asks; the bounds are in its `.cfg`.  Deadlock checking is off
where the instance may come to rest: every order finished, or a bound reached.

| Run | Configuration | What it shows |
|---|---|---|
| `purchase` | `MCPurchase.cfg`: one order, two coroutines, two replacements | The invariants of section 1, the two action properties (what RBXCrate creates for a finished order is a stray; finished stays finished), the refinement of `OrderLifecycle`, and that a delivery is booked |
| `requeue_timing` | `MCRequeueTiming.cfg`: two orders, automation and operator, time up to 3, first purchases that waited 0 or 1, window 2, three attempts | Automatic replacements stay within their number and their distance from when an attempt was made, whatever the waits; who replaces an attempt asked about that same attempt |
| `stock_planning` | `MCStockPlanning.cfg`: three orders of 1 to 3 Robux, one or two tiers | A plan leaves no order waiting that would fit, is best when one tier is on offer, and can be carried out at no worse recorded rate |
| `order_intake` | `MCOrderIntake.cfg`: requests for one Roblox user with and without its identity, two coroutines, two calls of `create_order`, two of `repeat_order`, two places, one move | One verified customer per name, one retry is enough but for the exception named, no two recent copies of a customer are to be bought, no place is forgotten, no Draft beside a running purchase |
| `notifications` | `MCNotifications.cfg`: two notifications, one read at a time, one failed commit, one restart | Repeats are explained by interruptions, alerts keep their distance, each is decided |
| `rbxcrate_calls` | `MCRbxcrateCalls.cfg`: three calls, three attempts each | A reported success is the caller's own, of the reported kind |
| `application` | `MCApplication.cfg`: two failing passes | Nothing runs on closed connections, shutdown ends, no timer starves |
| `deployment` | `MCDeployment.cfg`: one order, rows of every version, intervals of 2 s and 100000 s, commissions of 1 %, 30 % and 100.01 %, one kill, two downgrades, two handlers | The container comes up unless 0003 or 0004 refuses the row, a commission above 1 % is converted once, subscriptions and rates survive, edits are refused for themselves |
| `console` | `MCConsole.cfg`: two orders of different amounts, two updates at once, two attempts | What is bought is what the order says, amounts reach their order, offered buttons are accepted |
| `cancel`, `recreate` | `MCPurchase*.cfg`: one replacement | Findings 1 and 2 |
| `wizard` | `MCCreateOrderWizard.cfg`: two names, one update at a time | Finding 3 |

Why the bounds are enough.

* *One order, two coroutines.*  Every operation reads and writes one order under
  that order's lock, so orders do not interact in `PurchaseWorkflows`; two
  coroutines give each race of two operations, `ForceClose` and RBXCrate act
  beside them, and the second replacement gives a coroutine that returns with
  knowledge two attempts old.  The proofs cover any number of all three.
* *Requeue timing.*  Two purchases at time 0 leave one automatic replacement in the
  window and make a second too many; the window is shorter than the clock, so
  attempts also leave it.  The first attempts count from 0 and may have been bought one
  unit later, so their delay and the fresh-purchase guard come apart.  There is one automation loop; more operator
  coroutines would only queue behind the same locks.
* *Stock.*  Three orders are the fewest for which taking the smallest first serves
  more customers than taking the largest first; two tiers are the fewest between
  which a plan and a later selection can choose differently.
* *Intake.*  Two coroutines make each conflict of two: two verified requests, two without
  identity, one of each.  Two orders and two copies are the fewest for which two
  cancelled orders are repeated at once.  The second try that meets another
  `IntegrityError` needs a third coroutine; the proof covers it.  One move beside `create_order`, which
  moves too, is the fewest for which a history may miss a place.
* *Notifications.*  Two rows with one read at a time make the older wait for the
  newer; one restart and one failed commit may hit either deliverer anywhere.
* *Deployment.*  Revisions treat rows alike, so one order and the row of settings are
  enough; the order takes every status and every combination of absent columns its
  version allows.  A kill meets every statement of an autocommit block, so that a
  second would find nothing the first did not leave; two downgrades reach a revision
  that was upgraded over and is upgraded again.  The two edits are each valid
  alone and invalid after the other.  Of the commissions one is the largest that is
  taken for a fraction, one is ordinary, one the least that 0004 refuses; of the intervals
  one is ordinary and one the least that 0003 refuses.
* *Console.*  Two orders with different amounts, since an edit goes astray only
  between two; two updates, one of which overtakes the other.
* *Calls.*  Three calls: one that is given up and executed late, and two whose
  answers it may be mistaken for.  The attempts are the code's.
* *Application.*  `MaxFailures` bounds how often a pass raises, since one that raises
  for ever does starve the passes after it: two are enough to fail
  in two different passes.

Symmetry is used where the set's members are alike (orders of one customer,
request coroutines, updates, calls) and no run with symmetry checks liveness.

*Fairness.*

* `PurchaseWorkflows`: an operation that can only end, ends (every call has a
  timeout); an active attempt whose order is again and again free is again and
  again read, since `run_synchronization_pass` goes over all of them for as long
  as there is a process (`automation_loop.py:89-128`; that its timer
  is served is `EveryTimerIsServed`); and of infinitely many polls that could book
  a delivery not all fail.  Neither operators nor RBXCrate owe anything.
* `Notifications`: the passes go on and a send is answered or times out.
* `Deployment`: Docker starts a container that ended (`restart: unless-stopped`) and
  Alembic goes on with its revisions.  Kills and downgrades are bounded, and nobody has
  to tap anything.
* `Application`: tasks that can run do run, each call ends by its timeout, and
  aiogram's polling ends when asked to.

## 5. What is proved

TLAPS checks these for every value of the constants, under the assumptions named
in the modules only: bounds and guards are natural numbers, what is counted is finite,
and what stands for nothing (`NoTask`, `NoId`, `NoCall`, `None`, `NoRow`) is no member of
the set it is missing from.  Where a theorem needs more, it says so below.

Amounts of Robux and numbers of repeats are sums over sets.  The models state them as the
cardinality of a set that has one member per unit, for instance the pairs of an order
and a number up to what it asks for: the same number, and one about which the lemmas on
finite sets say what an induction would have to.

**`PurchaseWorkflows_proofs`.**  `InductiveInvariant`, and from it `TypeCorrect`,
`OneActive`, `Backed`, `Settled`, `Matches`, `OneLive`, `Recordable`, the action
properties `LateIsStray` and `FinishedForGood`, and `Refinement`: each step of
the workflows is a step of `OrderLifecycle` or leaves its state alone.

None of these invariants is inductive: a coroutine that checked the order, called
RBXCrate and now writes its row relies on what it saw before the call.  `IInv`
(module `PurchaseInvariant`) therefore adds what each program counter knows
(`TaskKnows`), that coroutines which know something of an order's row hold its lock
(`HoldsLock`), that the status agrees with the history of the attempts
(`HistoryMatchesStatus`), and what is known of requests, whose execution waits for
nobody's lock: RBXCrate holds only what it was asked for (`OnlyRequested`), at most one
request of an order is or may yet become a live purchase (`OneMayBeLive`, from which
`OneLive` follows), and a replacement is asked for only after identifier 0 was executed
(`FirstIdFirst`).  `LateIsStray` is from the same invariant: a completed order has its
one purchase, so nothing else may still be executed, and whoever waits for a creation
holds the lock of an order that is open.  What `syncLock`,
`cancelRemote` and `cancelRecord` know is what holds *without* a lock, and is
accordingly little: that there is a row, or that RBXCrate has cancelled.  The proof has one
lemma per action (`StepStartPurchase` ... `StepRemote`); they rest on lemmas for
the three ways a step can disturb others: it commits under a lock it holds
(`OwnCommitTasksInv`), commits while the row is free (`FreeCommitTasksInv`), or has
RBXCrate create or end an attempt (`CreationStep`, `EndingStep`).

**`RbxcrateCalls_proofs`.**  `CallsInvariant`, `CallTypesCorrect`, `Accepted`,
`Cancelled`: any number of calls and attempts, requests executed late included.
Added to the properties are that an answer "done" was given to the call that holds it
(`DoneIsOurs`) and that an order which does not exist has no buyer.

**`AutomationLoop_proofs`.**  Of `Application`: `ProcessInvariant`, `Connected`, `Closed`:
only the main task closes connections, and only when the loop is done or was never
started.

Of `StockPlanning`: `PlanInvariant`, and from it `PlanIsWithinStock`,
`PlannedOrdersAreBought` and `OneTierServesMost`.  `PlanInv` says that the total of each
tier is what is left of it and what the orders placed on it ask for, that candidates are
taken from small to large, and that an order which was passed over fits nowhere now and
found no larger order where it could have fitted.  A planned order finds its
tier again, because selling it only frees what was planned for it and its rate never
falls.  For `OneTierServesMost` suppose another selection F served more customers than
the plan: it serves some o the plan passed over; the customers only the plan has are
paired with customers only F has, o not among them, who ask for no less; so the plan and
o together ask for no more than F, and o would have fitted.

**`Console_proofs`.**  `PurchasesAreAsOrdered`, `AmountsAreForTheirOrders` and
`OfferedActionsAreAccepted`, from `ConsoleInvariant`: whoever is about to commit under a
lock still finds the status he checked (`edit_draft` a Draft, which has no attempt that
could be for another amount), and an amount the chat or a task has collected is one
of the order it is about.  No amount is the mark for "keep" (`AmountsAssumption`).

**`OrderIntake_proofs`.**  `HistoryIsComplete` for any requests: a transaction that
moves a customer has had the row locked since it read the place.  The
other theorems are about requests with and without an identity alike.
`IdentitiesAssumption` says that names and identities of requests go together one to one,
as they do when both are from a look-up and a user keeps its name; what the dialogue makes
of them in finding 3 is outside of it.  `IntakeInv` says that an identity has one row, with its
name, that the place of a name is
remembered exactly when there is a row, and that what a task has found stays found:
`NamesAreUnique`, `SecondTrySucceeds`, `CopiesAreSingle`, `DraftsAreApart`.  What a
request without an identity makes possible is excepted in the properties and listed in
section 6.

**`Deployment_proofs`.**  `EditsAreRefusedForThemselves`: a handler about to write holds
the row and knows it as it is, or is the only one whose INSERT got past (`EditInv`).
`CommissionIsConvertedOnce`: version and value together say in which unit a
commission is, in the committed row and in the transaction of the upgrade alike, also
after a downgrade of 0004, which leaves the fraction (`RowInv`).  It is about every
commission: one of 1 % or less is the exception the property states.  `RatesSurviveTheUpgrade`: what the transaction of the upgrade
has made of the orders follows, revision by revision, from the rows as they are
committed, and no commit lies between 0005's columns and its conversion of them
(`RatesInv`).  `SubscriptionsAreKept`: at every version, committed or not, a row has each
category once, unless it still has the defaults of the environment, and has what was
asked for in that version's terms; a handler that is about to write holds either all
categories, each once, or an edit of another column (`CategoriesInv`).

**`RequeueTiming_proofs`.**  `AnswersAreCurrent`, from which locks a replacement holds at each
step: the attempt it asked about began before it asked, by the fresh-purchase guard,
and the order's row is its own until it writes.  `AutomationStaysWithinLimit` and
`AutomationKeepsDelays`: when automation asks RBXCrate, some attempt number k within the
limit is good for it, that is, fewer than k attempts were made in the window and the
delay of k has passed (`AttemptInv`).  It stays good while automation waits, since it holds
the customer's row, so nobody adds an attempt, and since the window only loses attempts
as time goes on; the count may then be lower than k, and the delay of a lower number is
no longer, which is the part of `TiersAssumption` the second theorem needs and
`marketplace_requeue_delay_seconds` satisfies.  The delay is measured from when an attempt
was made, which for a first attempt is the start of its transaction.

**`Notifications_proofs`.**  `BalanceAlertsKeepDistance` and `StockAlertsKeepDistance`: what
`queue_once` looked up holds until it inserts, as only the loop inserts alerts; what
the loop remembers is the last stock alert of this process, and older alerts leave
their cooldown first, so growth against the last one is growth against all.
`RepeatsArePaidFor`: a row being sent is pending and locked by one pass (`RowsAreLocked`),
so of the messages the operator has of a row all but the last sent ended without a
commit, by a failure of it or by a restart, which interrupts each pass at one row
(`RepeatInv`).

Only model-checked: liveness (`DeliveredIsBooked`, `EachIsDecided`, `ShutdownCompletes`,
`EveryTimerIsServed`, `StartupCompletes`), which the prover does not treat, and the three
properties the code violates, whose counterexamples need no proof; `CreateOrderWizard`
therefore has no theorem.  The other properties the runs check are invariants and action
properties, and each is the statement of one of the theorems above, under the
assumptions named there.

## 6. What the code does otherwise than is said

Each has a run whose counterexample TLC prints.

1. `cancel`: the operator can always cancel (`docs/08_BUSINESS_RULES.md:247`).  A
   coroutine that read an attempt before it was replaced applies RBXCrate's
   "cancelled" to the order although the replacement is active
   (`application/marketplace_workflows.py:445`); a cancellation then reaches
   RBXCrate and is refused by the database.
2. `recreate`: attempts may be recreated without limit (`docs/08:143`).
   `start_purchase` always sends `str(order.id)` (line 374); after a first attempt
   that ended, a waiting order cannot be started again.  `OneLivePurchase`
   holds partly *because* of this.
3. `wizard`: an identity is verified (`domain/customer/service.py:16`).  The dialogue
   keeps the Roblox User ID of the last successful look-up while another username
   is entered (`routers/create_order.py:195` and `:627`).

Seen, and not made a run:

* A restart loses nothing (`docs/08:223`), but the call to RBXCrate lies inside the
  transaction that records it (`marketplace_workflows.py:372`): when that is rolled
  back, nobody knows the purchase.  It may even be made after the order was cancelled or
  force closed, by a request that was given up (`client.py:96`); `LatePurchasesAreStray`
  is what holds of it.
* The delay before a first attempt is replaced counts from `created_at`, the start of the
  transaction that waited for the order's row (`marketplace_workflows.py:736`), so it may be shorter,
  seen from the purchase, than `marketplace_requeue_delay_seconds` has it.
* Duplicate purchases are impossible (`docs/08:301`), but Drafts are not counted as
  similar, and Draft and purchase are two transactions (`application/services.py:623`).
  An edit of a Draft is not compared with other orders at all.
* The docstring at `marketplace_workflows.py:1052` calls the polling guards
  persisted; `synchronize_marketplace_order` goes by the ones it read before it waited
  for the lock (line 438), so a backoff learnt meanwhile is missed once.
  `RequeueTiming` models it.
* `docs/07:223` has the plan serve as many customers as possible; over several tiers
  the greedy plan does not always.  `OneTierIsOptimal` is what holds.
* `docs/02:629` excludes duplicate customers; two requests for a new name make two
  when one of them carries no identity, as no index covers the name.  A copy of the one's
  order does not exclude a copy of the other's made at once (`application/services.py:1054`
  holds the lock of one row), nor does a Draft see a purchase that began meanwhile for the
  other row; and a third request at the same time can make the second try of
  `create_order` fail.  `OneCustomerPerName`, `OneRetryIsEnough` and
  `NoDraftBesidePurchase` state what remains.
* `docs/08:259` wants important notifications received; one that fails once is not
  sent again.
* `docs/10_DEPLOYMENT.md:139` finishes active operations where possible; the tasks
  aiogram makes of updates are not awaited before the connections are closed
  (`lifecycle.py:86-108`).
* Revision 0004 tells a percentage from a fraction by its size, so a commission of
  1 % or less keeps its number and becomes 100 times itself; one above 100 % is
  refused, and the container then restarts for ever.  It also removes
  `automatic_reorder`, which the group of `callbacks.py:102-112` still contains: the
  group shows as off until it is toggled.  0003 overwrites any interval by 0.3 s, but
  casts it to `numeric(8,3)` first (line 72): from 100000 s on, which 0001 allows, the
  upgrade fails for ever.
* The downgrade of 0008 cannot succeed: a trigger and a CHECK of 0001 (lines 648-656 and
  244-251) depend on the column whose type it changes.
  `tests/unit/database/test_migration.py:221` renders its SQL and runs none.
* A rate below 5e-9 passes `validate_settings` and is stored as 0, which the table
  refuses; the operator reads that the settings changed concurrently.
* Two categories toggled at once lose one of the two (`routers/settings.py:80`).
* A stale "Disable Auto Requeue" button enables it: the action is a toggle.
* `receive_draft_place_id` clears the chat after the service (`routers/orders.py:322`),
  and with it a dialogue begun meanwhile.  The prompts of a dialogue do not name the
  order.  A page of an earlier search shows results of the latest one.
* `refresh_customer` lets an IntegrityError of the identity index through.
* The card of a PreOrder whose attempt is still executed offers to buy it, which is
  refused (`OfferedIsAccepted` allows for this).
* A completed attempt reported without a price is booked with the last one observed
  (`marketplace_workflows.py:1187`).

## 7. Decisions of the models worth knowing

* A COMPLETED attempt of an unfinished order, and a Purchasing order without an
  attempt, are handled by the code and unreachable (`FinishedIsSettled`,
  `PurchasingIsBacked`), so these branches, recovery's repair included, are no actions.
* `purchased_robux` is zero until an order completes, so stock is selected for
  the whole request.
* What a row's later columns repeat of RBXCrate's answers (rate, username, place)
  is left out, except whose price an order keeps (`cost`).
* `httpx` errors other than the read timeout end a call at once (`Breaks`).
* `MemoryStorage` never suspends, so reading the FSM data is not a step of its own;
  waits for Telegram before a handler begins are.
* Of the fields of a Draft `Console` has the amount only; the others are written by the
  same statement under the same lock.  The actions that have no effect the life cycle
  sees (Auto Requeue, repeating) run through their lock and check only.
* A revision's new tables, columns without a default that matters and indexes are
  left out of `SchemaMigrations`; what a statement could fail on is not.
* PostgreSQL grants a row lock in any order, so no queue of waiters is kept.
* In the wizard a place is either chosen or not; texts, keyboards and the layout of
  messages are left out, but that every message of the dialogue keeps a button to
  go back is not.

## 8. What is not modelled, and why

* *Finance* (`domain/finance`): decimal arithmetic on one order's numbers, without
  state or order of events.
* *Archiving, searches, pages, the authorization of the operator*: a flag nothing decides
  by, reads, and one comparison per update.
* *Roblox gateway*: read-only look-ups; their outcomes are choices in
  `CreateOrderWizard`.
* *RBXCrate dry run*: a stand-in for development that keeps nothing.
* *Statistics*: reads rows that no code writes.
* *Configuration, logging, rendering, keyboards*: parsing and text.
* *Startup recovery's own repair* (`recovery.py:123`) is unreachable, see section 7.
* `plan_preorders`, `confirm_payment` and `finalize_purchase` are reached by nothing
  that `bootstrap.py` wires.
