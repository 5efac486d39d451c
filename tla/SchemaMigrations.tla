--------------------------- MODULE SchemaMigrations ---------------------------
(***************************************************************************)
(* `alembic upgrade head` and `alembic downgrade -1` over the revisions in *)
(* migrations/versions, as far as they convert, check or protect rows.     *)
(*                                                                         *)
(* A revision is a function from databases to databases, or Refused when a *)
(* statement of it fails.  Alembic (an external library) runs all          *)
(* revisions of a command in one transaction, in which it also keeps the   *)
(* version number; an autocommit block commits what was done so far and    *)
(* commits each of its statements alone.  When the process dies, or a      *)
(* statement fails, what is not committed is lost.                         *)
(*                                                                         *)
(* A column a version does not have is Absent.  Rates are in tenths, the   *)
(* commission is in 1/10000 (numeric(20, 4)), intervals are milliseconds.  *)
(***************************************************************************)
EXTENDS Integers, Sequences, Bags

CONSTANTS
    Orders,      \* client orders, each with one marketplace order at most
    NoRow,       \* no such row
    Absent,      \* a column the schema does not have, or NULL
    Refused      \* PostgreSQL rejected a statement

VARIABLES
    version,     \* alembic_version: 0 for an empty database, n for revision 000n
    labels,      \* values of notification_type that revisions added
    closable,    \* client_order_status and marketplace_order_status have force_closed
    settings,    \* the row of system_settings, or NoRow
    orders,      \* the rows of client_orders, with their marketplace order
    unverified,  \* a customer without a Roblox User ID exists
    sent,        \* the notification types that rows of notifications have

    work,        \* the transaction of the running command, or Absent
    step         \* where the command is

databaseVars == <<version, labels, closable, settings, orders, unverified, sent>>
migrationVars == <<databaseVars, work, step>>

Committed == [version |-> version, labels |-> labels, closable |-> closable,
              settings |-> settings, orders |-> orders, unverified |-> unverified, sent |-> sent]
Commit(d) ==
    /\ version' = d.version /\ labels' = d.labels /\ closable' = d.closable
    /\ settings' = d.settings /\ orders' = d.orders
    /\ unverified' = d.unverified /\ sent' = d.sent

Latest == 8
RequeueLabels == <<"stock_available", "auto_requeue_started", "auto_requeue_completed",
                   "auto_requeue_failed">>
BalanceLabels == <<"low_balance", "critical_balance">>
RequeueTypes == {RequeueLabels[i] : i \in DOMAIN RequeueLabels}
BalanceTypes == {BalanceLabels[i] : i \in DOMAIN BalanceLabels}

\* UPDATE system_settings and UPDATE client_orders: every row there is.
UpdateSettings(d, Set(_)) == IF d.settings = NoRow THEN NoRow ELSE Set(d.settings)
UpdateOrders(d, Set(_)) == [o \in Orders |-> IF d.orders[o] = NoRow THEN NoRow ELSE Set(d.orders[o])]
\* A CHECK constraint that is added, or kept, must hold for the rows there are.
SettingsSatisfy(d, Check(_)) == d.settings # NoRow => Check(d.settings)
OrdersSatisfy(d, Check(_)) == \A o \in Orders : d.orders[o] # NoRow => Check(d.orders[o])

\* array_append of each value that is not there yet; array_remove, of every copy.
WithAppended(array, values) == array (+) SetToBag(values \ BagToSet(array))
WithRemoved(array, values) == [v \in BagToSet(array) \ values |-> array[v]]
Least(a, b) == IF a <= b THEN a ELSE b

-----------------------------------------------------------------------------
(***************************************************************************)
(* Defective variants of definitions below, one per property.  No behaviour*)
(* of the specification uses them: each takes the place of the definition  *)
(* it is named after to show that the property notices.                    *)
(***************************************************************************)
\* Every commission is divided by 100.
PercentAlways(commission) == TRUE

\* automatic_reorder is removed before those who had it get its successors.
RequeueCategoriesSwapped(array) ==
    LET cleared == WithRemoved(array, {"automatic_reorder"})
    IN  IF BagIn("automatic_reorder", cleared) THEN WithAppended(cleared, RequeueTypes) ELSE cleared

\* Orders that are waiting or being bought are put back to waiting for the preferred rate.
PreferredBackfillWithoutFallback(row) ==
    IF row.status = "completed"
    THEN row
    ELSE [row EXCEPT !.preferred = Least(row.limit, 43), !.timeout = 35, !.fallback = FALSE]

\* ALTER TYPE ... ADD VALUE, without IF NOT EXISTS.
WithNewValue(d, v) == IF v \in d.labels \/ (v = "force_closed" /\ d.closable)
                      THEN Refused
                      ELSE [d EXCEPT !.closable = @ \/ v = "force_closed", !.labels = @ \cup {v}]

-----------------------------------------------------------------------------
(***************************************************************************)
(* The revisions                                                           *)
(***************************************************************************)
\* 0001: empty tables.
Up1(d) == d

\* 0002: a customer may lack a Roblox User ID.
Up2(d) == d
Down2(d) == IF d.unverified THEN Refused ELSE d

\* 0003: the interval may be a fraction of a second, and becomes 0.3 s.  It is converted to
\* numeric(8, 3) before it is overwritten, and a numeric(8, 3) holds less than 100000 s.
Up3(d) ==
    IF SettingsSatisfy(d, LAMBDA r : r.interval < 100000000)
    THEN [d EXCEPT !.settings = UpdateSettings(d, LAMBDA r : [r EXCEPT !.interval = 300])]
    ELSE Refused
Down3(d) == IF SettingsSatisfy(d, LAMBDA r : r.interval % 1000 = 0) THEN d ELSE Refused

\* 0004: requeue categories replace automatic_reorder, and the commission, a percentage so far,
\* becomes a fraction, rounded to four places.
Percent(commission) == commission > 10000
Fraction(commission) == (commission + 50) \div 100
NormalizedCommission(commission) == IF Percent(commission) THEN Fraction(commission) ELSE commission
RequeueCategories(array) ==
    WithRemoved(IF BagIn("automatic_reorder", array) THEN WithAppended(array, RequeueTypes) ELSE array,
                {"automatic_reorder"})
Up4(d) ==
    IF SettingsSatisfy(d, LAMBDA r : r.commission <= 1000000)
    THEN [d EXCEPT !.settings = UpdateSettings(d, LAMBDA r :
            [r EXCEPT !.commission = NormalizedCommission(r.commission),
                      !.categories = RequeueCategories(@)])]
    ELSE Refused
ReorderCategories(array) ==
    WithRemoved(IF BagToSet(array) \cap RequeueTypes # {}
                THEN WithAppended(array, {"automatic_reorder"}) ELSE array,
                RequeueTypes)
\* The commission stays a fraction: the older constraint allows it too.
Down4(d) ==
    IF d.sent \cap RequeueTypes # {}
    THEN Refused
    ELSE [d EXCEPT !.labels = {},
                   !.settings = UpdateSettings(d, LAMBDA r :
                     [r EXCEPT !.categories = ReorderCategories(@)])]

\* 0005: orders and settings get a preferred rate.  An order that is waiting or being bought has
\* had its chance at it; the trigger trg_client_orders_completed_immutable rejects any change of a
\* completed order.
TriggerAllows(old, new) == old.status = "completed" => new = old
PreferredBackfill(row) ==
    IF row.status = "completed"
    THEN row
    ELSE [row EXCEPT !.preferred = Least(row.limit, 43), !.timeout = 35,
                     !.fallback = row.status \in {"preorder", "purchasing"}]
PreferredIsValid(row) ==
    row.preferred = Absent \/ (row.preferred > 0 /\ row.preferred <= row.limit)
Up5(d) ==
    LET added == UpdateOrders(d, LAMBDA r : [r EXCEPT !.fallback = FALSE])
        filled == UpdateOrders([d EXCEPT !.orders = added], PreferredBackfill)
        new == [d EXCEPT !.orders = filled,
                         !.settings = UpdateSettings(d, LAMBDA r :
                           [r EXCEPT !.preferred = Least(r.maximum, 43), !.low = 10, !.critical = 5,
                                     !.categories = WithAppended(@, BalanceTypes)])]
    IN  IF /\ \A o \in Orders : added[o] # NoRow => TriggerAllows(added[o], filled[o])
           /\ OrdersSatisfy(new, PreferredIsValid)
           /\ SettingsSatisfy(new, LAMBDA r : r.preferred > 0 /\ r.preferred <= r.maximum)
        THEN new
        ELSE Refused
Down5(d) ==
    IF d.sent \cap BalanceTypes # {}
    THEN Refused
    ELSE [d EXCEPT !.labels = @ \ BalanceTypes,
                   !.orders = UpdateOrders(d, LAMBDA r :
                     [r EXCEPT !.preferred = Absent, !.timeout = Absent, !.fallback = Absent]),
                   !.settings = UpdateSettings(d, LAMBDA r :
                     [r EXCEPT !.preferred = Absent, !.low = Absent, !.critical = Absent,
                               !.categories = WithRemoved(@, BalanceTypes)])]

\* 0006: the preferred mode is the default.
Up6(d) == [d EXCEPT !.settings = UpdateSettings(d, LAMBDA r : [r EXCEPT !.mode = TRUE])]
Down6(d) == [d EXCEPT !.settings = UpdateSettings(d, LAMBDA r : [r EXCEPT !.mode = Absent])]

\* 0007: purchase_started_at, for active attempts the time of their creation.
Up7(d) == [d EXCEPT !.orders = UpdateOrders(d, LAMBDA r :
             [r EXCEPT !.started = IF r.attempt = "active" THEN "created_at" ELSE Absent])]
Down7(d) == [d EXCEPT !.orders = UpdateOrders(d, LAMBDA r : [r EXCEPT !.started = Absent])]

\* 0008: orders and attempts may be force_closed.
Up8(d) == d
\* The way back always fails: current_status appears in the WHEN clause of
\* trg_client_orders_completed_immutable, and PostgreSQL alters no type of a column a trigger is
\* defined with; ck_client_orders_completed_order_fields would be in the way too.
Down8(d) == Refused

Upgraded(n, d) ==
    CASE n = 1 -> Up1(d) [] n = 2 -> Up2(d) [] n = 3 -> Up3(d) [] n = 4 -> Up4(d)
      [] n = 5 -> Up5(d) [] n = 6 -> Up6(d) [] n = 7 -> Up7(d) [] n = 8 -> Up8(d)
Downgraded(n, d) ==
    CASE n = 2 -> Down2(d) [] n = 3 -> Down3(d) [] n = 4 -> Down4(d) [] n = 5 -> Down5(d)
      [] n = 6 -> Down6(d) [] n = 7 -> Down7(d) [] n = 8 -> Down8(d)

-----------------------------------------------------------------------------
(***************************************************************************)
(* The commands                                                            *)
(***************************************************************************)
\* What the autocommit block of a revision adds, value by value.
BlockOf(n) == CASE n = 4 -> RequeueLabels [] n = 5 -> BalanceLabels [] n = 8 -> <<"force_closed">>
                [] OTHER -> <<>>

\* ALTER TYPE ... ADD VALUE IF NOT EXISTS
WithValue(d, v) == IF v = "force_closed" THEN [d EXCEPT !.closable = TRUE]
                                         ELSE [d EXCEPT !.labels = @ \cup {v}]

\* The command ends, and with it its transaction, which was committed or is rolled back.
EndCommand == work' = Absent /\ step' = [pc |-> "off"]
Resume(d, next) == work' = d /\ step' = next

BeginUpgrade ==
    /\ step.pc = "off"
    /\ Resume(Committed, [pc |-> "revision"])
    /\ UNCHANGED databaseVars

NextVersion == work.version + 1

\* Entering an autocommit block commits the revisions before this one.
EnterBlock ==
    /\ step.pc = "revision" /\ work.version < Latest /\ BlockOf(NextVersion) # <<>>
    /\ Commit(work)
    /\ Resume(work, [pc |-> "block", left |-> BlockOf(NextVersion)])

AddValue ==
    /\ step.pc = "block" /\ step.left # <<>>
    /\ LET d == WithValue(Committed, Head(step.left))
       IN  IF d = Refused
           THEN EndCommand /\ UNCHANGED databaseVars
           ELSE Commit(d) /\ Resume(d, [step EXCEPT !.left = Tail(@)])

\* The rest of a revision, in the transaction that was open or that follows the block.
RunRevision ==
    /\ \/ step.pc = "revision" /\ work.version < Latest /\ BlockOf(NextVersion) = <<>>
       \/ step.pc = "block" /\ step.left = <<>>
    /\ LET d == Upgraded(NextVersion, work)
       IN  IF d = Refused THEN EndCommand
                          ELSE Resume([d EXCEPT !.version = NextVersion], [pc |-> "revision"])
    /\ UNCHANGED databaseVars

FinishUpgrade ==
    /\ step.pc = "revision" /\ work.version = Latest
    /\ Commit(work)
    /\ EndCommand

\* No downgrade has an autocommit block: it is one transaction.
Downgrade ==
    /\ step.pc = "off"
    /\ version > 1
    /\ LET d == Downgraded(version, Committed)
       IN  d # Refused /\ Commit([d EXCEPT !.version = version - 1])
    /\ UNCHANGED <<work, step>>

UpgradeStep == EnterBlock \/ AddValue \/ RunRevision \/ FinishUpgrade
=============================================================================
