------------------------------ MODULE Deployment ------------------------------
(***************************************************************************)
(* The application container: `alembic upgrade head && exec python -m      *)
(* sensflow` (Dockerfile), restarted whenever it ends (docker-compose.yml, *)
(* restart: unless-stopped).  The upgrade meets the rows any earlier       *)
(* version left, may be killed at every step, and is repeated; then the    *)
(* program runs on what the upgrade made of them.  The operator may take a *)
(* revision back while the container is stopped.                           *)
(***************************************************************************)
EXTENDS SchemaMigrations, FiniteSets

CONSTANTS
    Tasks, NoTask, Defaults, Edits, Toggles,   \* of SystemSettings
    Commissions,    \* commissions as fractions, in 1/10000
    Rates,          \* rate limits of rows, in tenths
    MaxCrashes,     \* bound on kills of the container
    MaxDowngrades   \* bound on downgrades

ASSUME CommissionAssumption == Commissions \subseteq Nat
ASSUME TasksAssumption == NoTask \notin Tasks
ASSUME DefaultsAssumption ==
    DOMAIN Defaults = {"maximum", "preferred", "low", "critical", "commission", "interval",
                       "categories", "mode"}
\* The keyboard offers no typing of categories.
ASSUME EditsAssumption == \A edit \in Edits : edit[1] # "categories"
ASSUME BoundsAssumption == {MaxCrashes, MaxDowngrades} \subseteq Nat /\ Rates \subseteq Nat \ {0}

VARIABLES
    holder, job,    \* of SystemSettings
    container,      \* "stopped", "upgrading", "running"
    asked,          \* what the operator set: commission as a fraction, enabled categories
    crashes, downgrades

INSTANCE SystemSettings

vars == <<version, labels, closable, settings, orders, unverified, sent, work, step, holder, job,
          container, asked, crashes, downgrades>>

-----------------------------------------------------------------------------
\* Notification types of a version that a program of that version subscribed to.
Categories(v) ==
    {SetToBag(types) : types \in
        {{}, {"automatic_reorder"}, {"purchase_completed", "automatic_reorder"}}
        \cup (IF v >= 4 THEN {{"stock_available", "automatic_reorder"}} ELSE {})
        \cup (IF v >= 5 THEN {{"low_balance", "purchase_completed"}} ELSE {})}

\* What somebody subscribed to, in terms of the types that are sent since 0004.
Subscribed(v, array) ==
    (BagToSet(array) \ {"automatic_reorder"})
    \cup (IF v < 4 /\ BagIn("automatic_reorder", array) THEN RequeueTypes ELSE {})

SettingsRows(v, fraction) ==
    [maximum : Rates, preferred : {IF v >= 5 THEN 40 ELSE Absent},
     low : {IF v >= 5 THEN 10 ELSE Absent}, critical : {IF v >= 5 THEN 5 ELSE Absent},
     commission : (IF v < 4 THEN {100 * fraction} ELSE {})
                  \cup (IF fraction <= 10000 THEN {fraction} ELSE {}),
     interval : IF v >= 3 THEN {300, 2000} ELSE {2000, 100000000},
     categories : Categories(v), mode : {IF v >= 6 THEN TRUE ELSE Absent}]

AttemptOf == [draft |-> "none", preorder |-> "cancelled", purchasing |-> "active",
              completed |-> "completed", cancelled |-> "cancelled", force_closed |-> "force_closed"]
AnyOrderRow ==
    [status : DOMAIN AttemptOf, limit : Nat, preferred : Nat \cup {Absent}, timeout : {35, Absent},
     fallback : BOOLEAN \cup {Absent}, attempt : {AttemptOf[s] : s \in DOMAIN AttemptOf},
     started : {"created_at", Absent}]
ASSUME NoRowAssumption == NoRow \notin AnyOrderRow

OrderRows(v) ==
    {[status |-> s, limit |-> l, preferred |-> p, timeout |-> IF p = Absent THEN Absent ELSE 35,
      fallback |-> f, attempt |-> AttemptOf[s],
      started |-> IF v >= 7 /\ s = "purchasing" THEN "created_at" ELSE Absent] :
        s \in {"draft", "preorder", "purchasing", "completed", "cancelled"}
              \cup (IF v >= 8 THEN {"force_closed"} ELSE {}),
        l \in Rates,
        p \in IF v >= 5 THEN {Absent, 40} ELSE {Absent},
        f \in IF v >= 5 THEN BOOLEAN ELSE {Absent}}

Labels(v) == (IF v >= 4 THEN RequeueTypes ELSE {}) \cup (IF v >= 5 THEN BalanceTypes ELSE {})

\* Any version the container may find, with rows of that version; no revision relates settings to
\* orders, so that one of the tables may be empty.
Init ==
    /\ version \in 0..Latest
    /\ labels = Labels(version)
    /\ closable = (version >= 8)
    /\ \E fraction \in Commissions :
         /\ settings \in {NoRow} \cup
                         (IF version = 0 \/ (version >= 4 /\ fraction > 10000)
                          THEN {} ELSE SettingsRows(version, fraction))
         /\ asked = [commission |-> fraction,
                     categories |-> IF settings = NoRow THEN {}
                                    ELSE Subscribed(version, settings.categories)]
    /\ orders \in [Orders -> {NoRow} \cup (IF version > 0 /\ settings = NoRow
                                         THEN OrderRows(version) ELSE {})]
    /\ \E retained \in BOOLEAN :
         /\ unverified = (retained /\ version >= 2)
         /\ sent = IF retained THEN labels ELSE {}
    /\ work = Absent
    /\ step = [pc |-> "off"]
    /\ holder = NoTask
    /\ job = [t \in Tasks |-> [pc |-> "idle"]]
    /\ container = "stopped"
    /\ crashes = 0
    /\ downgrades = 0

-----------------------------------------------------------------------------
StartContainer ==
    /\ container = "stopped"
    /\ BeginUpgrade
    /\ container' = "upgrading"
    /\ UNCHANGED <<holder, job, asked, crashes, downgrades>>

\* The program starts when the upgrade has finished; the container ends when it failed.
Upgrade ==
    /\ container = "upgrading"
    /\ UpgradeStep
    /\ container' = IF step'.pc # "off" THEN "upgrading"
                    ELSE IF version' = Latest THEN "running" ELSE "stopped"
    /\ UNCHANGED <<holder, job, asked, crashes, downgrades>>

\* Transactions in progress, of the upgrade or of handlers, are rolled back.
Crash ==
    /\ container # "stopped"
    /\ crashes < MaxCrashes
    /\ container' = "stopped"
    /\ EndCommand
    /\ holder' = NoTask
    /\ job' = [t \in Tasks |-> [pc |-> "idle"]]
    /\ crashes' = crashes + 1
    /\ UNCHANGED <<databaseVars, asked, downgrades>>

TakeBack ==
    /\ container = "stopped"
    /\ downgrades < MaxDowngrades
    /\ Downgrade
    /\ downgrades' = downgrades + 1
    /\ UNCHANGED <<holder, job, container, asked, crashes>>

Operate ==
    /\ container = "running"
    /\ SettingsNext
    /\ asked' = IF settings' = settings THEN asked
                ELSE [commission |-> IF settings # NoRow /\ settings'.commission = settings.commission
                                     THEN asked.commission ELSE settings'.commission,
                      categories |-> Subscribed(version, settings'.categories)]
    /\ UNCHANGED <<version, labels, closable, orders, unverified, sent, work, step, container,
                   crashes, downgrades>>

Next == StartContainer \/ Upgrade \/ Crash \/ TakeBack \/ Operate

\* Docker restarts the container and Alembic goes on; nobody has to tap anything.
Spec == Init /\ [][Next]_vars /\ WF_vars(StartContainer) /\ WF_vars(Upgrade)

-----------------------------------------------------------------------------
\* The container comes up whatever version it finds and wherever it was killed: no revision fails on
\* rows an earlier version could leave, and none is stopped by what its interrupted predecessor
\* left behind, since the values of an autocommit block are added IF NOT EXISTS.  Two rows of the
\* settings are refused, for ever: a commission above 100 percent by 0004, and by 0003 an interval
\* that numeric(8, 3) cannot hold, though 0003 would overwrite it.
Upgradable ==
    /\ version >= 3 \/ settings = NoRow \/ settings.interval < 100000000
    /\ version >= 4 \/ settings = NoRow \/ settings.commission <= 1000000
StartupCompletes == Upgradable ~> container = "running"

\* However often the upgrade is repeated, interrupted and taken back, the commission is the one the
\* operator set: converted from a percentage once, and never again.  A percentage of one or less
\* is taken for a fraction by 0004, which tells the two apart by their size: it stays a hundred
\* times what it should be, until somebody edits it.
CommissionConvertedOnce ==
    version >= 4 /\ settings # NoRow =>
        \/ settings.commission = asked.commission
        \/ asked.commission <= 100 /\ settings.commission = 100 * asked.commission

\* No category is lost, and none entered twice unless the environment lists it twice: what replaced
\* automatic_reorder is subscribed to by whoever had subscribed to it, through crashes, downgrades
\* and repeated upgrades.
SubscriptionsSurvive ==
    settings # NoRow =>
        LET array == settings.categories
            present == BagToSet(array)
        IN  /\ array = SetToBag(present) \/ array = Defaults.categories
            /\ version >= 4 =>
                 asked.categories \cap (Labels(version) \cup {"purchase_completed"}) \subseteq present
            /\ version < 4 => /\ asked.categories \cap {"purchase_completed"} \subseteq present
                              /\ asked.categories \cap RequeueTypes # {} => "automatic_reorder" \in present

\* effective_purchase_rate of the program the upgrade is for (domain/order/service.py).
EffectiveRate(row) ==
    IF row.preferred # Absent /\ row.fallback # TRUE THEN Least(row.preferred, row.limit) ELSE row.limit

\* An order that was waiting or being bought at its rate limit before there were preferred rates
\* goes on at that limit, and a finished order is left as it was, whatever else the upgrade did
\* between two commits.
UpgradeKeepsRates ==
    [][version < 5 /\ version' >= 5 =>
         \A o \in Orders : orders[o] # NoRow =>
            CASE orders[o].status \in {"preorder", "purchasing"} ->
                    EffectiveRate(orders'[o]) = orders[o].limit
              [] orders[o].status = "completed" -> orders'[o].preferred = Absent
              [] OTHER -> EffectiveRate(orders'[o]) <= orders[o].limit]_vars

=============================================================================
