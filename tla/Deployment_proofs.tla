-------------------------- MODULE Deployment_proofs --------------------------
(***************************************************************************)
(* Four properties of Deployment for any number of handlers, orders, kills *)
(* and downgrades, any edits and any defaults.                             *)
(*                                                                         *)
(* An edit of the settings is refused only for itself: it validates the    *)
(* row it read, and that still is the row when it writes, since whoever is *)
(* about to write has locked it, or has inserted it and nobody else's      *)
(* INSERT gets past (EditInv).                                             *)
(*                                                                         *)
(* The commission is converted once: the value the row has says, with the  *)
(* version, which of the two units it is in, also in a transaction that is *)
(* not committed and after a downgrade that leaves the fraction (RowInv).  *)
(*                                                                         *)
(* Orders keep their rates: what an uncommitted upgrade has made of them   *)
(* follows from the committed rows revision by revision, and 0005 commits  *)
(* its conversion whole (RatesInv).                                        *)
(*                                                                         *)
(* Subscriptions survive: at each version, committed or not, the row has   *)
(* each category once, and has what was asked for in the terms of that     *)
(* version (CategoriesInv).                                                *)
(***************************************************************************)
EXTENDS Deployment, TLAPS

-----------------------------------------------------------------------------
(***************************************************************************)
(* Edits                                                                   *)
(***************************************************************************)
\* A transaction that is about to write knows the row as it is.
Knows(t) ==
    At(t, "apply") =>
        /\ holder = t
        /\ job[t].row = IF settings = NoRow THEN Defaults ELSE settings

EditInv ==
    /\ DOMAIN job = Tasks
    /\ \A t \in Tasks : "pc" \in DOMAIN job[t]
    /\ \A t \in Tasks : Knows(t)
    /\ container # "running" => \A t \in Tasks : job[t].pc = "idle"

LEMMA InitEdits == Init => EditInv
  BY DEF Init, EditInv, Knows, At

\* What a step of one handler is, to the others.
Only(t) == DOMAIN job' = Tasks /\ \A u \in Tasks \ {t} : job'[u] = job[u]

LEMMA OnlyOne ==
  ASSUME EditInv, NEW t \in Tasks, NEW j, job' = [job EXCEPT ![t] = j]
  PROVE  Only(t) /\ job'[t] = j
BY DEF EditInv, Only

\* A handler that neither writes the row nor becomes ready to leaves what the others know.
LEMMA KeepsKnowing ==
  ASSUME EditInv, NEW t \in Tasks, Only(t), "pc" \in DOMAIN job'[t], job'[t].pc # "apply",
         container = "running", settings' = settings, container' = container,
         holder' = holder \/ (holder = t /\ holder' = NoTask)
  PROVE  EditInv'
BY TasksAssumption DEF EditInv, Knows, At, Only

\* A handler takes the row while nobody holds it.
LEMMA TakesTheRow ==
  ASSUME EditInv, NEW t \in Tasks, Only(t), "pc" \in DOMAIN job'[t],
         job'[t].row = IF settings = NoRow THEN Defaults ELSE settings,
         container = "running", settings' = settings, container' = container,
         holder = NoTask, holder' = t
  PROVE  EditInv'
BY TasksAssumption DEF EditInv, Knows, At, Only

LEMMA OperateEdits ==
  ASSUME EditInv, container = "running", container' = container, SettingsNext
  PROVE  EditInv'
<1>1. ASSUME NEW t \in Tasks, NEW button \in Toggles, Toggle(t, button) PROVE EditInv'
  <2>1. Only(t) /\ job'[t] = [pc |-> "select", edit |-> Toggled(settings, button)]
    BY <1>1, OnlyOne DEF Toggle, GoTo
  <2>2. QED
    BY <1>1, <2>1, KeepsKnowing DEF Toggle
<1>2. ASSUME NEW t \in Tasks, NEW edit \in Edits, Type(t, edit) PROVE EditInv'
  <2>1. Only(t) /\ job'[t] = [pc |-> "select", edit |-> edit]
    BY <1>2, OnlyOne DEF Type, GoTo
  <2>2. QED
    BY <1>2, <2>1, KeepsKnowing DEF Type
<1>3. ASSUME NEW t \in Tasks, Read(t) PROVE EditInv'
  <2>1. Only(t) /\ job'[t] = [pc |-> "insert", edit |-> <<>>]
    BY <1>3, OnlyOne DEF Read, GoTo
  <2>2. QED
    BY <1>3, <2>1, KeepsKnowing DEF Read
<1>4. ASSUME NEW t \in Tasks, SelectForUpdate(t) PROVE EditInv'
  <2>1. CASE settings = NoRow
    <3>1. /\ "pc" \in DOMAIN [job[t] EXCEPT !.pc = "insert"]
          /\ [job[t] EXCEPT !.pc = "insert"].pc # "apply"
      BY DEF EditInv
    <3>2. QED
      BY <1>4, <2>1, <3>1, OnlyOne, KeepsKnowing DEF SelectForUpdate, GoTo
  <2>2. CASE settings # NoRow
    BY <1>4, <2>2, OnlyOne, TakesTheRow DEF SelectForUpdate, CanLock, GoTo
  <2>3. QED
    BY <2>1, <2>2
<1>5. ASSUME NEW t \in Tasks, Insert(t) PROVE EditInv'
  <2>1. CASE settings = NoRow
    BY <1>5, <2>1, OnlyOne, TakesTheRow DEF Insert, GoTo
  <2>2. CASE settings # NoRow
    <3>1. Only(t) /\ job'[t] = [pc |-> "refused", why |-> "changed"]
      BY <1>5, <2>2, OnlyOne DEF Insert, Refuse, GoTo
    <3>2. QED
      BY <1>5, <2>2, <3>1, KeepsKnowing DEF Insert
  <2>3. QED
    BY <2>1, <2>2
<1>6. ASSUME NEW t \in Tasks, Apply(t) PROVE EditInv'
  <2>1. holder = t /\ holder' = NoTask
    BY <1>6 DEF Apply, EditInv, Knows, Release
  <2>2. Only(t) /\ job'[t].pc \in {"idle", "refused"} /\ "pc" \in DOMAIN job'[t]
    <3>1. End(t) \/ \E why \in {"invalid", "changed"} : Refuse(t, why)
      BY <1>6 DEF Apply
    <3>2. \E j \in {[pc |-> "idle"]} \cup {[pc |-> "refused", why |-> w] : w \in {"invalid", "changed"}} :
            Only(t) /\ job'[t] = j
      BY <3>1, OnlyOne DEF Refuse, End, GoTo
    <3>3. QED
      BY <3>2
  <2>3. ASSUME NEW u \in Tasks \ {t} PROVE ~At(u, "apply")
    BY <2>1 DEF EditInv, Knows
  <2>4. QED
    BY <2>2, <2>3 DEF EditInv, Knows, At, Only
<1>7. ASSUME NEW t \in Tasks, Rollback(t) PROVE EditInv'
  <2>1. Only(t) /\ job'[t] = [pc |-> "idle"]
    BY <1>7, OnlyOne DEF Rollback, End, GoTo
  <2>2. QED
    BY <1>7, <2>1, KeepsKnowing DEF Rollback, Release
<1>8. ASSUME NEW t \in Tasks, Answer(t) PROVE EditInv'
  <2>1. Only(t) /\ job'[t] = [pc |-> "idle"]
    BY <1>8, OnlyOne DEF Answer, End, GoTo
  <2>2. QED
    BY <1>8, <2>1, KeepsKnowing DEF Answer
<1>9. QED
  BY <1>1, <1>2, <1>3, <1>4, <1>5, <1>6, <1>7, <1>8 DEF SettingsNext

LEMMA StepEdits == EditInv /\ [Next]_vars => EditInv'
<1> SUFFICES ASSUME EditInv, [Next]_vars PROVE EditInv'
  OBVIOUS
<1>1. CASE StartContainer
  BY <1>1 DEF StartContainer, BeginUpgrade, databaseVars, EditInv, Knows, At
<1>2. CASE Upgrade
  <2>1. \A t \in Tasks : job[t].pc = "idle"
    BY <1>2 DEF Upgrade, EditInv
  <2>2. QED
    BY <1>2, <2>1 DEF Upgrade, EditInv, Knows, At
<1>3. CASE Crash
  BY <1>3 DEF Crash, EditInv, Knows, At
<1>4. CASE TakeBack
  <2>1. \A t \in Tasks : job[t].pc = "idle"
    BY <1>4 DEF TakeBack, EditInv
  <2>2. QED
    BY <1>4, <2>1 DEF TakeBack, EditInv, Knows, At
<1>5. CASE Operate
  BY <1>5, OperateEdits DEF Operate
<1>6. CASE UNCHANGED vars
  BY <1>6 DEF vars, EditInv, Knows, At
<1>7. QED
  BY <1>1, <1>2, <1>3, <1>4, <1>5, <1>6 DEF Next

\* Only the Apply of a handler refuses what the handler was about to write.
LEMMA RefusalIsApply ==
  ASSUME EditInv, [Next]_vars, NEW t \in Tasks, At(t, "apply"), job'[t].pc = "refused"
  PROVE  Apply(t)
<1>1. job[t].pc = "apply" /\ job' # job
  BY DEF At
<1>2. SettingsNext
  BY <1>1 DEF Next, vars, StartContainer, Upgrade, Crash, TakeBack, Operate
<1>3. PICK u \in Tasks : \/ Read(u) \/ SelectForUpdate(u) \/ Insert(u) \/ Apply(u) \/ Rollback(u) \/ Answer(u)
                         \/ \E button \in Toggles : Toggle(u, button)
                         \/ \E edit \in Edits : Type(u, edit)
  BY <1>2 DEF SettingsNext
<1>4. CASE u = t
  <2>1. ~Rollback(t)
    BY OnlyOne DEF Rollback, End, GoTo
  <2>2. QED
    BY <1>1, <1>3, <1>4, <2>1 DEF Read, SelectForUpdate, Insert, Answer, Toggle, Type, At
<1>5. CASE u # t
  <2>1. Only(u)
    BY <1>3, OnlyOne DEF Read, SelectForUpdate, Insert, Apply, Rollback, Answer, Toggle, Type, GoTo, End, Refuse
  <2>2. QED
    BY <1>1, <1>5, <2>1 DEF Only
<1>6. QED
  BY <1>4, <1>5

LEMMA RefusedForItself ==
  ASSUME EditInv, [Next]_vars, NEW t \in Tasks, At(t, "apply"), job'[t].pc = "refused"
  PROVE  /\ job'[t].why = "invalid"
         /\ ~IsValid(Updated(IF settings = NoRow THEN Defaults ELSE settings, job[t].edit))
<1>1. Apply(t)
  BY RefusalIsApply
<1>2. job[t].row = IF settings = NoRow THEN Defaults ELSE settings
  BY DEF EditInv, Knows
<1>3. Refuse(t, "invalid") /\ ~IsValid(Updated(job[t].row, job[t].edit))
  <2>1. job[t].row = IF settings = NoRow THEN job[t].row ELSE settings
    BY <1>2
  <2>2. ~End(t)
    <3>1. End(t) => job'[t] = [pc |-> "idle"]
      BY OnlyOne DEF End, GoTo
    <3>2. QED
      BY <3>1
  <2>3. QED
    BY <1>1, <2>1, <2>2 DEF Apply
<1>4. job'[t] = [pc |-> "refused", why |-> "invalid"]
  BY <1>3, OnlyOne DEF Refuse, GoTo
<1>5. QED
  BY <1>2, <1>3, <1>4

\* An edit of the settings is refused for what it would make of the row as it stands, whatever other
\* handlers edit at the same time (update_setting with get_current_for_update).
THEOREM EditsAreRefusedForThemselves == Spec => EditRefusedOnlyForItself
<1>1. EditInv /\ [Next]_vars
        => [\A t \in Tasks :
              At(t, "apply") /\ job'[t].pc = "refused" =>
                 /\ job'[t].why = "invalid"
                 /\ ~IsValid(Updated(IF settings = NoRow THEN Defaults ELSE settings, job[t].edit))]_settingsVars
  BY RefusedForItself
<1>2. QED
  BY <1>1, InitEdits, StepEdits, PTL DEF Spec, EditRefusedOnlyForItself

-----------------------------------------------------------------------------
(***************************************************************************)
(* The commission                                                          *)
(***************************************************************************)
\* The commission of a row of that version is the one that was asked for: as a fraction, or as a
\* percentage, which since 0004 only one of the small percentages can be that are taken for one.
Kept(v, row) ==
    row # NoRow =>
        /\ "commission" \in DOMAIN row
        /\ asked.commission \in Nat
        /\ \/ row.commission = asked.commission /\ asked.commission <= 10000
           \/ row.commission = 100 * asked.commission /\ (v < 4 \/ asked.commission <= 100)

WorkKept ==
    /\ {"version", "settings"} \subseteq DOMAIN work
    /\ work.version \in 0..Latest
    /\ Kept(work.version, work.settings)

RowInv ==
    /\ version \in 0..Latest
    /\ Kept(version, settings)
    /\ "pc" \in DOMAIN step
    /\ step.pc # "off" => WorkKept
    /\ step.pc = "block" => version < Latest /\ work.version < Latest
    /\ container # "upgrading" => step.pc = "off"

LEMMA InitRow == Init => RowInv
<1> SUFFICES ASSUME Init PROVE RowInv
  OBVIOUS
<1>1. version \in 0..Latest /\ step = [pc |-> "off"]
  BY DEF Init
<1>2. Kept(version, settings)
  <2> SUFFICES ASSUME settings # NoRow PROVE Kept(version, settings)
    BY DEF Kept
  <2>1. PICK fraction \in Commissions :
          /\ ~(version >= 4 /\ fraction > 10000)
          /\ settings \in SettingsRows(version, fraction)
          /\ asked.commission = fraction
    BY DEF Init
  <2>2. fraction \in Nat
    BY CommissionAssumption
  <2>3. /\ "commission" \in DOMAIN settings
        /\ settings.commission \in (IF version < 4 THEN {100 * fraction} ELSE {})
                                   \cup (IF fraction <= 10000 THEN {fraction} ELSE {})
    BY <2>1 DEF SettingsRows
  <2>4. QED
    BY <1>1, <2>1, <2>2, <2>3 DEF Kept, Latest
<1>3. QED
  BY <1>1, <1>2 DEF RowInv

\* A revision that leaves the commission alone, in either direction.
LEMMA SameCommission ==
  ASSUME NEW v \in Nat, NEW w \in Nat, NEW row, NEW new, Kept(v, row), w >= 4 => v >= 4,
         row = NoRow => new = NoRow,
         "commission" \in DOMAIN row => "commission" \in DOMAIN new /\ new.commission = row.commission
  PROVE  Kept(w, new)
BY DEF Kept

\* Fractions, and percentages of one or less, stay; any other percentage becomes a fraction.
LEMMA Normalized ==
  ASSUME NEW f \in Nat, NEW c, c <= 1000000, (c = f /\ f <= 10000) \/ c = 100 * f
  PROVE  \/ NormalizedCommission(c) = f /\ f <= 10000
         \/ NormalizedCommission(c) = 100 * f /\ f <= 100
<1> USE DEF NormalizedCommission, Percent, Fraction
<1>1. CASE c <= 10000
  BY <1>1
<1>2. CASE c > 10000
  <2>1. c = 100 * f /\ f <= 10000
    BY <1>2
  <2>2. (100 * f + 50) \div 100 = f
    OBVIOUS
  <2>3. QED
    BY <1>2, <2>1, <2>2
<1>3. QED
  BY <1>1, <1>2

LEMMA UpKeeps ==
  ASSUME NEW d, NEW n \in 1..Latest, Kept(n - 1, d.settings), Upgraded(n, d) # Refused,
         {"version", "settings"} \subseteq DOMAIN d
  PROVE  /\ Kept(n, Upgraded(n, d).settings)
         /\ {"version", "settings"} \subseteq DOMAIN Upgraded(n, d)
<1> USE DEF UpdateSettings, UpdateOrders
<1>1. CASE n \in {1, 2, 8}
  <2>1. Upgraded(n, d) = d
    BY <1>1 DEF Upgraded, Up1, Up2, Up8
  <2>2. QED
    BY <1>1, <2>1, SameCommission
<1>2. CASE n = 3
  <2>1. Upgraded(n, d) = Up3(d)
    BY <1>2 DEF Upgraded
  <2>2. Up3(d) = [d EXCEPT !.settings = UpdateSettings(d, LAMBDA r : [r EXCEPT !.interval = 300])]
    BY <2>1 DEF Up3
  <2>3. QED
    BY <1>2, <2>1, <2>2, SameCommission
<1>3. CASE n = 4
  <2>1. Upgraded(n, d) = Up4(d)
    BY <1>3 DEF Upgraded
  <2>2. CASE d.settings = NoRow
    BY <1>3, <2>1, <2>2 DEF Up4, Kept
  <2>3. CASE d.settings # NoRow
    <3>1. d.settings.commission <= 1000000
      BY <2>1, <2>3 DEF Up4, SettingsSatisfy
    <3>2. /\ Up4(d).settings.commission = NormalizedCommission(d.settings.commission)
          /\ "commission" \in DOMAIN Up4(d).settings
          /\ {"version", "settings"} \subseteq DOMAIN Up4(d)
      BY <2>1, <2>3 DEF Up4, Kept
    <3>3. \/ /\ NormalizedCommission(d.settings.commission) = asked.commission
             /\ asked.commission <= 10000
          \/ /\ NormalizedCommission(d.settings.commission) = 100 * asked.commission
             /\ asked.commission <= 100
      BY <1>3, <2>3, <3>1, Normalized DEF Kept
    <3>4. QED
      BY <2>1, <2>3, <3>2, <3>3 DEF Kept
  <2>4. QED
    BY <2>2, <2>3
<1>4. CASE n = 5
  <2>1. Upgraded(n, d) = Up5(d)
    BY <1>4 DEF Upgraded
  <2>2. /\ {"version", "settings"} \subseteq DOMAIN Up5(d)
        /\ d.settings = NoRow => Up5(d).settings = NoRow
        /\ d.settings # NoRow /\ "commission" \in DOMAIN d.settings
             => "commission" \in DOMAIN Up5(d).settings /\ Up5(d).settings.commission = d.settings.commission
    BY <2>1 DEF Up5
  <2>3. QED
    BY <1>4, <2>1, <2>2, SameCommission DEF Kept
<1>5. CASE n = 6
  <2>1. Upgraded(n, d) = Up6(d)
    BY <1>5 DEF Upgraded
  <2>2. QED
    BY <1>5, <2>1, SameCommission DEF Up6
<1>6. CASE n = 7
  <2>1. Upgraded(n, d) = Up7(d)
    BY <1>6 DEF Upgraded
  <2>2. Up7(d).settings = d.settings /\ {"version", "settings"} \subseteq DOMAIN Up7(d)
    BY DEF Up7
  <2>3. Kept(6, d.settings)
    BY <1>6
  <2>4. Kept(7, d.settings)
    BY <2>3 DEF Kept
  <2>5. QED
    BY <1>6, <2>1, <2>2, <2>4
<1>7. QED
  BY <1>1, <1>2, <1>3, <1>4, <1>5, <1>6 DEF Latest

LEMMA DownKeeps ==
  ASSUME NEW d, NEW n \in 2..Latest, Kept(n, d.settings), Downgraded(n, d) # Refused,
         {"version", "settings"} \subseteq DOMAIN d
  PROVE  Kept(n - 1, Downgraded(n, d).settings) /\ {"version", "settings"} \subseteq DOMAIN Downgraded(n, d)
<1> USE DEF UpdateSettings, UpdateOrders
<1>1. CASE n \in {2, 3, 8}
  <2>1. Downgraded(n, d) = d
    BY <1>1 DEF Downgraded, Down2, Down3, Down8
  <2>2. QED
    BY <1>1, <2>1, SameCommission
<1>2. CASE n = 4
  <2>1. Downgraded(n, d) = Down4(d)
    BY <1>2 DEF Downgraded
  <2>2. /\ {"version", "settings"} \subseteq DOMAIN Down4(d)
        /\ d.settings = NoRow => Down4(d).settings = NoRow
        /\ d.settings # NoRow /\ "commission" \in DOMAIN d.settings
             => "commission" \in DOMAIN Down4(d).settings /\ Down4(d).settings.commission = d.settings.commission
    BY <2>1 DEF Down4
  <2>3. QED
    BY <1>2, <2>1, <2>2, SameCommission DEF Kept
<1>3. CASE n = 5
  <2>1. Downgraded(n, d) = Down5(d)
    BY <1>3 DEF Downgraded
  <2>2. /\ {"version", "settings"} \subseteq DOMAIN Down5(d)
        /\ d.settings = NoRow => Down5(d).settings = NoRow
        /\ d.settings # NoRow /\ "commission" \in DOMAIN d.settings
             => "commission" \in DOMAIN Down5(d).settings /\ Down5(d).settings.commission = d.settings.commission
    BY <2>1 DEF Down5
  <2>3. QED
    BY <1>3, <2>1, <2>2, SameCommission DEF Kept
<1>4. CASE n = 6
  <2>1. Downgraded(n, d) = Down6(d)
    BY <1>4 DEF Downgraded
  <2>2. QED
    BY <1>4, <2>1, SameCommission DEF Down6
<1>5. CASE n = 7
  <2>1. Downgraded(n, d) = Down7(d)
    BY <1>5 DEF Downgraded
  <2>2. Down7(d).settings = d.settings /\ {"version", "settings"} \subseteq DOMAIN Down7(d)
    BY DEF Down7
  <2>3. QED
    BY <1>5, <2>1, <2>2, SameCommission
<1>6. QED
  BY <1>1, <1>2, <1>3, <1>4, <1>5 DEF Latest

LEMMA AFraction == ASSUME NEW c, c \in CommissionRates PROVE c \in Nat /\ c <= 10000
BY DEF CommissionRates

LEMMA ValidCommission == ASSUME NEW row, IsValid(row) PROVE row.commission \in CommissionRates
BY DEF IsValid

\* What handlers write is a valid row, and what was asked for is what they write.
LEMMA OperateKeeps ==
  ASSUME EditInv, RowInv, Operate
  PROVE  Kept(version, settings)'
<1>1. container = "running" /\ version' = version /\ version \in Nat
  BY DEF Operate, RowInv, Latest
<1>2. CASE settings' = settings
  <2>1. asked' = asked
    BY <1>2 DEF Operate
  <2>2. QED
    BY <1>1, <1>2, <2>1 DEF RowInv, Kept
<1>3. CASE settings' # settings
  <2>1. PICK t \in Tasks : Apply(t)
    BY <1>3 DEF Operate, SettingsNext, Read, SelectForUpdate, Insert, Rollback, Answer, Toggle, Type
  <2> DEFINE row == IF settings = NoRow THEN Defaults ELSE settings
  <2>2. job[t].row = row
    BY <2>1 DEF Apply, EditInv, Knows
  <2>3. settings' = Updated(row, job[t].edit) /\ IsValid(Updated(row, job[t].edit))
    BY <1>3, <2>1, <2>2 DEF Apply
  <2>4. "commission" \in DOMAIN row
    BY DefaultsAssumption DEF RowInv, Kept
  <2>5. "commission" \in DOMAIN settings'
    BY <2>3, <2>4 DEF Updated
  <2>6. CASE settings # NoRow /\ settings'.commission = settings.commission
    <3>1. asked'.commission = asked.commission
      BY <1>3, <2>6 DEF Operate
    <3>2. QED
      BY <1>1, <2>5, <2>6, <3>1 DEF RowInv, Kept
  <2>7. settings'.commission \in CommissionRates
    <3> HIDE DEF row
    <3>1. IsValid(settings')
      BY <2>3
    <3>2. QED
      BY <3>1, ValidCommission
  <2>8. CASE ~(settings # NoRow /\ settings'.commission = settings.commission)
    <3>1. asked'.commission = settings'.commission
      BY <1>3, <2>8 DEF Operate
    <3>2. asked'.commission \in Nat /\ asked'.commission <= 10000
      BY <2>7, <3>1, AFraction, SMTT(30)
    <3>3. QED
      BY <2>5, <3>1, <3>2 DEF Kept
  <2>9. QED
    BY <2>6, <2>8
<1>4. QED
  BY <1>2, <1>3

LEMMA CommittedKept ==
  ASSUME RowInv
  PROVE  /\ {"version", "settings"} \subseteq DOMAIN Committed
         /\ Committed.version = version /\ Committed.settings = settings
BY DEF Committed

LEMMA UpgradeKeeps ==
  ASSUME RowInv, Upgrade
  PROVE  RowInv'
<1>1. container = "upgrading" /\ asked' = asked /\ (container' = "upgrading" \/ step'.pc = "off")
  BY DEF Upgrade
<1>2. ASSUME NEW v, NEW row, Kept(v, row) PROVE Kept(v, row)'
  BY <1>1, <1>2 DEF Kept
<1>3. CASE EnterBlock
  <2>1. step.pc # "off" /\ WorkKept /\ work' = work /\ step' = [pc |-> "block", left |-> BlockOf(NextVersion)]
    BY <1>3 DEF EnterBlock, Resume, RowInv
  <2>2. work.version < Latest /\ version' = work.version /\ settings' = work.settings
    BY <1>3 DEF EnterBlock, Commit
  <2>3. WorkKept' /\ Kept(version, settings)'
    BY <1>1, <2>1, <2>2 DEF WorkKept, Kept
  <2>4. QED
    BY <1>1, <2>1, <2>2, <2>3 DEF RowInv, WorkKept
<1>4. CASE AddValue
  <2> DEFINE d == WithValue(Committed, Head(step.left))
  <2>1. step.pc = "block" /\ version < Latest
    BY <1>4 DEF AddValue, RowInv
  <2>2. d.version = version /\ d.settings = settings /\ {"version", "settings"} \subseteq DOMAIN d
    BY DEF WithValue, Committed
  <2>3. CASE d = Refused
    <3>1. step' = [pc |-> "off"] /\ version' = version /\ settings' = settings
      BY <1>4, <2>3 DEF AddValue, EndCommand, databaseVars
    <3>2. QED
      BY <1>1, <3>1 DEF RowInv, Kept
  <2>4. CASE d # Refused
    <3>1. Commit(d) /\ Resume(d, [step EXCEPT !.left = Tail(@)])
      BY <1>4, <2>4 DEF AddValue
    <3>2. work' = d /\ version' = version /\ settings' = settings
      BY <2>2, <3>1 DEF Commit, Resume
    <3>3. step'.pc = "block" /\ "pc" \in DOMAIN step'
      BY <2>1, <3>1 DEF Resume, RowInv
    <3>4. Kept(version, settings)'
      BY <1>1, <3>2 DEF RowInv, Kept
    <3>5. WorkKept'
      BY <2>2, <3>2, <3>4 DEF WorkKept, RowInv
    <3>6. QED
      BY <1>1, <2>1, <2>2, <3>2, <3>3, <3>4, <3>5 DEF RowInv
  <2>5. QED
    BY <2>3, <2>4
<1>5. CASE RunRevision
  <2> DEFINE d == Upgraded(NextVersion, work)
  <2>1. step.pc # "off" /\ WorkKept /\ work.version < Latest
    BY <1>5 DEF RunRevision, RowInv
  <2>2. version' = version /\ settings' = settings /\ Kept(version, settings)'
    BY <1>1, <1>5 DEF RunRevision, databaseVars, RowInv, Kept
  <2>3. CASE d = Refused
    <3>1. step' = [pc |-> "off"]
      BY <1>5, <2>3 DEF RunRevision, EndCommand
    <3>2. QED
      BY <1>1, <2>2, <3>1 DEF RowInv
  <2>4. CASE d # Refused
    <3>1. work' = [d EXCEPT !.version = NextVersion] /\ step' = [pc |-> "revision"]
      BY <1>5, <2>4 DEF RunRevision, Resume
    <3>2. NextVersion \in 1..Latest /\ NextVersion - 1 = work.version
      BY <2>1 DEF NextVersion, WorkKept, Latest
    <3>3. Kept(NextVersion, d.settings) /\ {"version", "settings"} \subseteq DOMAIN d
      BY <2>1, <2>4, <3>2, UpKeeps DEF WorkKept
    <3>4. work'.version = NextVersion /\ work'.settings = d.settings /\ {"version", "settings"} \subseteq DOMAIN work'
      BY <3>1, <3>3
    <3>5. WorkKept'
      BY <1>1, <3>2, <3>3, <3>4 DEF WorkKept, Kept, Latest
    <3>6. QED
      BY <1>1, <2>2, <3>1, <3>5 DEF RowInv
  <2>5. QED
    BY <2>3, <2>4
<1>6. CASE FinishUpgrade
  <2>1. WorkKept /\ version' = work.version /\ settings' = work.settings /\ step' = [pc |-> "off"]
    BY <1>6 DEF FinishUpgrade, RowInv, Commit, EndCommand
  <2>2. QED
    BY <1>1, <2>1 DEF RowInv, WorkKept, Kept
<1>7. QED
  BY <1>3, <1>4, <1>5, <1>6 DEF Upgrade, UpgradeStep

LEMMA TakeBackKeeps ==
  ASSUME RowInv, TakeBack
  PROVE  RowInv'
<1> DEFINE d == Downgraded(version, Committed)
<1>1. version \in 2..Latest /\ step.pc = "off" /\ step' = step /\ asked' = asked
  BY DEF TakeBack, Downgrade, RowInv, Latest
<1>2. d # Refused /\ Commit([d EXCEPT !.version = version - 1])
  BY DEF TakeBack, Downgrade
<1>3. Kept(version - 1, d.settings) /\ {"version", "settings"} \subseteq DOMAIN d
  BY <1>1, <1>2, CommittedKept, DownKeeps DEF RowInv
<1>4. version' = version - 1 /\ settings' = d.settings
  BY <1>2, <1>3 DEF Commit
<1>5. Kept(version, settings)'
  BY <1>1, <1>3, <1>4 DEF Kept
<1>6. QED
  BY <1>1, <1>4, <1>5 DEF RowInv, Latest

LEMMA StepRow == EditInv /\ RowInv /\ [Next]_vars => RowInv'
<1> SUFFICES ASSUME EditInv, RowInv, [Next]_vars PROVE RowInv'
  OBVIOUS
<1>1. CASE StartContainer
  <2>1. /\ work' = Committed /\ step' = [pc |-> "revision"] /\ container' = "upgrading"
        /\ version' = version /\ settings' = settings /\ asked' = asked
    BY <1>1 DEF StartContainer, BeginUpgrade, Resume, databaseVars
  <2>2. Kept(version, settings)'
    BY <2>1 DEF RowInv, Kept
  <2>3. WorkKept'
    BY <2>1, <2>2, CommittedKept DEF WorkKept, RowInv
  <2>4. QED
    BY <2>1, <2>2, <2>3 DEF RowInv
<1>2. CASE Upgrade
  BY <1>2, UpgradeKeeps
<1>3. CASE Crash
  BY <1>3 DEF Crash, EndCommand, databaseVars, RowInv, Kept
<1>4. CASE TakeBack
  BY <1>4, TakeBackKeeps
<1>5. CASE Operate
  <2>1. step' = step /\ step.pc = "off" /\ version' = version
    BY <1>5 DEF Operate, RowInv
  <2>2. QED
    BY <1>5, <2>1, OperateKeeps DEF RowInv
<1>6. CASE UNCHANGED vars
  BY <1>6 DEF vars, RowInv, WorkKept, Kept
<1>7. QED
  BY <1>1, <1>2, <1>3, <1>4, <1>5, <1>6 DEF Next

\* The commission is the one the operator set, however often the container is killed, the upgrade
\* repeated and taken back: 0004 converts no value twice, and none that is a fraction already.  The
\* exception is a percentage of one or less, which 0004 leaves as it is, a hundred times too big.
THEOREM CommissionIsConvertedOnce == Spec => []CommissionConvertedOnce
<1>1. EditInv /\ RowInv => CommissionConvertedOnce
  BY DEF RowInv, Kept, Latest, CommissionConvertedOnce
<1>2. QED
  BY <1>1, InitEdits, StepEdits, InitRow, StepRow, PTL DEF Spec

-----------------------------------------------------------------------------
(***************************************************************************)
(* The rates of orders                                                     *)
(***************************************************************************)
\* A row of an order in that version: there are no preferred rates before 0005.
OrderRow(v, row) == row = NoRow \/ (row \in AnyOrderRow /\ (v < 5 => row.preferred = Absent))
OrderTable(v, table) == \A o \in Orders : OrderRow(v, table[o])

\* What 0005 and the revisions after it make of a row.
Converted(old, new) ==
    /\ new \in AnyOrderRow
    /\ old.status \in {"preorder", "purchasing"} => EffectiveRate(new) = old.limit
    /\ old.status = "completed" => new.preferred = Absent
    /\ old.status \notin {"preorder", "purchasing", "completed"} => EffectiveRate(new) <= old.limit

\* While the committed version has no preferred rates, the transaction has the committed rows, or
\* what 0005 makes of them.
Follows(v, table) ==
    version < 5 =>
        \A o \in Orders : IF v < 5 THEN table[o] = orders[o]
                          ELSE orders[o] # NoRow => Converted(orders[o], table[o])

RatesInv ==
    /\ OrderTable(version, orders)
    /\ step.pc # "off" =>
         /\ "orders" \in DOMAIN work
         /\ OrderTable(work.version, work.orders)
         /\ Follows(work.version, work.orders)

LEMMA InitialRow ==
  ASSUME NEW v \in 0..Latest, NEW row \in OrderRows(v)
  PROVE  OrderRow(v, row)
<1> DEFINE Statuses == {"draft", "preorder", "purchasing", "completed", "cancelled"}
                       \cup (IF v >= 8 THEN {"force_closed"} ELSE {})
           Preferred == IF v >= 5 THEN {Absent, 40} ELSE {Absent}
           Fallback == IF v >= 5 THEN BOOLEAN ELSE {Absent}
           Made(s, l, p, f) ==
             [status |-> s, limit |-> l, preferred |-> p,
              timeout |-> IF p = Absent THEN Absent ELSE 35,
              fallback |-> f, attempt |-> AttemptOf[s],
              started |-> IF v >= 7 /\ s = "purchasing" THEN "created_at" ELSE Absent]
<1>1. ASSUME NEW s \in Statuses, NEW l \in Rates, NEW p \in Preferred, NEW f \in Fallback
      PROVE  Made(s, l, p, f) \in AnyOrderRow /\ (v < 5 => Made(s, l, p, f).preferred = Absent)
  <2>1. s \in DOMAIN AttemptOf
    BY DEF AttemptOf
  <2>2. l \in Nat
    BY BoundsAssumption
  <2>3. f \in BOOLEAN \cup {Absent}
    BY Zenon
  <2>4. p \in Nat \cup {Absent} /\ (v < 5 => p = Absent)
    BY DEF Latest
  <2> HIDE DEF Statuses, Preferred, Fallback
  <2> QED BY <2>1, <2>2, <2>3, <2>4 DEF AnyOrderRow
<1>2. OrderRows(v) = {Made(s, l, p, f) : s \in Statuses, l \in Rates, p \in Preferred, f \in Fallback}
  BY DEF OrderRows
<1> HIDE DEF Statuses, Preferred, Fallback, Made
<1>3. row \in AnyOrderRow /\ (v < 5 => row.preferred = Absent)
  BY <1>1, <1>2
<1> QED BY <1>3 DEF OrderRow

LEMMA InitRates == Init => RatesInv
<1> SUFFICES ASSUME Init PROVE RatesInv
  OBVIOUS
<1>1. version \in 0..Latest /\ step.pc = "off"
  BY DEF Init
<1>2. ASSUME NEW o \in Orders PROVE OrderRow(version, orders[o])
  <2>1. orders[o] = NoRow \/ orders[o] \in OrderRows(version)
    BY DEF Init
  <2> QED BY <1>1, <2>1, InitialRow DEF OrderRow
<1> QED BY <1>1, <1>2 DEF RatesInv, OrderTable

LEMMA LeastIsLess == ASSUME NEW a \in Nat PROVE Least(a, 43) \in Nat /\ Least(Least(a, 43), a) <= a
BY DEF Least

\* One row through 0005.
LEMMA FillOrder ==
  ASSUME NEW row \in AnyOrderRow, row.preferred = Absent,
         NEW added, added = [row EXCEPT !.fallback = FALSE],
         NEW new, new = PreferredBackfill(added)
  PROVE  added \in AnyOrderRow /\ Converted(row, new)
<1>1. /\ added \in AnyOrderRow /\ added.limit = row.limit /\ added.status = row.status
      /\ added.preferred = Absent /\ row.limit \in Nat /\ added.fallback = FALSE
  BY DEF AnyOrderRow
<1>2. CASE row.status = "completed"
  <2>1. new = added
    BY <1>1, <1>2 DEF PreferredBackfill
  <2> QED BY <1>1, <1>2, <2>1 DEF Converted
<1>3. CASE row.status # "completed"
  <2>1. new = [added EXCEPT !.preferred = Least(added.limit, 43), !.timeout = 35,
                            !.fallback = added.status \in {"preorder", "purchasing"}]
    BY <1>1, <1>3 DEF PreferredBackfill
  <2>2. Least(row.limit, 43) \in Nat /\ Least(Least(row.limit, 43), row.limit) <= row.limit
    BY <1>1, LeastIsLess
  <2>3. CASE row.status \in {"preorder", "purchasing"}
    <3>1. new = [added EXCEPT !.preferred = Least(row.limit, 43), !.timeout = 35, !.fallback = TRUE]
      BY <1>1, <2>1, <2>3
    <3>2. new \in AnyOrderRow /\ new.limit = row.limit /\ new.fallback = TRUE
      BY <1>1, <2>2, <3>1 DEF AnyOrderRow
    <3>3. EffectiveRate(new) = row.limit
      BY <3>2 DEF EffectiveRate
    <3> QED BY <1>1, <1>3, <2>3, <3>2, <3>3 DEF Converted
  <2>4. CASE row.status \notin {"preorder", "purchasing"}
    <3>0. (added.status \in {"preorder", "purchasing"}) = FALSE
      BY <1>1, <2>4
    <3>1. new = [added EXCEPT !.preferred = Least(row.limit, 43), !.timeout = 35, !.fallback = FALSE]
      BY <1>1, <2>1, <3>0
    <3>2. new \in AnyOrderRow /\ new.limit = row.limit /\ new.preferred = Least(row.limit, 43)
      BY <1>1, <2>2, <3>1 DEF AnyOrderRow
    <3>3. EffectiveRate(new) \in {Least(Least(row.limit, 43), row.limit), row.limit}
      BY <3>2 DEF EffectiveRate
    <3>4. EffectiveRate(new) <= row.limit
      BY <1>1, <2>2, <3>3
    <3> QED BY <1>1, <1>3, <2>4, <3>2, <3>4 DEF Converted
  <2> QED BY <2>3, <2>4
<1> QED BY <1>1, <1>2, <1>3

\* A row whose rates are left alone.
LEMMA SameRates ==
  ASSUME NEW old, NEW row, Converted(old, row), NEW new \in AnyOrderRow,
         new.limit = row.limit, new.preferred = row.preferred, new.fallback = row.fallback
  PROVE  Converted(old, new)
BY DEF Converted, EffectiveRate

LEMMA StartOrder ==
  ASSUME NEW row \in AnyOrderRow, NEW x \in {"created_at", Absent},
         NEW new, new = [row EXCEPT !.started = x]
  PROVE  /\ new \in AnyOrderRow /\ new.preferred = row.preferred
         /\ \A old : Converted(old, row) => Converted(old, new)
<1>1. /\ new \in AnyOrderRow /\ new.preferred = row.preferred
      /\ new.limit = row.limit /\ new.fallback = row.fallback
  BY DEF AnyOrderRow
<1> QED BY <1>1, SameRates

LEMMA NoOrder == ASSUME NEW old, Converted(old, NoRow) PROVE FALSE
BY NoRowAssumption DEF Converted

\* What a revision makes of the orders.
LEMMA UpOrders ==
  ASSUME NEW d, NEW n \in 1..Latest, OrderTable(n - 1, d.orders), Upgraded(n, d) # Refused,
         {"version", "settings", "orders"} \subseteq DOMAIN d
  PROVE  /\ "orders" \in DOMAIN Upgraded(n, d)
         /\ OrderTable(n, Upgraded(n, d).orders)
         /\ \A o \in Orders :
              /\ n < 5 => Upgraded(n, d).orders[o] = d.orders[o]
              /\ n = 5 /\ d.orders[o] # NoRow => Converted(d.orders[o], Upgraded(n, d).orders[o])
              /\ n > 5 => \A old : Converted(old, d.orders[o]) => Converted(old, Upgraded(n, d).orders[o])
<1> PICK up : up = Upgraded(n, d)
  OBVIOUS
<1>1. CASE n \notin {5, 7}
  <2>1. "orders" \in DOMAIN up /\ up.orders = d.orders
    <3> USE <1>1 DEF Upgraded, Latest
    <3>1. CASE n \in {1, 2, 8}
      BY <3>1 DEF Up1, Up2, Up8
    <3>2. CASE n = 3
      BY <3>2 DEF Up3
    <3>3. CASE n = 4
      BY <3>3 DEF Up4
    <3>4. CASE n = 6
      BY <3>4 DEF Up6
    <3> QED BY <3>1, <3>2, <3>3, <3>4
  <2>2. OrderTable(n, up.orders)
    <3>1. n < 5 => n - 1 < 5
      OBVIOUS
    <3> HIDE DEF Latest
    <3> QED BY <1>1, <2>1, <3>1 DEF OrderTable, OrderRow
  <2> QED BY <1>1, <2>1, <2>2
<1>2. CASE n = 5
  <2>1. up = Up5(d) /\ up # Refused
    BY <1>2 DEF Upgraded
  <2>2. /\ "orders" \in DOMAIN up
        /\ \A o \in Orders :
             LET added == IF d.orders[o] = NoRow THEN NoRow ELSE [d.orders[o] EXCEPT !.fallback = FALSE]
             IN  up.orders[o] = IF added = NoRow THEN NoRow ELSE PreferredBackfill(added)
    <3> DEFINE added == UpdateOrders(d, LAMBDA r : [r EXCEPT !.fallback = FALSE])
               filled == UpdateOrders([d EXCEPT !.orders = added], PreferredBackfill)
    <3>1. "orders" \in DOMAIN up /\ up.orders = filled
      BY <2>1 DEF Up5
    <3>2. added = [o \in Orders |-> IF d.orders[o] = NoRow THEN NoRow
                                    ELSE [d.orders[o] EXCEPT !.fallback = FALSE]]
      BY DEF UpdateOrders
    <3>3. filled = [o \in Orders |-> IF added[o] = NoRow THEN NoRow ELSE PreferredBackfill(added[o])]
      BY DEF UpdateOrders
    <3> HIDE DEF added, filled
    <3> QED BY <3>1, <3>2, <3>3
  <2>3. ASSUME NEW o \in Orders
        PROVE  /\ OrderRow(5, up.orders[o])
               /\ d.orders[o] # NoRow => Converted(d.orders[o], up.orders[o])
    <3>1. CASE d.orders[o] = NoRow
      BY <2>2, <3>1 DEF OrderRow
    <3>2. CASE d.orders[o] # NoRow
      <4> PICK row : row = d.orders[o]
        OBVIOUS
      <4> PICK added : added = [row EXCEPT !.fallback = FALSE]
        OBVIOUS
      <4>1. row \in AnyOrderRow /\ row.preferred = Absent
        BY <1>2, <3>2 DEF OrderTable, OrderRow
      <4>2. added \in AnyOrderRow /\ Converted(row, PreferredBackfill(added))
        BY <4>1, FillOrder
      <4>3. up.orders[o] = PreferredBackfill(added)
        BY <2>2, <3>2, <4>2, NoRowAssumption
      <4> QED BY <4>2, <4>3 DEF OrderRow, Converted
    <3> QED BY <3>1, <3>2
  <2> QED BY <1>2, <2>2, <2>3 DEF OrderTable
<1>3. CASE n = 7
  <2>1. up = Up7(d)
    BY <1>3 DEF Upgraded
  <2>2. /\ "orders" \in DOMAIN up
        /\ \A o \in Orders :
             up.orders[o] = IF d.orders[o] = NoRow THEN NoRow
                            ELSE [d.orders[o] EXCEPT !.started = IF d.orders[o].attempt = "active"
                                                                 THEN "created_at" ELSE Absent]
    BY <2>1 DEF Up7, UpdateOrders
  <2>3. ASSUME NEW o \in Orders
        PROVE  /\ OrderRow(7, up.orders[o])
               /\ \A old : Converted(old, d.orders[o]) => Converted(old, up.orders[o])
    <3>1. CASE d.orders[o] = NoRow
      BY <2>2, <3>1 DEF OrderRow
    <3>2. CASE d.orders[o] # NoRow
      <4>1. d.orders[o] \in AnyOrderRow
        BY <3>2 DEF OrderTable, OrderRow
      <4> PICK x \in {"created_at", Absent} : up.orders[o] = [d.orders[o] EXCEPT !.started = x]
        BY <2>2, <3>2
      <4> QED BY <4>1, StartOrder DEF OrderRow
    <3> QED BY <3>1, <3>2
  <2> QED BY <1>3, <2>2, <2>3 DEF OrderTable
<1> QED BY <1>1, <1>2, <1>3

\* The revisions before 0005 leave rows without preferred rates, and the way back takes them.
LEMMA DownOrders ==
  ASSUME NEW d, NEW n \in 2..Latest, OrderTable(n, d.orders), Downgraded(n, d) # Refused,
         {"version", "settings", "orders"} \subseteq DOMAIN d
  PROVE  /\ "orders" \in DOMAIN Downgraded(n, d)
         /\ OrderTable(n - 1, Downgraded(n, d).orders)
<1> PICK down : down = Downgraded(n, d)
  OBVIOUS
<1>1. CASE n \notin {5, 7}
  <2>1. "orders" \in DOMAIN down /\ down.orders = d.orders
    <3> USE <1>1 DEF Downgraded, Latest
    <3>1. CASE n \in {2, 3, 8}
      BY <3>1 DEF Down2, Down3, Down8
    <3>2. CASE n = 4
      BY <3>2 DEF Down4
    <3>3. CASE n = 6
      BY <3>3 DEF Down6
    <3> QED BY <3>1, <3>2, <3>3
  <2>2. OrderTable(n - 1, down.orders)
    <3>1. n - 1 < 5 => n < 5
      BY <1>1
    <3> HIDE DEF Latest
    <3> QED BY <1>1, <2>1, <3>1 DEF OrderTable, OrderRow
  <2> QED BY <2>1, <2>2
<1>2. CASE n = 5
  <2>1. down = Down5(d)
    BY <1>2 DEF Downgraded
  <2>2. /\ "orders" \in DOMAIN down
        /\ \A o \in Orders :
             down.orders[o] = IF d.orders[o] = NoRow THEN NoRow
                              ELSE [d.orders[o] EXCEPT !.preferred = Absent, !.timeout = Absent,
                                                       !.fallback = Absent]
    <3>1. Down5(d) # Refused
      BY <1>2, <2>1
    <3> DEFINE table == UpdateOrders(d, LAMBDA r :
                          [r EXCEPT !.preferred = Absent, !.timeout = Absent, !.fallback = Absent])
    <3>2. "orders" \in DOMAIN down /\ down.orders = table
      BY <2>1, <3>1 DEF Down5
    <3>3. table = [o \in Orders |-> IF d.orders[o] = NoRow THEN NoRow
                                    ELSE [d.orders[o] EXCEPT !.preferred = Absent, !.timeout = Absent,
                                                             !.fallback = Absent]]
      BY DEF UpdateOrders
    <3> HIDE DEF table
    <3> QED BY <3>2, <3>3
  <2>3. ASSUME NEW o \in Orders PROVE OrderRow(4, down.orders[o])
    <3>1. CASE d.orders[o] = NoRow
      BY <2>2, <3>1 DEF OrderRow
    <3>2. CASE d.orders[o] # NoRow
      <4>1. d.orders[o] \in AnyOrderRow
        BY <3>2 DEF OrderTable, OrderRow
      <4> PICK row : row = d.orders[o]
        OBVIOUS
      <4> PICK new : new = [row EXCEPT !.preferred = Absent, !.timeout = Absent, !.fallback = Absent]
        OBVIOUS
      <4>2. new \in AnyOrderRow /\ new.preferred = Absent
        BY <4>1 DEF AnyOrderRow
      <4>3. down.orders[o] = new
        BY <2>2, <3>2
      <4> QED BY <4>2, <4>3 DEF OrderRow
    <3> QED BY <3>1, <3>2
  <2>4. OrderTable(4, down.orders) /\ n - 1 = 4
    BY <1>2, <2>3 DEF OrderTable
  <2> QED BY <2>2, <2>4
<1>3. CASE n = 7
  <2>1. down = Down7(d)
    BY <1>3 DEF Downgraded
  <2>2. /\ "orders" \in DOMAIN down
        /\ \A o \in Orders :
             down.orders[o] = IF d.orders[o] = NoRow THEN NoRow
                              ELSE [d.orders[o] EXCEPT !.started = Absent]
    BY <2>1 DEF Down7, UpdateOrders
  <2>3. ASSUME NEW o \in Orders PROVE OrderRow(6, down.orders[o])
    <3>1. CASE d.orders[o] = NoRow
      BY <2>2, <3>1 DEF OrderRow
    <3>2. CASE d.orders[o] # NoRow
      <4>1. d.orders[o] \in AnyOrderRow
        BY <3>2 DEF OrderTable, OrderRow
      <4> PICK row : row = d.orders[o]
        OBVIOUS
      <4>2. down.orders[o] = [row EXCEPT !.started = Absent]
        BY <2>2, <3>2
      <4>3. [row EXCEPT !.started = Absent] \in AnyOrderRow
        BY <4>1 DEF AnyOrderRow
      <4> QED BY <4>2, <4>3 DEF OrderRow
    <3> QED BY <3>1, <3>2
  <2> QED BY <1>3, <2>2, <2>3 DEF OrderTable
<1> QED BY <1>1, <1>2, <1>3

LEMMA UpgradeRates ==
  ASSUME RowInv, RowInv', RatesInv, UpgradeStep
  PROVE  RatesInv'
<1>1. CASE EnterBlock
  <2>1. /\ step.pc # "off" /\ work' = work /\ step'.pc = "block"
        /\ version' = work.version /\ orders' = work.orders
    BY <1>1 DEF EnterBlock, Resume, Commit
  <2> QED BY <2>1 DEF RatesInv, OrderTable, Follows
<1>2. CASE AddValue
  <2> PICK d : d = WithValue(Committed, Head(step.left))
    OBVIOUS
  <2>1. /\ d.version = version /\ d.orders = orders /\ "orders" \in DOMAIN d
    BY DEF WithValue, Committed
  <2>2. CASE d = Refused
    <3>1. step' = [pc |-> "off"] /\ version' = version /\ orders' = orders
      BY <1>2, <2>2 DEF AddValue, EndCommand, databaseVars
    <3> QED BY <3>1 DEF RatesInv
  <2>3. CASE d # Refused
    <3>1. work' = d /\ version' = version /\ orders' = orders
      BY <1>2, <2>1, <2>3 DEF AddValue, Commit, Resume
    <3> QED BY <2>1, <3>1 DEF RatesInv, OrderTable, Follows
  <2> QED BY <2>2, <2>3
<1>3. CASE RunRevision
  <2> PICK d : d = Upgraded(NextVersion, work)
    OBVIOUS
  <2>1. /\ step.pc # "off" /\ work.version < Latest /\ WorkKept
        /\ version' = version /\ orders' = orders
    BY <1>3 DEF RunRevision, RowInv, databaseVars
  <2>2. CASE d = Refused
    <3>1. step' = [pc |-> "off"]
      BY <1>3, <2>2 DEF RunRevision, EndCommand
    <3> QED BY <2>1, <3>1 DEF RatesInv
  <2>3. CASE d # Refused
    <3>1. work' = [d EXCEPT !.version = NextVersion] /\ step' = [pc |-> "revision"]
      BY <1>3, <2>3 DEF RunRevision, Resume
    <3>2. /\ NextVersion \in 1..Latest /\ NextVersion - 1 = work.version
          /\ {"version", "settings", "orders"} \subseteq DOMAIN work
          /\ OrderTable(work.version, work.orders) /\ Follows(work.version, work.orders)
      BY <2>1 DEF NextVersion, WorkKept, Latest, RatesInv
    <3> PICK n \in 1..Latest : n = NextVersion
      BY <3>2
    <3>3. /\ "orders" \in DOMAIN d /\ OrderTable(n, d.orders)
          /\ \A o \in Orders :
               /\ n < 5 => d.orders[o] = work.orders[o]
               /\ n = 5 /\ work.orders[o] # NoRow => Converted(work.orders[o], d.orders[o])
               /\ n > 5 => \A old : Converted(old, work.orders[o]) => Converted(old, d.orders[o])
      BY <2>3, <3>2, UpOrders
    <3>4. /\ DOMAIN work' = DOMAIN d /\ work'.orders = d.orders
      BY <3>1, <3>3
    <3>5. work'.version = n
      BY <3>1, <3>2, UpKeeps, <2>1, <2>3 DEF WorkKept
    <3>6. ASSUME version < 5, NEW o \in Orders
          PROVE  IF n < 5 THEN d.orders[o] = orders[o]
                 ELSE orders[o] # NoRow => Converted(orders[o], d.orders[o])
      <4>1. work.version = n - 1
        BY <3>2
      <4>2. CASE n < 5
        BY <3>2, <3>3, <3>6, <4>1, <4>2 DEF Follows
      <4>3. CASE n = 5
        BY <3>2, <3>3, <3>6, <4>1, <4>3 DEF Follows
      <4>4. CASE n > 5
        <5>1. orders[o] # NoRow => Converted(orders[o], work.orders[o])
          BY <3>2, <3>6, <4>1, <4>4 DEF Follows
        <5> QED BY <3>3, <4>4, <5>1
      <4> QED BY <4>2, <4>3, <4>4
    <3>7. Follows(n, d.orders)
      BY <3>6 DEF Follows
    <3>8. Follows(work.version, work.orders)'
      BY <2>1, <3>4, <3>5, <3>7 DEF Follows
    <3>9. OrderTable(version, orders)' /\ OrderTable(work.version, work.orders)'
      BY <2>1, <3>3, <3>4, <3>5 DEF RatesInv, OrderTable
    <3> QED BY <3>3, <3>4, <3>8, <3>9 DEF RatesInv
  <2> QED BY <2>2, <2>3
<1>4. CASE FinishUpgrade
  <2>1. /\ step.pc # "off" /\ step' = [pc |-> "off"]
        /\ version' = work.version /\ orders' = work.orders
    BY <1>4 DEF FinishUpgrade, EndCommand, Commit
  <2> QED BY <2>1 DEF RatesInv, OrderTable
<1> QED BY <1>1, <1>2, <1>3, <1>4 DEF UpgradeStep

LEMMA StepRates == RowInv /\ RowInv' /\ RatesInv /\ [Next]_vars => RatesInv'
<1> SUFFICES ASSUME RowInv, RowInv', RatesInv, [Next]_vars PROVE RatesInv'
  OBVIOUS
<1>1. CASE StartContainer
  <2>1. /\ work' = Committed /\ step' = [pc |-> "revision"]
        /\ version' = version /\ orders' = orders
    BY <1>1 DEF StartContainer, BeginUpgrade, Resume, databaseVars
  <2>2. Committed.version = version /\ Committed.orders = orders /\ "orders" \in DOMAIN Committed
    BY DEF Committed
  <2>3. Follows(version, orders)
    BY DEF Follows, RowInv, Latest
  <2>4. version < 5 \/ version >= 5
    BY DEF RowInv, Latest
  <2>5. Follows(work.version, work.orders)'
    BY <2>1, <2>2, <2>4 DEF Follows
  <2>6. OrderTable(version, orders)' /\ OrderTable(work.version, work.orders)'
    BY <2>1, <2>2 DEF RatesInv, OrderTable
  <2> QED BY <2>1, <2>2, <2>5, <2>6 DEF RatesInv
<1>2. CASE Upgrade
  BY <1>2, UpgradeRates DEF Upgrade
<1>3. CASE Crash
  BY <1>3 DEF Crash, EndCommand, databaseVars, RatesInv
<1>4. CASE TakeBack
  <2> PICK d : d = Downgraded(version, Committed)
    OBVIOUS
  <2>1. /\ version \in 2..Latest /\ step.pc = "off" /\ step' = step
        /\ d # Refused /\ Commit([d EXCEPT !.version = version - 1])
    BY <1>4 DEF TakeBack, Downgrade, RowInv, Latest
  <2>2. /\ Committed.orders = orders /\ {"version", "settings", "orders"} \subseteq DOMAIN Committed
        /\ Kept(version, Committed.settings)
    BY CommittedKept DEF Committed, RowInv
  <2>3. "orders" \in DOMAIN d /\ OrderTable(version - 1, d.orders)
    BY <2>1, <2>2, DownOrders DEF RatesInv
  <2>4. "version" \in DOMAIN d
    BY <2>1, <2>2, DownKeeps
  <2>5. version' = version - 1 /\ orders' = d.orders
    BY <2>1, <2>3, <2>4 DEF Commit
  <2> QED BY <2>1, <2>3, <2>5 DEF RatesInv, OrderTable
<1>5. CASE Operate
  <2>1. step' = step /\ step.pc = "off" /\ version' = version /\ orders' = orders
    BY <1>5 DEF Operate, RowInv
  <2> QED BY <2>1 DEF RatesInv
<1>6. CASE UNCHANGED vars
  BY <1>6 DEF vars, RatesInv, OrderTable, Follows
<1> QED BY <1>1, <1>2, <1>3, <1>4, <1>5, <1>6 DEF Next

\* Only the upgrade gives the committed version preferred rates, all at once.
LEMMA RatesAreKept ==
  ASSUME RowInv, RatesInv, [Next]_vars, version < 5, version' >= 5, NEW o \in Orders, orders[o] # NoRow
  PROVE  Converted(orders[o], orders'[o])
<1>1. ~StartContainer /\ ~Crash /\ ~Operate /\ ~UNCHANGED vars
  BY DEF StartContainer, BeginUpgrade, Crash, Operate, databaseVars, vars, RowInv, Latest
<1>2. ~TakeBack
  <2> SUFFICES ASSUME TakeBack PROVE FALSE
    OBVIOUS
  <2> PICK d : d = Downgraded(version, Committed)
    OBVIOUS
  <2>1. /\ version \in 2..Latest /\ d # Refused /\ Commit([d EXCEPT !.version = version - 1])
    BY DEF TakeBack, Downgrade, RowInv, Latest
  <2>2. {"version", "settings"} \subseteq DOMAIN d
    BY <2>1, CommittedKept, DownKeeps DEF RowInv
  <2>3. version' = version - 1
    BY <2>1, <2>2 DEF Commit
  <2> QED BY <2>1, <2>3
<1>3. UpgradeStep
  BY <1>1, <1>2 DEF Next, Upgrade
<1>4. ~RunRevision
  BY DEF RunRevision, databaseVars, RowInv, Latest
<1>5. ~AddValue
  <2>1. \A d : d = WithValue(Committed, Head(step.left)) => d.version = version
    BY DEF WithValue, Committed
  <2>2. AddValue => version' = version
    BY <2>1 DEF AddValue, databaseVars, Commit
  <2> QED BY <2>2 DEF RowInv, Latest
<1>6. EnterBlock \/ FinishUpgrade
  BY <1>3, <1>4, <1>5 DEF UpgradeStep
<1>7. step.pc # "off" /\ version' = work.version /\ orders' = work.orders
  BY <1>6 DEF EnterBlock, FinishUpgrade, Commit
<1>8. ~(work.version < 5)
  BY <1>7 DEF RowInv, WorkKept, Latest
<1> QED BY <1>7, <1>8 DEF RatesInv, Follows

\* An order that waits or is being bought keeps its rate limit when preferred rates come, and a
\* finished one is left as it was, through kills between the commits of an upgrade, downgrades and
\* repeated upgrades (0005).
THEOREM RatesSurviveTheUpgrade == Spec => UpgradeKeepsRates
<1>1. RowInv /\ RatesInv /\ [Next]_vars
        => [version < 5 /\ version' >= 5 =>
              \A o \in Orders : orders[o] # NoRow =>
                CASE orders[o].status \in {"preorder", "purchasing"} ->
                        EffectiveRate(orders'[o]) = orders[o].limit
                  [] orders[o].status = "completed" -> orders'[o].preferred = Absent
                  [] OTHER -> EffectiveRate(orders'[o]) <= orders[o].limit]_vars
  <2> SUFFICES ASSUME RowInv, RatesInv, [Next]_vars, version < 5, version' >= 5,
                      NEW o \in Orders, orders[o] # NoRow
               PROVE  CASE orders[o].status \in {"preorder", "purchasing"} ->
                             EffectiveRate(orders'[o]) = orders[o].limit
                        [] orders[o].status = "completed" -> orders'[o].preferred = Absent
                        [] OTHER -> EffectiveRate(orders'[o]) <= orders[o].limit
    OBVIOUS
  <2>1. Converted(orders[o], orders'[o])
    BY RatesAreKept
  <2> QED BY <2>1 DEF Converted
<1>2. EditInv /\ RowInv /\ [Next]_vars => RowInv'
  BY StepRow
<1>3. RowInv /\ RowInv' /\ RatesInv /\ [Next]_vars => RatesInv'
  BY StepRates
<1> QED BY <1>1, <1>2, <1>3, InitEdits, StepEdits, InitRow, InitRates, PTL DEF Spec, UpgradeKeepsRates

-----------------------------------------------------------------------------
(***************************************************************************)
(* The categories of notifications                                         *)
(***************************************************************************)
\* Each category once.
IsASet(array) == array = SetToBag(BagToSet(array))

\* A row of that version: nothing that was asked for is missing, and only the defaults, which no
\* revision comes across, may list a category twice.
Enrolled(v, row) ==
    row # NoRow =>
        /\ "categories" \in DOMAIN row
        /\ IsASet(row.categories) \/ (v = Latest /\ row.categories = Defaults.categories)
        /\ v >= 4 =>
             asked.categories \cap (Labels(v) \cup {"purchase_completed"}) \subseteq BagToSet(row.categories)
        /\ v < 4 =>
             /\ asked.categories \cap {"purchase_completed"} \subseteq BagToSet(row.categories)
             /\ asked.categories \cap RequeueTypes # {} => "automatic_reorder" \in BagToSet(row.categories)

\* What a handler is about to write.
Writes(j) ==
    j.pc \in {"select", "insert", "apply"} =>
        /\ {"pc", "edit"} \subseteq DOMAIN j
        /\ \/ j.edit = <<>>
           \/ j.edit[1] # "categories"
           \/ \E types : j.edit = <<"categories", SetToBag(types)>>

CategoriesInv ==
    /\ Enrolled(version, settings)
    /\ step.pc # "off" => Enrolled(work.version, work.settings)
    /\ container = "running" => version = Latest
    /\ \A t \in Tasks : Writes(job[t])

LEMMA Appended == ASSUME NEW P, NEW V PROVE WithAppended(SetToBag(P), V) = SetToBag(P \cup V)
BY DEF WithAppended, SetToBag, BagToSet, (+)

LEMMA RemovedFrom == ASSUME NEW P, NEW V PROVE WithRemoved(SetToBag(P), V) = SetToBag(P \ V)
BY DEF WithRemoved, SetToBag, BagToSet

LEMMA SetOfBag == ASSUME NEW P PROVE BagToSet(SetToBag(P)) = P /\ IsASet(SetToBag(P))
BY DEF IsASet, SetToBag, BagToSet

LEMMA Types ==
  /\ RequeueTypes = {"stock_available", "auto_requeue_started", "auto_requeue_completed",
                     "auto_requeue_failed"}
  /\ BalanceTypes = {"low_balance", "critical_balance"}
BY DEF RequeueTypes, RequeueLabels, BalanceTypes, BalanceLabels

LEMMA RequeueSet ==
  ASSUME NEW P
  PROVE  RequeueCategories(SetToBag(P)) =
           SetToBag((IF "automatic_reorder" \in P THEN P \cup RequeueTypes ELSE P) \ {"automatic_reorder"})
<1>1. BagIn("automatic_reorder", SetToBag(P)) <=> "automatic_reorder" \in P
  BY SetOfBag DEF BagIn
<1>2. CASE "automatic_reorder" \in P
  <2>1. RequeueCategories(SetToBag(P)) = WithRemoved(SetToBag(P \cup RequeueTypes), {"automatic_reorder"})
    BY <1>1, <1>2, Appended DEF RequeueCategories
  <2> QED BY <1>2, <2>1, RemovedFrom
<1>3. CASE "automatic_reorder" \notin P
  <2>1. RequeueCategories(SetToBag(P)) = WithRemoved(SetToBag(P), {"automatic_reorder"})
    BY <1>1, <1>3 DEF RequeueCategories
  <2> QED BY <1>3, <2>1, RemovedFrom
<1> QED BY <1>2, <1>3

LEMMA ReorderSet ==
  ASSUME NEW P
  PROVE  ReorderCategories(SetToBag(P)) =
           SetToBag((IF P \cap RequeueTypes # {} THEN P \cup {"automatic_reorder"} ELSE P) \ RequeueTypes)
<1>1. BagToSet(SetToBag(P)) = P
  BY SetOfBag
<1>2. CASE P \cap RequeueTypes # {}
  <2>1. ReorderCategories(SetToBag(P)) = WithRemoved(SetToBag(P \cup {"automatic_reorder"}), RequeueTypes)
    BY <1>1, <1>2, Appended DEF ReorderCategories
  <2> QED BY <1>2, <2>1, RemovedFrom
<1>3. CASE P \cap RequeueTypes = {}
  <2>1. ReorderCategories(SetToBag(P)) = WithRemoved(SetToBag(P), RequeueTypes)
    BY <1>1, <1>3 DEF ReorderCategories
  <2> QED BY <1>3, <2>1, RemovedFrom
<1> QED BY <1>2, <1>3

\* A revision that leaves the categories alone, and what is asked for by them.
LEMMA SameCategories ==
  ASSUME NEW v \in Nat, NEW w \in Nat, NEW row, NEW new, Enrolled(v, row), v # Latest \/ w = Latest,
         v < 4 <=> w < 4, Labels(w) = Labels(v),
         row = NoRow => new = NoRow,
         "categories" \in DOMAIN row => "categories" \in DOMAIN new /\ new.categories = row.categories
  PROVE  Enrolled(w, new)
<1> SUFFICES ASSUME new # NoRow PROVE Enrolled(w, new)
  BY DEF Enrolled
<1>1. /\ "categories" \in DOMAIN row /\ "categories" \in DOMAIN new /\ new.categories = row.categories
      /\ v >= 4 <=> w >= 4
  BY DEF Enrolled
<1> HIDE DEF Latest
<1> QED BY <1>1 DEF Enrolled

LEMMA LabelsOf ==
  ASSUME NEW v \in Nat
  PROVE  /\ v < 4 => Labels(v) = {}
         /\ v = 4 => Labels(v) = RequeueTypes
         /\ v >= 5 => Labels(v) = RequeueTypes \cup BalanceTypes
BY DEF Labels

LEMMA InitCategories == Init => CategoriesInv
<1> SUFFICES ASSUME Init PROVE CategoriesInv
  OBVIOUS
<1>1. /\ version \in 0..Latest /\ step.pc = "off" /\ container = "stopped"
      /\ \A t \in Tasks : job[t].pc = "idle"
  BY DEF Init
<1>2. Enrolled(version, settings)
  <2> SUFFICES ASSUME settings # NoRow PROVE Enrolled(version, settings)
    BY DEF Enrolled
  <2>1. PICK fraction \in Commissions :
          /\ settings \in SettingsRows(version, fraction)
          /\ asked.categories = Subscribed(version, settings.categories)
    BY DEF Init
  <2>2. "categories" \in DOMAIN settings /\ settings.categories \in Categories(version)
    BY <2>1 DEF SettingsRows
  <2>3. PICK P : /\ settings.categories = SetToBag(P)
                 /\ version < 4 => P \in {{}, {"automatic_reorder"}, {"purchase_completed", "automatic_reorder"}}
    BY <1>1, <2>2 DEF Categories, Latest
  <2>4. BagToSet(settings.categories) = P /\ IsASet(settings.categories)
    BY <2>3, SetOfBag
  <2>5. asked.categories = (P \ {"automatic_reorder"})
                           \cup (IF version < 4 /\ "automatic_reorder" \in P THEN RequeueTypes ELSE {})
    BY <2>1, <2>4 DEF Subscribed, BagIn
  <2>6. version < 4 =>
          /\ asked.categories \cap {"purchase_completed"} \subseteq P
          /\ asked.categories \cap RequeueTypes # {} => "automatic_reorder" \in P
    BY <2>3, <2>5, Types
  <2>7. version >= 4 => asked.categories \subseteq P
    BY <1>1, <2>5 DEF Latest
  <2> QED BY <2>2, <2>4, <2>6, <2>7 DEF Enrolled
<1> QED BY <1>1, <1>2 DEF CategoriesInv, Writes

\* Two versions of one label and one meaning.
LEMMA Alike ==
  /\ Labels(0) = Labels(1) /\ Labels(1) = Labels(2) /\ Labels(2) = Labels(3)
  /\ Labels(5) = Labels(6) /\ Labels(6) = Labels(7) /\ Labels(7) = Labels(8)
BY LabelsOf

LEMMA UpEnrolls ==
  ASSUME NEW d, NEW n \in 1..Latest, Enrolled(n - 1, d.settings), Upgraded(n, d) # Refused,
         {"version", "settings"} \subseteq DOMAIN d
  PROVE  Enrolled(n, Upgraded(n, d).settings)
<1> PICK up : up = Upgraded(n, d)
  OBVIOUS
<1>1. CASE n \notin {4, 5}
  <2>1. /\ d.settings = NoRow => up.settings = NoRow
        /\ d.settings # NoRow /\ "categories" \in DOMAIN d.settings =>
             "categories" \in DOMAIN up.settings /\ up.settings.categories = d.settings.categories
    <3> USE <1>1 DEF Upgraded, Latest, UpdateSettings
    <3>1. CASE n \in {1, 2, 8}
      BY <3>1 DEF Up1, Up2, Up8
    <3>2. CASE n = 3
      BY <3>2 DEF Up3
    <3>3. CASE n = 6
      BY <3>3 DEF Up6
    <3>4. CASE n = 7
      BY <3>4 DEF Up7
    <3> QED BY <3>1, <3>2, <3>3, <3>4
  <2>2. /\ n - 1 \in Nat /\ n \in Nat /\ n - 1 # Latest /\ (n - 1 < 4 <=> n < 4)
        /\ n \in {1, 2, 3, 6, 7, 8}
    BY <1>1 DEF Latest
  <2>3. Labels(n) = Labels(n - 1)
    BY <2>2, Alike
  <2>4. CASE d.settings = NoRow
    BY <2>1, <2>4 DEF Enrolled
  <2>5. CASE d.settings # NoRow
    <3>1. "categories" \in DOMAIN d.settings
      BY <2>5 DEF Enrolled
    <3> QED BY <2>1, <2>2, <2>3, <2>5, <3>1, SameCategories
  <2> QED BY <2>4, <2>5
<1>2. CASE n \in {4, 5} /\ d.settings = NoRow
  <2>1. up.settings = NoRow
    BY <1>2 DEF Upgraded, Up4, Up5, UpdateSettings
  <2> QED BY <2>1 DEF Enrolled
<1>3. CASE n \in {4, 5} /\ d.settings # NoRow
  <2> PICK P : P = BagToSet(d.settings.categories)
    OBVIOUS
  <2>1. /\ "categories" \in DOMAIN d.settings /\ d.settings.categories = SetToBag(P)
    BY <1>3 DEF Enrolled, IsASet, Latest
  <2>2. CASE n = 4
    <3> PICK Q : Q = (IF "automatic_reorder" \in P THEN P \cup RequeueTypes ELSE P) \ {"automatic_reorder"}
      OBVIOUS
    <3>1. up = Up4(d)
      BY <2>2 DEF Upgraded
    <3>2. "categories" \in DOMAIN up.settings /\ up.settings.categories = RequeueCategories(SetToBag(P))
      BY <1>3, <2>1, <3>1 DEF Up4, UpdateSettings
    <3>3. BagToSet(up.settings.categories) = Q /\ IsASet(up.settings.categories)
      BY <3>2, RequeueSet, SetOfBag
    <3>4. /\ asked.categories \cap {"purchase_completed"} \subseteq P
          /\ asked.categories \cap RequeueTypes # {} => "automatic_reorder" \in P
      BY <1>3, <2>2 DEF Enrolled
    <3>5. asked.categories \cap (RequeueTypes \cup {"purchase_completed"}) \subseteq Q
      BY <3>4, Types
    <3>6. Labels(4) = RequeueTypes
      BY LabelsOf
    <3> QED BY <2>2, <3>2, <3>3, <3>5, <3>6 DEF Enrolled
  <2>3. CASE n = 5
    <3>1. up = Up5(d)
      BY <2>3 DEF Upgraded
    <3>2. "categories" \in DOMAIN up.settings /\ up.settings.categories = WithAppended(SetToBag(P), BalanceTypes)
      BY <1>3, <2>1, <3>1 DEF Up5, UpdateSettings
    <3> PICK Q : Q = P \cup BalanceTypes
      OBVIOUS
    <3>3. BagToSet(up.settings.categories) = Q /\ IsASet(up.settings.categories)
      <4>1. up.settings.categories = SetToBag(Q)
        BY <3>2, Appended
      <4> QED BY <4>1, SetOfBag
    <3>4. asked.categories \cap (RequeueTypes \cup {"purchase_completed"}) \subseteq P
      BY <1>3, <2>3, LabelsOf DEF Enrolled
    <3>5. Labels(5) = RequeueTypes \cup BalanceTypes
      BY LabelsOf
    <3> QED BY <2>3, <3>2, <3>3, <3>4, <3>5 DEF Enrolled
  <2> QED BY <1>3, <2>2, <2>3
<1> QED BY <1>1, <1>2, <1>3

LEMMA DownEnrolls ==
  ASSUME NEW d, NEW n \in 2..Latest, Enrolled(n, d.settings), Downgraded(n, d) # Refused,
         {"version", "settings"} \subseteq DOMAIN d
  PROVE  Enrolled(n - 1, Downgraded(n, d).settings)
<1> PICK down : down = Downgraded(n, d)
  OBVIOUS
<1>0. n \in 2..7
  BY DEF Downgraded, Down8, Latest
<1>1. CASE n \notin {4, 5}
  <2>1. /\ d.settings = NoRow => down.settings = NoRow
        /\ d.settings # NoRow /\ "categories" \in DOMAIN d.settings =>
             "categories" \in DOMAIN down.settings /\ down.settings.categories = d.settings.categories
    <3> USE <1>0, <1>1 DEF Downgraded, UpdateSettings
    <3>1. CASE n \in {2, 3}
      BY <3>1 DEF Down2, Down3
    <3>2. CASE n = 6
      BY <3>2 DEF Down6
    <3>3. CASE n = 7
      BY <3>3 DEF Down7
    <3> QED BY <3>1, <3>2, <3>3
  <2>2. /\ n - 1 \in Nat /\ n \in Nat /\ n # Latest /\ (n < 4 <=> n - 1 < 4)
        /\ n \in {2, 3, 6, 7}
    BY <1>0, <1>1 DEF Latest
  <2>3. Labels(n - 1) = Labels(n)
    BY <2>2, Alike
  <2>4. CASE d.settings = NoRow
    BY <2>1, <2>4 DEF Enrolled
  <2>5. CASE d.settings # NoRow
    <3>1. "categories" \in DOMAIN d.settings
      BY <2>5 DEF Enrolled
    <3> QED BY <2>1, <2>2, <2>3, <2>5, <3>1, SameCategories
  <2> QED BY <2>4, <2>5
<1>2. CASE n \in {4, 5} /\ d.settings = NoRow
  <2>1. down.settings = NoRow
    BY <1>2 DEF Downgraded, Down4, Down5, UpdateSettings
  <2> QED BY <2>1 DEF Enrolled
<1>3. CASE n \in {4, 5} /\ d.settings # NoRow
  <2> PICK P : P = BagToSet(d.settings.categories)
    OBVIOUS
  <2>1. "categories" \in DOMAIN d.settings /\ d.settings.categories = SetToBag(P)
    BY <1>3 DEF Enrolled, IsASet, Latest
  <2>2. CASE n = 4
    <3> PICK Q : Q = (IF P \cap RequeueTypes # {} THEN P \cup {"automatic_reorder"} ELSE P) \ RequeueTypes
      OBVIOUS
    <3>1. down = Down4(d)
      BY <2>2 DEF Downgraded
    <3>2. "categories" \in DOMAIN down.settings /\ down.settings.categories = ReorderCategories(SetToBag(P))
      BY <1>3, <2>1, <3>1 DEF Down4, UpdateSettings
    <3>3. BagToSet(down.settings.categories) = Q /\ IsASet(down.settings.categories)
      BY <3>2, ReorderSet, SetOfBag
    <3>4. asked.categories \cap (RequeueTypes \cup {"purchase_completed"}) \subseteq P
      BY <1>3, <2>2, LabelsOf DEF Enrolled
    <3>5. /\ asked.categories \cap {"purchase_completed"} \subseteq Q
          /\ asked.categories \cap RequeueTypes # {} => "automatic_reorder" \in Q
      BY <3>4, Types
    <3> QED BY <2>2, <3>2, <3>3, <3>5 DEF Enrolled
  <2>3. CASE n = 5
    <3>1. down = Down5(d)
      BY <2>3 DEF Downgraded
    <3>2. "categories" \in DOMAIN down.settings /\ down.settings.categories = WithRemoved(SetToBag(P), BalanceTypes)
      BY <1>3, <2>1, <3>1 DEF Down5, UpdateSettings
    <3> PICK Q : Q = P \ BalanceTypes
      OBVIOUS
    <3>3. BagToSet(down.settings.categories) = Q /\ IsASet(down.settings.categories)
      <4>1. down.settings.categories = SetToBag(Q)
        BY <3>2, RemovedFrom
      <4> QED BY <4>1, SetOfBag
    <3>4. asked.categories \cap (RequeueTypes \cup {"purchase_completed"}) \subseteq P
      BY <1>3, <2>3, LabelsOf DEF Enrolled
    <3>5. asked.categories \cap (RequeueTypes \cup {"purchase_completed"}) \subseteq P \ BalanceTypes
      BY <3>4, Types
    <3>6. Labels(4) = RequeueTypes
      BY LabelsOf
    <3> QED BY <2>3, <3>2, <3>3, <3>5, <3>6 DEF Enrolled
  <2> QED BY <1>3, <2>2, <2>3
<1> QED BY <1>1, <1>2, <1>3

\* One transaction less or more in between, and what is asked for the same.
LEMMA StillEnrolled ==
  ASSUME NEW v, NEW row, Enrolled(v, row), asked' = asked
  PROVE  Enrolled(v, row)'
BY DEF Enrolled

LEMMA UpgradeEnrolls ==
  ASSUME RowInv, CategoriesInv, UpgradeStep, asked' = asked
  PROVE  Enrolled(version, settings)' /\ (step'.pc # "off" => Enrolled(work.version, work.settings)')
<1>1. CASE EnterBlock
  <2>1. /\ step.pc # "off" /\ work' = work
        /\ version' = work.version /\ settings' = work.settings
    BY <1>1 DEF EnterBlock, Resume, Commit
  <2> QED BY <2>1 DEF CategoriesInv, Enrolled
<1>2. CASE AddValue
  <2> PICK d : d = WithValue(Committed, Head(step.left))
    OBVIOUS
  <2>1. /\ d.version = version /\ d.settings = settings
    BY DEF WithValue, Committed
  <2>2. CASE d = Refused
    <3>1. step' = [pc |-> "off"] /\ version' = version /\ settings' = settings
      BY <1>2, <2>2 DEF AddValue, EndCommand, databaseVars
    <3> QED BY <3>1 DEF CategoriesInv, Enrolled
  <2>3. CASE d # Refused
    <3>1. work' = d /\ version' = version /\ settings' = settings
      BY <1>2, <2>1, <2>3 DEF AddValue, Commit, Resume
    <3> QED BY <2>1, <3>1 DEF CategoriesInv, Enrolled
  <2> QED BY <2>2, <2>3
<1>3. CASE RunRevision
  <2> PICK d : d = Upgraded(NextVersion, work)
    OBVIOUS
  <2>1. /\ step.pc # "off" /\ work.version < Latest /\ WorkKept
        /\ version' = version /\ settings' = settings
    BY <1>3 DEF RunRevision, RowInv, databaseVars
  <2>2. Enrolled(version, settings)'
    BY <2>1 DEF CategoriesInv, Enrolled
  <2>3. CASE d = Refused
    <3>1. step' = [pc |-> "off"]
      BY <1>3, <2>3 DEF RunRevision, EndCommand
    <3> QED BY <2>2, <3>1
  <2>4. CASE d # Refused
    <3>1. work' = [d EXCEPT !.version = NextVersion]
      BY <1>3, <2>4 DEF RunRevision, Resume
    <3>2. NextVersion \in 1..Latest /\ NextVersion - 1 = work.version
      BY <2>1 DEF NextVersion, WorkKept, Latest
    <3> PICK n \in 1..Latest : n = NextVersion
      BY <3>2
    <3>3. Enrolled(n - 1, work.settings) /\ Kept(n - 1, work.settings)
          /\ {"version", "settings"} \subseteq DOMAIN work
      BY <2>1, <3>2 DEF CategoriesInv, WorkKept
    <3>4. Enrolled(n, d.settings) /\ {"version", "settings"} \subseteq DOMAIN d
      BY <2>4, <3>3, UpEnrolls, UpKeeps
    <3>5. work'.version = n /\ work'.settings = d.settings
      BY <3>1, <3>4
    <3>6. Enrolled(work.version, work.settings)'
      BY <3>4, <3>5 DEF Enrolled
    <3> QED BY <2>2, <3>6
  <2> QED BY <2>3, <2>4
<1>4. CASE FinishUpgrade
  <2>1. /\ step.pc # "off" /\ step' = [pc |-> "off"]
        /\ version' = work.version /\ settings' = work.settings
    BY <1>4 DEF FinishUpgrade, EndCommand, Commit
  <2> QED BY <2>1 DEF CategoriesInv, Enrolled
<1> QED BY <1>1, <1>2, <1>3, <1>4 DEF UpgradeStep

\* An edit of another column, or one tap on a button, which writes all categories, each once.
LEMMA UpdatedOnce ==
  ASSUME NEW row, NEW edit, "categories" \in DOMAIN row,
         IsASet(row.categories) \/ row.categories = Defaults.categories,
         \/ edit = <<>>
         \/ edit[1] # "categories"
         \/ \E types : edit = <<"categories", SetToBag(types)>>
  PROVE  /\ "categories" \in DOMAIN Updated(row, edit)
         /\ \/ IsASet(Updated(row, edit).categories)
            \/ Updated(row, edit).categories = Defaults.categories
<1>1. CASE edit = <<>>
  BY <1>1 DEF Updated
<1>2. CASE edit # <<>> /\ edit[1] # "categories"
  BY <1>2 DEF Updated
<1>3. CASE \E types : edit = <<"categories", SetToBag(types)>>
  <2> PICK types : edit = <<"categories", SetToBag(types)>>
    BY <1>3
  <2> PICK array : array = SetToBag(types)
    OBVIOUS
  <2>1. edit # <<>> /\ edit[1] = "categories" /\ edit[2] = array
    OBVIOUS
  <2>2. Updated(row, edit) = [row EXCEPT !["categories"] = array]
    BY <2>1 DEF Updated
  <2>3. Updated(row, edit).categories = array /\ "categories" \in DOMAIN Updated(row, edit)
    BY <2>2
  <2> QED BY <2>3, SetOfBag
<1> QED BY <1>1, <1>2, <1>3

LEMMA WritesSet ==
  ASSUME NEW t \in Tasks, NEW j, Writes(j), EditInv, \A u \in Tasks : Writes(job[u]),
         job' = [job EXCEPT ![t] = j]
  PROVE  \A u \in Tasks : Writes(job'[u])
<1>1. Only(t) /\ job'[t] = j
  BY OnlyOne
<1> QED BY <1>1 DEF Only

LEMMA ToggledWrites ==
  ASSUME NEW row, NEW button
  PROVE  Writes([pc |-> "select", edit |-> Toggled(row, button)])
<1>1. CASE button = "mode"
  <2> PICK other : other = ~row.mode
    OBVIOUS
  <2>1. Toggled(row, button) = <<"mode", other>>
    BY <1>1, Zenon DEF Toggled
  <2>2. Toggled(row, button)[1] # "categories"
    BY <2>1
  <2> QED BY <2>2 DEF Writes
<1>2. CASE button # "mode"
  <2>1. \E types : Toggled(row, button) = <<"categories", SetToBag(types)>>
    BY <1>2, Zenon DEF Toggled
  <2> QED BY <2>1 DEF Writes
<1> QED BY <1>1, <1>2

LEMMA OperateWrites ==
  ASSUME EditInv, CategoriesInv, SettingsNext
  PROVE  \A u \in Tasks : Writes(job'[u])
<1> USE DEF GoTo, End, Refuse, At
<1>0. \A u \in Tasks : Writes(job[u])
  BY DEF CategoriesInv
<1>1. ASSUME NEW t \in Tasks, NEW button \in Toggles, Toggle(t, button) PROVE \A u \in Tasks : Writes(job'[u])
  BY <1>0, <1>1, ToggledWrites, WritesSet DEF Toggle
<1>2. ASSUME NEW t \in Tasks, NEW edit \in Edits, Type(t, edit) PROVE \A u \in Tasks : Writes(job'[u])
  <2>1. Writes([pc |-> "select", edit |-> edit])
    BY EditsAssumption DEF Writes
  <2> QED BY <1>0, <1>2, <2>1, WritesSet DEF Type
<1>3. ASSUME NEW t \in Tasks, Read(t) PROVE \A u \in Tasks : Writes(job'[u])
  <2>1. Writes([pc |-> "insert", edit |-> <<>>])
    BY DEF Writes
  <2> QED BY <1>0, <1>3, <2>1, WritesSet DEF Read
<1>4. ASSUME NEW t \in Tasks, SelectForUpdate(t) \/ Insert(t) PROVE \A u \in Tasks : Writes(job'[u])
  <2> PICK edit : edit = job[t].edit
    OBVIOUS
  <2>1. CASE job' = [job EXCEPT ![t] = [pc |-> "refused", why |-> "changed"]]
    <3>1. Writes([pc |-> "refused", why |-> "changed"])
      BY DEF Writes
    <3> QED BY <1>0, <2>1, <3>1, WritesSet
  <2>2. ASSUME job[t].pc \in {"select", "insert"}
        PROVE  /\ Writes([job[t] EXCEPT !.pc = "insert"])
               /\ \A row : Writes([pc |-> "apply", edit |-> edit, row |-> row])
    <3> PICK j : j = job[t]
      OBVIOUS
    <3>1. /\ {"pc", "edit"} \subseteq DOMAIN j
          /\ \/ edit = <<>>
             \/ edit[1] # "categories"
             \/ \E types : edit = <<"categories", SetToBag(types)>>
      BY <1>0, <2>2 DEF Writes
    <3>2. ASSUME NEW new, {"pc", "edit"} \subseteq DOMAIN new, new.edit = edit PROVE Writes(new)
      BY <3>1, <3>2 DEF Writes
    <3>3. {"pc", "edit"} \subseteq DOMAIN [j EXCEPT !.pc = "insert"] /\ [j EXCEPT !.pc = "insert"].edit = edit
      BY <3>1
    <3> QED BY <3>2, <3>3
  <2>3. CASE job' = [job EXCEPT ![t] = [job[t] EXCEPT !.pc = "insert"]] /\ job[t].pc \in {"select", "insert"}
    BY <1>0, <2>2, <2>3, WritesSet
  <2>4. ASSUME NEW row, job' = [job EXCEPT ![t] = [pc |-> "apply", edit |-> edit, row |-> row]],
               job[t].pc \in {"select", "insert"}
        PROVE  \A u \in Tasks : Writes(job'[u])
    BY <1>0, <2>2, <2>4, WritesSet
  <2>5. CASE SelectForUpdate(t)
    BY <2>3, <2>4, <2>5 DEF SelectForUpdate
  <2>6. CASE Insert(t)
    BY <2>1, <2>4, <2>6 DEF Insert
  <2> QED BY <1>4, <2>5, <2>6
<1>5. ASSUME NEW t \in Tasks, Apply(t) \/ Rollback(t) \/ Answer(t) PROVE \A u \in Tasks : Writes(job'[u])
  <2>1. \E j \in {[pc |-> "idle"]} \cup {[pc |-> "refused", why |-> w] : w \in {"invalid", "changed"}} :
          job' = [job EXCEPT ![t] = j]
    BY <1>5 DEF Apply, Rollback, Answer
  <2>2. \A j \in {[pc |-> "idle"]} \cup {[pc |-> "refused", why |-> w] : w \in {"invalid", "changed"}} :
          Writes(j)
    BY DEF Writes
  <2> QED BY <1>0, <2>1, <2>2, WritesSet
<1> QED BY <1>1, <1>2, <1>3, <1>4, <1>5 DEF SettingsNext

LEMMA OperateEnrolls ==
  ASSUME EditInv, CategoriesInv, Operate
  PROVE  Enrolled(version, settings)'
<1>1. version' = version /\ version = Latest
  BY DEF Operate, CategoriesInv
<1>2. CASE settings' = settings
  BY <1>1, <1>2 DEF Operate, CategoriesInv, Enrolled
<1>3. CASE settings' # settings
  <2>1. PICK t \in Tasks : Apply(t)
    BY <1>3 DEF Operate, SettingsNext, Read, SelectForUpdate, Insert, Rollback, Answer, Toggle, Type
  <2> PICK row : row = IF settings = NoRow THEN Defaults ELSE settings
    OBVIOUS
  <2> PICK edit : edit = job[t].edit
    OBVIOUS
  <2>2. job[t].row = row
    BY <2>1 DEF Apply, EditInv, Knows
  <2>3. settings' = Updated(row, edit)
    BY <1>3, <2>1, <2>2 DEF Apply
  <2>4. "categories" \in DOMAIN row /\ (IsASet(row.categories) \/ row.categories = Defaults.categories)
    BY DefaultsAssumption DEF CategoriesInv, Enrolled
  <2>5. \/ edit = <<>>
        \/ edit[1] # "categories"
        \/ \E types : edit = <<"categories", SetToBag(types)>>
    BY <2>1 DEF Apply, At, CategoriesInv, Writes
  <2> PICK new : new = settings'
    OBVIOUS
  <2>6. "categories" \in DOMAIN new /\ (IsASet(new.categories) \/ new.categories = Defaults.categories)
    BY <2>3, <2>4, <2>5, UpdatedOnce
  <2>7. asked'.categories = Subscribed(Latest, new.categories)
    BY <1>1, <1>3 DEF Operate
  <2>8. asked'.categories \subseteq BagToSet(new.categories)
    BY <2>7 DEF Subscribed, Latest
  <2>9. Latest >= 4 /\ ~(Latest < 4)
    BY DEF Latest
  <2>10. asked'.categories \cap (Labels(Latest) \cup {"purchase_completed"}) \subseteq BagToSet(new.categories)
    BY <2>8
  <2> HIDE DEF IsASet, Labels, BagToSet
  <2> QED BY <1>1, <2>6, <2>9, <2>10 DEF Enrolled
<1> QED BY <1>2, <1>3

LEMMA StepCategories == EditInv /\ RowInv /\ RowInv' /\ CategoriesInv /\ [Next]_vars => CategoriesInv'
<1> SUFFICES ASSUME EditInv, RowInv, RowInv', CategoriesInv, [Next]_vars PROVE CategoriesInv'
  OBVIOUS
<1>1. CASE StartContainer
  <2>1. /\ work' = Committed /\ container' = "upgrading" /\ job' = job
        /\ version' = version /\ settings' = settings /\ asked' = asked
    BY <1>1 DEF StartContainer, BeginUpgrade, Resume, databaseVars
  <2>2. Committed.version = version /\ Committed.settings = settings
    BY DEF Committed
  <2> QED BY <2>1, <2>2 DEF CategoriesInv, Enrolled
<1>2. CASE Upgrade
  <2>1. asked' = asked /\ job' = job /\ (container' = "running" => version' = Latest)
    BY <1>2 DEF Upgrade
  <2>2. Enrolled(version, settings)' /\ (step'.pc # "off" => Enrolled(work.version, work.settings)')
    BY <1>2, <2>1, UpgradeEnrolls DEF Upgrade
  <2> QED BY <2>1, <2>2 DEF CategoriesInv
<1>3. CASE Crash
  <2>1. /\ container' = "stopped" /\ step' = [pc |-> "off"] /\ job' = [t \in Tasks |-> [pc |-> "idle"]]
        /\ version' = version /\ settings' = settings /\ asked' = asked
    BY <1>3 DEF Crash, EndCommand, databaseVars
  <2> QED BY <2>1 DEF CategoriesInv, Enrolled, Writes
<1>4. CASE TakeBack
  <2> PICK d : d = Downgraded(version, Committed)
    OBVIOUS
  <2>1. /\ version \in 2..Latest /\ step.pc = "off" /\ step' = step
        /\ container # "running" /\ container' = container /\ job' = job /\ asked' = asked
        /\ d # Refused /\ Commit([d EXCEPT !.version = version - 1])
    BY <1>4 DEF TakeBack, Downgrade, RowInv, Latest
  <2>2. /\ Committed.settings = settings /\ {"version", "settings"} \subseteq DOMAIN Committed
        /\ Kept(version, Committed.settings)
    BY CommittedKept DEF RowInv
  <2>3. {"version", "settings"} \subseteq DOMAIN d
    BY <2>1, <2>2, DownKeeps
  <2>4. Enrolled(version - 1, d.settings)
    BY <2>1, <2>2, DownEnrolls DEF CategoriesInv
  <2>5. version' = version - 1 /\ settings' = d.settings
    BY <2>1, <2>3 DEF Commit
  <2>6. Enrolled(version, settings)'
    BY <2>1, <2>4, <2>5 DEF Enrolled
  <2> QED BY <2>1, <2>6 DEF CategoriesInv
<1>5. CASE Operate
  <2>1. step' = step /\ step.pc = "off" /\ version' = version /\ container' = container
    BY <1>5 DEF Operate, RowInv
  <2>2. Enrolled(version, settings)' /\ \A t \in Tasks : Writes(job'[t])
    BY <1>5, OperateEnrolls, OperateWrites DEF Operate
  <2> QED BY <2>1, <2>2 DEF CategoriesInv
<1>6. CASE UNCHANGED vars
  BY <1>6 DEF vars, CategoriesInv, Enrolled
<1> QED BY <1>1, <1>2, <1>3, <1>4, <1>5, <1>6 DEF Next

\* No category somebody subscribed to is lost, and none but the defaults of the environment entered
\* twice, by the conversions of automatic_reorder there and back and the additions of 0004 and 0005,
\* through kills between the commits of an upgrade, downgrades and repeated upgrades.
THEOREM SubscriptionsAreKept == Spec => []SubscriptionsSurvive
<1>1. CategoriesInv => SubscriptionsSurvive
  BY DEF CategoriesInv, Enrolled, IsASet, SubscriptionsSurvive
<1>2. EditInv /\ RowInv /\ [Next]_vars => RowInv'
  BY StepRow
<1>3. EditInv /\ RowInv /\ RowInv' /\ CategoriesInv /\ [Next]_vars => CategoriesInv'
  BY StepCategories
<1> QED BY <1>1, <1>2, <1>3, InitEdits, StepEdits, InitRow, InitCategories, PTL DEF Spec

=============================================================================
