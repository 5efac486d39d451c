---------------------------- MODULE SystemSettings ----------------------------
(***************************************************************************)
(* The one row of system_settings: who inserts it, and how the operator    *)
(* edits it (SettingsApplicationService in sensflow/application/           *)
(* services.py, sensflow/domain/settings/service.py, the handlers of       *)
(* presentation/telegram/routers/settings.py).                             *)
(*                                                                         *)
(* Every service reads the row with get_current, without a lock, and       *)
(* inserts the defaults of the process when there is none.  An edit locks  *)
(* the row, changes one column and validates all of them.  A toggle reads  *)
(* the row in a transaction of its own and then edits it by what it read.  *)
(*                                                                         *)
(* Rates are in tenths, the commission in 1/10000 as numeric(20, 4) keeps  *)
(* it, intervals in milliseconds.  Columns that are validated alone by the *)
(* same means as one of these are left out.                                *)
(***************************************************************************)
EXTENDS Integers, Bags

CONSTANTS
    Tasks,       \* handlers of updates, and the passes of the automation loop
    NoTask,      \* nobody
    NoRow,       \* system_settings is empty
    Defaults,    \* SettingsDefaults, as create_settings makes a row of them
    Edits,       \* the columns and values the operator types
    Toggles      \* the buttons the operator taps: names of CategoryGroups, or "mode"

VARIABLES
    settings,    \* the row, or NoRow
    holder,      \* the transaction that locked the row, or inserted it and did not commit yet
    job          \* program counter and locals of each task

settingsVars == <<settings, holder, job>>

\* NotificationType, as far as the migrations and two groups of categories need it.
NotificationTypes ==
    {"stock_available", "low_balance", "critical_balance", "auto_requeue_started",
     "auto_requeue_completed", "auto_requeue_failed", "purchase_completed", "automatic_reorder"}
CategoryGroups ==
    [purchases |-> {"purchase_completed"},
     order_status |-> {"auto_requeue_started", "auto_requeue_completed", "automatic_reorder"}]
\* notification_categories, an array no code reads in order: a bag.
Enabled(row) == BagToSet(row.categories)

\* A commission is a fraction of one, see above for the unit.
CommissionRates == 0 .. 10000

\* validate_settings; the CHECK constraints of the table say the same.
IsValid(row) ==
    /\ row.maximum > 0
    /\ row.preferred > 0 /\ row.preferred <= row.maximum
    /\ row.low >= 0
    /\ row.critical >= 0 /\ row.critical <= row.low
    /\ row.commission \in CommissionRates
    /\ row.interval >= 300

SettingsInit ==
    /\ settings = NoRow
    /\ holder = NoTask
    /\ job = [t \in Tasks |-> [pc |-> "idle"]]

GoTo(t, next) == job' = [job EXCEPT ![t] = next]
At(t, pc) == job[t].pc = pc
End(t) == GoTo(t, [pc |-> "idle"])
\* The operator is told why not.
Refuse(t, why) == GoTo(t, [pc |-> "refused", why |-> why])
Release(t) == holder' = IF holder = t THEN NoTask ELSE holder

-----------------------------------------------------------------------------
\* get_settings, _get_settings and _get_or_create_settings without a lock, finding no row.
Read(t) ==
    /\ At(t, "idle")
    /\ settings = NoRow
    /\ GoTo(t, [pc |-> "insert", edit |-> <<>>])
    /\ UNCHANGED <<settings, holder>>

\* What the toggles write: all categories, or the other value of the preferred mode.
Toggled(row, button) ==
    IF button = "mode"
    THEN <<"mode", ~row.mode>>
    ELSE LET group == CategoryGroups[button]
             enabled == IF group \subseteq Enabled(row) THEN Enabled(row) \ group
                                                        ELSE Enabled(row) \cup group
         IN  <<"categories", SetToBag(NotificationTypes \cap enabled)>>

\* toggle_boolean_setting, toggle_notification_category up to update_setting.  Without a row the
\* screen they were tapped on cannot have been shown.
Toggle(t, button) ==
    /\ At(t, "idle")
    /\ settings # NoRow
    /\ GoTo(t, [pc |-> "select", edit |-> Toggled(settings, button)])
    /\ UNCHANGED <<settings, holder>>

\* receive_setting_value
Type(t, edit) ==
    /\ At(t, "idle")
    /\ GoTo(t, [pc |-> "select", edit |-> edit])
    /\ UNCHANGED <<settings, holder>>

\* A defective variant of the next definition, that shows that the property notices: get_current in
\* the place of get_current_for_update.
NeedNotLock(t) == TRUE

\* SELECT ... FOR UPDATE: waits for the transaction that locked the row, finds no row while it is
\* only inserted.
CanLock(t) == settings = NoRow \/ holder = NoTask
SelectForUpdate(t) ==
    /\ At(t, "select")
    /\ CanLock(t)
    /\ IF settings = NoRow
       THEN GoTo(t, [job[t] EXCEPT !.pc = "insert"]) /\ UNCHANGED holder
       ELSE GoTo(t, [pc |-> "apply", edit |-> job[t].edit, row |-> settings]) /\ holder' = t
    /\ UNCHANGED settings

\* The INSERT waits for another one of the only key there is, and fails if that one committed.
Insert(t) ==
    /\ At(t, "insert")
    /\ holder = NoTask
    /\ IF settings = NoRow
       THEN /\ GoTo(t, [pc |-> "apply", edit |-> job[t].edit, row |-> Defaults])
            /\ holder' = t
       ELSE Refuse(t, "changed") /\ UNCHANGED holder
    /\ UNCHANGED settings

\* update_setting of the domain: setattr, then every column is validated.
Updated(row, edit) == IF edit = <<>> THEN row ELSE [row EXCEPT ![edit[1]] = edit[2]]

\* The session writes the column that was changed to the row as it is then, and commits.
Apply(t) ==
    /\ At(t, "apply")
    /\ LET edit == job[t].edit
           stored == IF settings = NoRow THEN job[t].row ELSE settings
       IN  \/ /\ ~IsValid(Updated(job[t].row, edit))
              /\ Refuse(t, "invalid") /\ UNCHANGED settings
           \/ /\ IsValid(Updated(job[t].row, edit)) /\ ~IsValid(Updated(stored, edit))
              /\ Refuse(t, "changed") /\ UNCHANGED settings
           \/ /\ IsValid(Updated(job[t].row, edit)) /\ IsValid(Updated(stored, edit))
              /\ End(t) /\ settings' = Updated(stored, edit)
    /\ Release(t)

\* A connection lost, or a task cancelled, before the commit.
Rollback(t) ==
    /\ job[t].pc \in {"insert", "select", "apply"}
    /\ End(t)
    /\ Release(t)
    /\ UNCHANGED settings

Answer(t) == At(t, "refused") /\ End(t) /\ UNCHANGED <<settings, holder>>

SettingsNext ==
    \E t \in Tasks :
        \/ Read(t) \/ SelectForUpdate(t) \/ Insert(t) \/ Apply(t) \/ Rollback(t) \/ Answer(t)
        \/ \E button \in Toggles : Toggle(t, button)
        \/ \E edit \in Edits : Type(t, edit)

-----------------------------------------------------------------------------
\* An edit is refused for what it would make of the row as it stands at that moment, never for
\* values that another edit has replaced meanwhile: update_setting validates preferred against
\* maximum rate, and the balance thresholds against each other, with the row locked, so that "changed
\* concurrently; please retry" can only mean that the row was being inserted.
EditRefusedOnlyForItself ==
    [][\A t \in Tasks :
         At(t, "apply") /\ job'[t].pc = "refused" =>
            /\ job'[t].why = "invalid"
            /\ ~IsValid(Updated(IF settings = NoRow THEN Defaults ELSE settings, job[t].edit))]_settingsVars

=============================================================================
