------------------------------- MODULE Console -------------------------------
(***************************************************************************)
(* The operator's console beside the dialogue that creates orders: the     *)
(* order card with its buttons, the dialogue that edits a Draft            *)
(* (sensflow/presentation/telegram/routers/orders.py), those that search   *)
(* and those that ask for one value (customers.py, settings.py), and the   *)
(* services behind the buttons (sensflow/application/services.py).         *)
(*                                                                         *)
(* Every update has a task of its own.  A tap is dispatched by the state   *)
(* the chat is in when it arrives and goes on after callback.answer(); a   *)
(* message is handled at once as far as the service.  A service waits for  *)
(* the row of its order, and may wait for RBXCrate while it has it.  What  *)
(* automation does to orders meanwhile is a step of OrderLifecycle.        *)
(***************************************************************************)
EXTENDS FiniteSets

CONSTANTS
    Tasks,          \* tasks of the dispatcher, one per update
    Orders,         \* Client Orders
    Ids,            \* marketplace attempts an order may have
    Amounts,        \* for each order, the Robux the operator may want it to be for
    NoTask,         \* "not locked"
    None            \* "-" typed to keep a value, nothing remembered, nothing bought

ASSUME TasksAssumption == NoTask \notin Tasks
ASSUME AmountsAssumption == \A o \in Orders : None \notin Amounts[o]

VARIABLES
    status, working, delivered,     \* of OrderLifecycle
    robux,      \* requested_robux of each order
    bought,     \* what RBXCrate was asked for by the attempt it executes for each order
    lock,       \* holder of each order's row
    state,      \* state of the chat
    data,       \* what its dialogues collected
    task        \* program counter and locals of each task

orderVars == <<status, working, delivered, robux, bought>>
chatVars == <<state, data>>
vars == <<orderVars, lock, chatVars, task>>

Lifecycle == INSTANCE OrderLifecycle

Idle == [pc |-> "idle"]
NoData == [edit_order_id |-> None, edit_requested_robux |-> None]

Init ==
    /\ Lifecycle!Init
    /\ robux \in [Orders -> UNION {Amounts[o] : o \in Orders}]
    /\ \A o \in Orders : robux[o] \in Amounts[o]
    /\ bought = [o \in Orders |-> None]
    /\ lock = [o \in Orders |-> NoTask]
    /\ state = "none"
    /\ data = NoData
    /\ task = [t \in Tasks |-> Idle]

GoTo(t, job) == task' = [task EXCEPT ![t] = job]
End(t) == GoTo(t, Idle)
Accepted(job) == [pc |-> "commit", action |-> job.action, order |-> job.order, amount |-> job.amount]
Refused(job) == [pc |-> "refused", action |-> job.action]
Release(t) == lock' = [o \in Orders |-> IF lock[o] = t THEN NoTask ELSE lock[o]]
Clear == state' = "none" /\ data' = NoData

-----------------------------------------------------------------------------
(***************************************************************************)
(* Cards and taps.  A tap on an old card is like one that took long to be  *)
(* answered: either way the order may have changed since it was shown.     *)
(***************************************************************************)
\* A defective variant of the next definition, like those below: every order that is not finished
\* may be force closed.
OrderActionsOfOpenOrders ==
    [draft |-> {"confirm_payment", "edit_draft", "delete_draft", "force_close"},
     preorder |-> {"start_purchase", "cancel", "force_close"},
     purchasing |-> {"manual_reorder", "toggle_auto_requeue", "cancel", "force_close", "refresh"},
     cancelled |-> {"repeat"},
     completed |-> {},
     force_closed |-> {}]

\* _order_actions; the two purchase buttons and the two toggles of Auto Requeue are one action each.
OrderActions ==
    [draft |-> {"confirm_payment", "edit_draft", "delete_draft"},
     preorder |-> {"start_purchase", "cancel", "force_close"},
     purchasing |-> {"manual_reorder", "toggle_auto_requeue", "cancel", "force_close", "refresh"},
     cancelled |-> {"repeat"},
     completed |-> {},
     force_closed |-> {}]

\* The statuses in which the services act, or say that it is done already.
Accepting ==
    [confirm_payment |-> {"draft", "preorder", "force_closed"},
     start_purchase |-> {"draft", "preorder", "force_closed"},
     edit_draft |-> {"draft"},
     delete_draft |-> {"draft", "cancelled"},
     cancel |-> {"draft", "preorder", "purchasing", "cancelled"},
     force_close |-> {"preorder", "purchasing", "force_closed"},
     manual_reorder |-> {"purchasing"},
     toggle_auto_requeue |-> {"purchasing"},
     refresh |-> {"preorder", "purchasing"},
     repeat |-> {"cancelled"}]

\* An attempt that is being executed keeps a PreOrder from being bought, and is what refresh is for.
Accepts(action, o) ==
    /\ status[o] \in Accepting[action]
    /\ action \in {"confirm_payment", "start_purchase"} => status[o] = "force_closed" \/ working[o] = {}
    /\ action = "refresh" => working[o] # {}

\* handle_order_action waits for the answer to the tap and then for the row.
TapOrder(t, o, action) ==
    /\ task[t] = Idle
    /\ action \in OrderActions[status[o]]
    /\ GoTo(t, [pc |-> IF action = "edit_draft" THEN "answer" ELSE "select",
                action |-> action, order |-> o, card |-> status[o], amount |-> None])
    /\ UNCHANGED <<orderVars, lock, chatVars>>

\* The prompts of a dialogue offer to go back, every screen to leave or to begin something else.
TapElsewhere(t) ==
    /\ task[t] = Idle
    /\ \/ \E action \in {"leave", "other"} : GoTo(t, [pc |-> "answer", action |-> action])
       \/ state # "none" /\ GoTo(t, [pc |-> "answer", action |-> "back", from |-> state])
    /\ UNCHANGED <<orderVars, lock, chatVars>>

Answered(t, action) == task[t].pc = "answer" /\ task[t].action = action

-----------------------------------------------------------------------------
(***************************************************************************)
(* Defective variants of definitions below.  No behaviour uses them: each  *)
(* takes the place of the one it is named after to show that a property    *)
(* notices.                                                                *)
(***************************************************************************)
\* Only the data of the chat is replaced when it was being asked for a Place ID.
BeginDraftEditAnywhere(t) ==
    /\ Answered(t, "edit_draft")
    /\ state' = IF state = "place_id" THEN state ELSE "requested_robux"
    /\ data' = [data EXCEPT !.edit_order_id = task[t].order]
    /\ End(t)
    /\ UNCHANGED <<orderVars, lock>>

\* get in the place of get_for_update.
SelectOrderUnlocked(t) ==
    /\ task[t].pc = "select"
    /\ GoTo(t, IF Accepts(task[t].action, task[t].order) THEN Accepted(task[t]) ELSE Refused(task[t]))
    /\ UNCHANGED <<orderVars, lock, chatVars>>

-----------------------------------------------------------------------------
(***************************************************************************)
(* The dialogues                                                           *)
(***************************************************************************)
\* begin_draft_edit: what else is in the data stays there.
BeginDraftEdit(t) ==
    /\ Answered(t, "edit_draft")
    /\ state' = "requested_robux"
    /\ data' = [data EXCEPT !.edit_order_id = task[t].order]
    /\ End(t)
    /\ UNCHANGED <<orderVars, lock>>

\* receive_draft_robux: an amount the operator wants for the order that is edited, or "-".
TypeAmount(t) ==
    /\ task[t] = Idle /\ state = "requested_robux"
    /\ \E amount \in {None} \cup (IF data.edit_order_id = None THEN {} ELSE Amounts[data.edit_order_id]) :
         data' = [data EXCEPT !.edit_requested_robux = amount]
    /\ state' = "place_id"
    /\ UNCHANGED <<orderVars, lock, task>>

\* receive_draft_place_id as far as the service; the dialogue goes on until the service is done.
TypePlace(t) ==
    /\ task[t] = Idle /\ state = "place_id"
    /\ \/ data.edit_order_id = None /\ Clear /\ UNCHANGED task
       \/ /\ data.edit_order_id # None
          /\ GoTo(t, [pc |-> "select", action |-> "edit_draft", order |-> data.edit_order_id,
                      card |-> "draft", amount |-> data.edit_requested_robux])
          /\ UNCHANGED chatVars
    /\ UNCHANGED <<orderVars, lock>>

\* begin_order_search, begin_customer_search, begin_place_id_update, begin_setting_edit: "other"
\* stands for the states of all of them.  Only begin_customer_search clears the data.
BeginOther(t) ==
    /\ Answered(t, "other")
    /\ state' = "other"
    /\ data' \in {data, NoData}
    /\ End(t)
    /\ UNCHANGED <<orderVars, lock>>

\* receive_place_id_update, receive_setting_value: the dialogue ends before the service begins.
\* (A search ends no dialogue, and changes nothing here.)
TypeOther(t) ==
    /\ task[t] = Idle /\ state = "other"
    /\ Clear
    /\ GoTo(t, [pc |-> "other"])
    /\ UNCHANGED <<orderVars, lock>>

\* back_from_*, by the state the chat was in: only from the second prompt is the data kept.
Back(t) ==
    /\ Answered(t, "back")
    /\ IF task[t].from = "place_id"
       THEN state' = "requested_robux" /\ UNCHANGED data
       ELSE Clear
    /\ End(t)
    /\ UNCHANGED <<orderVars, lock>>

\* Every menu and list that ends whatever dialogue there is.
Leave(t) == Answered(t, "leave") /\ Clear /\ End(t) /\ UNCHANGED <<orderVars, lock>>

\* A service returns.  After edit_draft, and after an error of the services that take one value, the
\* chat is cleared, whatever dialogue began meanwhile.
Return(t) ==
    /\ \/ /\ task[t].pc \in {"refused", "returned"}
          /\ IF task[t].action = "edit_draft" THEN Clear ELSE UNCHANGED chatVars
       \/ task[t].pc = "other" /\ (Clear \/ UNCHANGED chatVars)
    /\ End(t)
    /\ UNCHANGED <<orderVars, lock>>

-----------------------------------------------------------------------------
(***************************************************************************)
(* The services                                                            *)
(***************************************************************************)
\* The order is locked and its status compared.  A refresh, and the cancellation of an attempt,
\* ask RBXCrate without the lock and come back for it.
Keeps(action, o) == ~(action = "refresh" \/ (action = "cancel" /\ working[o] # {}))
SelectOrder(t) ==
    LET o == task[t].order
        action == task[t].action
    IN  /\ task[t].pc = "select"
        /\ action = "refresh" \/ lock[o] = NoTask
        /\ IF Accepts(action, o)
           THEN /\ GoTo(t, Accepted(task[t]))
                /\ lock' = IF Keeps(action, o) THEN [lock EXCEPT ![o] = t] ELSE lock
           ELSE GoTo(t, Refused(task[t])) /\ UNCHANGED lock
        /\ UNCHANGED <<orderVars, chatVars>>

\* An attempt is for the amount of the order at that moment.
Ask(o) == bought' = [bought EXCEPT ![o] = robux[o]]
Forget(o) == bought' = [bought EXCEPT ![o] = None]

\* Of the fields of a Draft only the amount is modelled.
EditDraft(t, o) ==
    /\ task[t].action = "edit_draft"
    /\ robux' = [robux EXCEPT ![o] = IF task[t].amount = None THEN @ ELSE task[t].amount]
    /\ UNCHANGED <<status, working, delivered, bought>>

Purchase(t, o) ==
    /\ task[t].action \in {"confirm_payment", "start_purchase"}
    /\ \/ Lifecycle!Buy(o) /\ Ask(o)
       \/ Lifecycle!Wait(o) /\ UNCHANGED bought
    /\ UNCHANGED robux

Requeue(t, o) ==
    /\ task[t].action = "manual_reorder"
    /\ \/ Lifecycle!Replace(o) /\ Ask(o)
       \/ Lifecycle!GiveBack(o) /\ Forget(o)
    /\ UNCHANGED robux

Refresh(t, o) ==
    /\ task[t].action = "refresh"
    /\ Lifecycle!GiveBack(o) \/ Lifecycle!Complete(o)
    /\ Forget(o)
    /\ UNCHANGED robux

EndOrder(t, o) ==
    /\ \/ task[t].action \in {"delete_draft", "cancel"} /\ Lifecycle!Cancel(o)
       \/ task[t].action = "force_close" /\ Lifecycle!ForceClose(o)
    /\ Forget(o)
    /\ UNCHANGED robux

\* One of these effects and the commit; or none of them: it is done already, too early or too late,
\* of no modelled effect (Auto Requeue, the copy repeat_order makes), or rolled back.
CommitOrder(t) ==
    LET o == task[t].order
    IN  /\ task[t].pc = "commit"
        /\ lock[o] \in {NoTask, t}
        /\ \/ EditDraft(t, o) \/ Purchase(t, o) \/ Requeue(t, o) \/ Refresh(t, o) \/ EndOrder(t, o)
           \/ UNCHANGED orderVars
        /\ Release(t)
        /\ IF task[t].action = "edit_draft" THEN GoTo(t, [pc |-> "returned", action |-> "edit_draft"])
                                           ELSE End(t)
        /\ UNCHANGED chatVars

\* Automation, recovery and the dialogue that created the order.
Elsewhere(o) ==
    /\ lock[o] = NoTask
    /\ \/ (Lifecycle!Buy(o) \/ Lifecycle!Replace(o)) /\ Ask(o)
       \/ (Lifecycle!Wait(o) \/ Lifecycle!Misplace(o)) /\ UNCHANGED bought
       \/ (Lifecycle!GiveBack(o) \/ Lifecycle!Complete(o)) /\ Forget(o)
    /\ UNCHANGED <<robux, lock, chatVars, task>>

-----------------------------------------------------------------------------
\* The process ends: what the chat and the tasks knew is gone, transactions are rolled back.
Restart ==
    /\ task' = [t \in Tasks |-> Idle]
    /\ lock' = [o \in Orders |-> NoTask]
    /\ Clear
    /\ UNCHANGED orderVars

Operator(t) ==
    \/ TapElsewhere(t) \/ TypeAmount(t) \/ TypePlace(t) \/ TypeOther(t)
    \/ \E o \in Orders : \E action \in OrderActions[status[o]] : TapOrder(t, o, action)

Handle(t) ==
    \/ BeginDraftEdit(t) \/ BeginOther(t) \/ Back(t) \/ Leave(t) \/ Return(t)
    \/ SelectOrder(t) \/ CommitOrder(t)

Next ==
    \/ \E t \in Tasks : Operator(t) \/ Handle(t)
    \/ \E o \in Orders : Elsewhere(o)
    \/ Restart

Spec == Init /\ [][Next]_vars

-----------------------------------------------------------------------------
\* What RBXCrate executes is what the order says: an edit that waited while a purchase asked for the
\* old amount is refused, however the two were begun.
BoughtAsOrdered == \A o \in Orders : working[o] # {} => bought[o] = robux[o]

\* An order is only ever for an amount the operator typed for it, even when another order is edited,
\* a dialogue left or gone back in, and these taps overtake each other.
AmountIsForOrder == \A o \in Orders : robux[o] \in Amounts[o]

\* A button on a card is refused only when the order changed after the card was shown, or when a
\* PreOrder still has an attempt: the actions a card offers and the statuses the services accept are
\* kept in different layers.
OfferedIsAccepted ==
    [][\A t \in Tasks :
         task[t].pc = "select" /\ task'[t].pc = "refused" =>
            LET o == task[t].order
            IN  status[o] # task[t].card \/ (status[o] = "preorder" /\ working[o] # {})]_vars

=============================================================================
