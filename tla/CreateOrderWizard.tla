--------------------------- MODULE CreateOrderWizard ---------------------------
(***************************************************************************)
(* The dialogue in which the operator creates an order                     *)
(* (sensflow/presentation/telegram/routers/create_order.py).               *)
(*                                                                         *)
(* Its state and data are kept per chat, in memory.  Every update gets a   *)
(* task of its own: it is dispatched by the state the chat is in when it   *)
(* arrives, and may be overtaken whenever it waits, for Telegram to accept *)
(* the answer to a tap, for the database, Roblox or RBXCrate.              *)
(*                                                                         *)
(* A Roblox user is known by its name, so the Roblox User ID of name n is  *)
(* n again.  Of the amount, the lists of places and the place of an order  *)
(* only whether they are there is kept.                                    *)
(***************************************************************************)
CONSTANTS
    Tasks,      \* tasks of the dispatcher, one per update
    Names,      \* Roblox usernames
    NoName      \* no username or no Roblox User ID

VARIABLES
    state,      \* CreateOrderStates, or "none"
    data,       \* what the dialogue collected
    shown,      \* the optional buttons that messages of the chat may still have
    task,       \* program counter and locals of each task
    created     \* the commands create_order carried out

vars == <<state, data, shown, task, created>>

Idle == [pc |-> "idle"]
NoData == [username |-> NoName, roblox_user_id |-> NoName, requested_robux |-> FALSE,
           remembered_place |-> FALSE, public_places |-> FALSE, place_id |-> FALSE,
           allow_duplicate |-> FALSE]

Init ==
    /\ state = "none"
    /\ data = NoData
    /\ shown = {}
    /\ task = [t \in Tasks |-> Idle]
    /\ created = {}

Goto(t, job) == task' = [task EXCEPT ![t] = job]

\* PrepareCreateOrderCommand and FindSimilarOrderQuery can be built from the data.
IsPrepared == data.username # NoName /\ data.requested_robux

\* The handler ends: what it says to the operator is of no further consequence.
End(t) == Goto(t, Idle)
EndWith(t, next) == End(t) /\ state' = next /\ UNCHANGED <<data, shown, created>>
Refuse(t) == End(t) /\ UNCHANGED <<state, data, shown, created>>
Clear(t, next) == End(t) /\ state' = next /\ data' = NoData /\ UNCHANGED <<shown, created>>

-----------------------------------------------------------------------------
(***************************************************************************)
(* Taps: the state is compared when the update arrives, and the handler    *)
(* goes on after callback.answer().  A screen keeps its buttons until it   *)
(* is tapped itself: every message of the dialogue offers to go back.      *)
(***************************************************************************)
Before == [username |-> "none", requested_robux |-> "username",
           purchase_mode |-> "requested_robux", place_selection |-> "purchase_mode",
           manual_place_id |-> "purchase_mode", duplicate_confirmation |-> "manual_place_id"]

Offered(button) ==
    CASE button \in {"begin", "leave"} -> TRUE
      [] button = "back" -> state \in DOMAIN Before
      [] button = "mode" -> state = "purchase_mode"
      [] button \in {"enter", "refresh"} -> state = "place_selection"
      [] button \in {"remembered", "public"} -> state = "place_selection" /\ button \in shown
      [] button \in {"preorder", "retry"} -> state = "stock_unavailable"
      [] button = "duplicate" -> button \in shown
Buttons == {"begin", "leave", "back", "mode", "enter", "refresh", "remembered", "public",
            "preorder", "retry", "duplicate"}

Tap(t, button) ==
    /\ task[t] = Idle
    /\ Offered(button)
    /\ Goto(t, [pc |-> "answer", button |-> button, from |-> state])
    /\ UNCHANGED <<state, data, shown, created>>

Answered(t, button) == task[t].pc = "answer" /\ task[t].button = button

\* begin_create_order
Begin(t) == Answered(t, "begin") /\ Clear(t, "username")

\* Every handler that leaves the dialogue: the menu, Home, Close, abort and reuse.
Leave(t) == Answered(t, "leave") /\ Clear(t, "none")

\* back_from_*: only from the first state is the data cleared.
Back(t) ==
    /\ Answered(t, "back")
    /\ IF task[t].from = "username"
       THEN Clear(t, "none")
       ELSE EndWith(t, Before[task[t].from])

EnterManually(t) == Answered(t, "enter") /\ EndWith(t, "manual_place_id")

-----------------------------------------------------------------------------
(***************************************************************************)
(* Username, amount, mode                                                  *)
(***************************************************************************)
TypeUsername(t, name) ==
    /\ task[t] = Idle /\ state = "username"
    /\ data' = [data EXCEPT !.username = name]
    /\ state' = "requested_robux"
    /\ UNCHANGED <<shown, task, created>>

TypeAmount(t) ==
    /\ task[t] = Idle /\ state = "requested_robux"
    /\ data.username # NoName
    /\ data' = [data EXCEPT !.requested_robux = TRUE]
    /\ Goto(t, [pc |-> "settings"])
    /\ UNCHANGED <<state, shown, created>>

SettingsRead(t) == task[t].pc = "settings" /\ EndWith(t, "purchase_mode")

\* select_purchase_mode and refresh_public_places go on to _load_place_selection.
Lookup(t) ==
    /\ \E button \in {"mode", "refresh"} : Answered(t, button)
    /\ IF IsPrepared
       THEN Goto(t, [pc |-> "lookup", username |-> data.username,
                     refresh |-> task[t].button = "refresh"])
       ELSE End(t)
    /\ UNCHANGED <<state, data, shown, created>>

\* _show_place_selection
Select(t, uid, remembered, places) ==
    /\ data' = [data EXCEPT !.username = task[t].username, !.roblox_user_id = uid,
                            !.remembered_place = remembered, !.public_places = places]
    /\ state' = IF remembered \/ places THEN "place_selection" ELSE "manual_place_id"
    /\ shown' = shown \cup (IF remembered THEN {"remembered"} ELSE {})
                      \cup (IF places THEN {"public"} ELSE {})
    /\ End(t)
    /\ UNCHANGED created

LookupSucceeds(t) ==
    /\ task[t].pc = "lookup"
    /\ \/ ~task[t].refresh /\ Select(t, NoName, TRUE, FALSE)
       \/ \E places \in BOOLEAN : Select(t, task[t].username, FALSE, places)

\* Roblox cannot be reached, or knows no such user.
LookupFails(t) ==
    /\ task[t].pc = "lookup"
    /\ EndWith(t, "place_selection") \/ Refuse(t)

-----------------------------------------------------------------------------
(***************************************************************************)
(* The place, a similar order, the stock                                   *)
(***************************************************************************)
\* _continue_with_place, as far as find_similar_order.
Continue(t) ==
    /\ IF IsPrepared THEN Goto(t, [pc |-> "similar"]) ELSE End(t)
    /\ UNCHANGED <<state, data, shown, created>>

ChoosePlace(t) ==
    \/ /\ Answered(t, "remembered")
       /\ IF data.remembered_place THEN Continue(t) ELSE Refuse(t)
    \/ /\ Answered(t, "public")
       /\ IF data.public_places THEN Continue(t) ELSE Refuse(t)
    \/ task[t] = Idle /\ state = "manual_place_id" /\ Continue(t)

\* _check_stock, with the data as it is now.
CheckStock(t, allow) ==
    IF IsPrepared THEN Goto(t, [pc |-> "stock", allow |-> allow]) ELSE End(t)

SimilarLookedUp(t) ==
    /\ task[t].pc = "similar"
    /\ data' = [data EXCEPT !.place_id = TRUE]
    /\ \/ state' = "duplicate_confirmation" /\ shown' = shown \cup {"duplicate"} /\ End(t)
       \/ CheckStock(t, FALSE) /\ UNCHANGED <<state, shown>>
    /\ UNCHANGED created

\* create_duplicate_order is dispatched in every state, retry_stock_check in one.
CheckAgain(t) ==
    /\ \/ Answered(t, "duplicate") /\ CheckStock(t, TRUE)
       \/ Answered(t, "retry") /\ CheckStock(t, data.allow_duplicate)
    /\ UNCHANGED <<state, data, shown, created>>

\* _create_and_route, with the data as it is now.
Create(t, allow) ==
    IF IsPrepared /\ data.place_id
    THEN Goto(t, [pc |-> "create", username |-> data.username,
                  roblox_user_id |-> data.roblox_user_id, allow_duplicate |-> allow])
    ELSE End(t)

StockChecked(t) ==
    /\ task[t].pc = "stock"
    /\ data' = [data EXCEPT !.allow_duplicate = task[t].allow]
    /\ \/ state' = "stock_unavailable" /\ End(t)
       \/ Create(t, task[t].allow) /\ UNCHANGED state
    /\ UNCHANGED <<shown, created>>

SendToPreorders(t) ==
    /\ Answered(t, "preorder")
    /\ Create(t, data.allow_duplicate)
    /\ UNCHANGED <<state, data, shown, created>>

\* create_order commits; start_purchase or send_to_preorder follows.
OrderCreated(t) ==
    /\ task[t].pc = "create"
    /\ created' = created \cup {[username |-> task[t].username,
                                 roblox_user_id |-> task[t].roblox_user_id,
                                 allow_duplicate |-> task[t].allow_duplicate]}
    /\ Goto(t, [pc |-> "route"])
    /\ UNCHANGED <<state, data, shown>>

Routed(t) == task[t].pc = "route" /\ Clear(t, "none")

\* An ApplicationError of whatever is waited for: the dialogue stays as it is.
Fails(t) == task[t].pc \in {"stock", "create", "route"} /\ Refuse(t)

-----------------------------------------------------------------------------
Handle(t) ==
    \/ Begin(t) \/ Leave(t) \/ Back(t) \/ EnterManually(t)
    \/ TypeAmount(t) \/ SettingsRead(t) \/ Lookup(t) \/ LookupSucceeds(t) \/ LookupFails(t)
    \/ ChoosePlace(t) \/ SimilarLookedUp(t) \/ CheckAgain(t) \/ StockChecked(t)
    \/ SendToPreorders(t) \/ OrderCreated(t) \/ Routed(t) \/ Fails(t)

Next ==
    \E t \in Tasks :
        \/ Handle(t)
        \/ \E button \in Buttons : Tap(t, button)
        \/ \E name \in Names : TypeUsername(t, name)

Spec == Init /\ [][Next]_vars

-----------------------------------------------------------------------------
\* The identity an order is created with is the one Roblox gave for its username: RobloxIdentity
\* says it is verified, and refresh_identity renames the customer of the ID on the strength of it.
IdentityIsVerified ==
    \A order \in created : order.roblox_user_id \in {order.username, NoName}

=============================================================================
