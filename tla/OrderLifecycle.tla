---------------------------- MODULE OrderLifecycle ----------------------------
(***************************************************************************)
(* What the marketplace workflows promise about a Client Order, whatever   *)
(* tasks, row locks, HTTP calls and crashes do: the life of an order       *)
(* (sensflow/domain/order) and of its attempts (sensflow/domain/           *)
(* marketplace), one step per committed change.                            *)
(***************************************************************************)
CONSTANTS
    Orders,     \* Client Orders
    Ids         \* marketplace attempts an order may have

VARIABLES
    status,     \* status of each order
    working,    \* attempts of each order that are being executed
    delivered   \* attempts of each order that were completed

lifecycleVars == <<status, working, delivered>>

Init ==
    /\ status = [o \in Orders |-> "draft"]
    /\ working = [o \in Orders |-> {}]
    /\ delivered = [o \in Orders |-> {}]

SetStatus(o, s) == status' = [status EXCEPT ![o] = s]
SetWorking(o, s) == working' = [working EXCEPT ![o] = s]

\* A paid Draft waits for stock.
Wait(o) ==
    /\ status[o] = "draft"
    /\ SetStatus(o, "preorder")
    /\ UNCHANGED <<working, delivered>>

\* An attempt begins, and it is the only one.
Buy(o) ==
    /\ status[o] \in {"draft", "preorder"}
    /\ working[o] = {}
    /\ SetStatus(o, "purchasing")
    /\ \E n \in Ids : SetWorking(o, {n})
    /\ UNCHANGED delivered

\* One attempt takes the place of another.
Replace(o) ==
    /\ status[o] = "purchasing"
    /\ \E m, n \in Ids : m # n /\ working[o] = {m} /\ SetWorking(o, {n})
    /\ UNCHANGED <<status, delivered>>

\* The attempt ended without a delivery; the paid order waits again.
GiveBack(o) ==
    /\ status[o] = "purchasing"
    /\ SetStatus(o, "preorder")
    /\ SetWorking(o, {})
    /\ UNCHANGED delivered

\* The order is put back although its current attempt is still being executed: the
\* state the domain tolerates by letting a PreOrder complete.
Misplace(o) ==
    /\ status[o] = "purchasing"
    /\ SetStatus(o, "preorder")
    /\ UNCHANGED <<working, delivered>>

\* The attempt delivered; nothing is delivered twice.
Complete(o) ==
    /\ status[o] \in {"preorder", "purchasing"}
    /\ \E n \in Ids :
        /\ working[o] = {n}
        /\ delivered[o] = {}
        /\ delivered' = [delivered EXCEPT ![o] = {n}]
    /\ SetStatus(o, "completed")
    /\ SetWorking(o, {})

\* The operator cancels an unfinished order.
Cancel(o) ==
    /\ status[o] \in {"draft", "preorder", "purchasing"}
    /\ SetStatus(o, "cancelled")
    /\ SetWorking(o, {})
    /\ UNCHANGED delivered

\* The operator ends the local automation of an order.
ForceClose(o) ==
    /\ status[o] \in {"preorder", "purchasing"}
    /\ SetStatus(o, "force_closed")
    /\ SetWorking(o, {})
    /\ UNCHANGED delivered

Next ==
    \E o \in Orders :
        \/ Wait(o) \/ Buy(o) \/ Replace(o) \/ GiveBack(o) \/ Misplace(o)
        \/ Complete(o) \/ Cancel(o) \/ ForceClose(o)

Spec == Init /\ [][Next]_lifecycleVars

=============================================================================
