---------------------------- MODULE RbxcrateCalls ----------------------------
(***************************************************************************)
(* Calls to RBXCrate about one external order id                           *)
(* (sensflow/integrations/rbxcreate/client.py and gateway.py,              *)
(* sensflow/application/rbxcreate_bridge.py): creating the order, at once  *)
(* or as a supplier preorder, and cancelling it.                           *)
(*                                                                         *)
(* RbxcrateClient sends a POST again after a timeout or a 5xx answer,      *)
(* although the one before may have been executed, or may yet be: a        *)
(* request whose connection was given up stays on its way ("late").  What  *)
(* a caller is told at last is what PurchaseWorkflows relies on: there, a  *)
(* successful call is one step that changes RBXCrate's order once.         *)
(*                                                                         *)
(* Of RBXCrate the model assumes what the error classes of the integration *)
(* say: an id is taken once (RbxcrateDuplicateOrderError), and only an     *)
(* order being worked on can be cancelled (RbxcrateUnsupportedStatusError).*)
(***************************************************************************)
EXTENDS Naturals

CONSTANTS
    Calls,         \* the calls made about this id
    MAX_ATTEMPTS,  \* requests sent for one create or cancel
    NoCall         \* "no call of ours"

ASSUME AttemptsAssumption == MAX_ATTEMPTS \in Nat \ {0}
ASSUME NoCallAssumption == NoCall \notin Calls

VARIABLES
    order,  \* RBXCrate's order under the id
    call,   \* each call: where it stands and what its caller was told
    late    \* requests nobody waits for any more, which may still be executed

vars == <<order, call, late>>

Absent == [status |-> "absent", preorder |-> FALSE, by |-> NoCall, cancelledBy |-> NoCall]
Idle == [pc |-> "idle"]
Request(c) == [op |-> call[c].op, preorder |-> call[c].preorder, by |-> c]

Running(c) == call[c].pc \in {"send", "wait", "answered"}
Told(c, result) == call[c].pc = "told" /\ call[c].result = result

Init ==
    /\ order = Absent
    /\ call = [c \in Calls |-> Idle]
    /\ late = {}

(***************************************************************************)
(* RBXCrate                                                                *)
(***************************************************************************)
Accepts(r) ==
    /\ r.op = "create"
    /\ order.status = "absent"
    /\ order' = [Absent EXCEPT !.status = "active", !.preorder = r.preorder, !.by = r.by]

Cancels(r) ==
    /\ r.op = "cancel"
    /\ order.status = "active"
    /\ order' = [order EXCEPT !.status = "cancelled", !.cancelledBy = r.by]

\* Answers that go with doing what was asked: a usable one, a 5xx, or a body that does not
\* parse or carries an unknown status.
AnswersOfEffect == {"done", "serverError", "unusable"}

\* Answers that go with doing nothing.
Refusals(r) ==
    {"serverError", "refused"}
        \cup (IF r.op = "create" THEN {"outOfStock"} ELSE {})
        \cup (IF r.op = "create" /\ order.status # "absent" THEN {"duplicate"} ELSE {})
        \cup (IF r.op = "cancel" /\ order.status # "active" THEN {"unsupportedStatus"} ELSE {})

-----------------------------------------------------------------------------
Ask(c, op, preorder, attempt) ==
    call' = [call EXCEPT ![c] = [pc |-> "send", op |-> op, preorder |-> preorder,
                                 attempt |-> attempt, answer |-> "none"]]
Tell(c, result) == call' = [call EXCEPT ![c] = [pc |-> "told", result |-> result]]

-----------------------------------------------------------------------------
(***************************************************************************)
(* Defective variants, one per property; no behaviour uses them.           *)
(***************************************************************************)

\* "The order already exists" is taken for the answer that was lost.
OutcomeDuplicateAccepted(op, preorder, answer) ==
    IF answer \in {"done", "duplicate"}
    THEN IF op = "cancel" THEN "cancelled" ELSE IF preorder THEN "preordered" ELSE "accepted"
    ELSE IF answer = "unsupportedStatus" THEN "unsupported" ELSE "error"

\* So is "the status does not allow cancellation".
OutcomeUnsupportedCancelled(op, preorder, answer) ==
    IF answer \in {"done", "unsupportedStatus"}
    THEN IF op = "cancel" THEN "cancelled" ELSE IF preorder THEN "preordered" ELSE "accepted"
    ELSE "error"

-----------------------------------------------------------------------------
(***************************************************************************)
(* The client                                                              *)
(***************************************************************************)

\* _request, the request failed or was answered with 5xx: once more, up to MAX_ATTEMPTS.
Retry(c) ==
    IF call[c].attempt < MAX_ATTEMPTS
    THEN Ask(c, call[c].op, call[c].preorder, call[c].attempt + 1)
    ELSE Tell(c, "error")

\* The connection is given up while the request is not answered: it stays on its way.
GiveUpConnection(c) ==
    late' = IF call[c].pc = "wait" THEN late \cup {Request(c)} ELSE late

\* start_purchase and _requeue_active hold the order's row lock while they create.
BeginCreate(c) ==
    /\ call[c] = Idle
    /\ \A d \in Calls : Running(d) => call[d].op # "create"
    /\ Ask(c, "create", FALSE, 1)
    /\ UNCHANGED <<order, late>>

\* Only an attempt that was recorded is cancelled, by as many callers as there are.
BeginCancel(c) ==
    /\ call[c] = Idle
    /\ \E d \in Calls : Told(d, "accepted") \/ Told(d, "preordered")
    /\ Ask(c, "cancel", FALSE, 1)
    /\ UNCHANGED <<order, late>>

Send(c) ==
    /\ call[c].pc = "send"
    /\ call' = [call EXCEPT ![c].pc = "wait"]
    /\ UNCHANGED <<order, late>>

\* httpx.ConnectError: the request never left.
ConnectFails(c) == call[c].pc = "send" /\ Retry(c) /\ UNCHANGED <<order, late>>

Answer(c, answer) == call' = [call EXCEPT ![c].pc = "answered", ![c].answer = answer]

Serve(c) ==
    /\ call[c].pc = "wait"
    /\ \/ /\ Accepts(Request(c)) \/ Cancels(Request(c))
          /\ \E a \in AnswersOfEffect : Answer(c, a)
       \/ /\ \E a \in Refusals(Request(c)) : Answer(c, a)
          /\ UNCHANGED order
    /\ UNCHANGED late

\* httpx.ReadTimeout, or WriteTimeout of a request RBXCrate received nevertheless.
TimesOut(c) ==
    /\ call[c].pc \in {"wait", "answered"}
    /\ Retry(c)
    /\ GiveUpConnection(c)
    /\ UNCHANGED order

\* Any other httpx.HTTPError is raised at once.
Breaks(c) ==
    /\ Running(c)
    /\ Tell(c, "error")
    /\ GiveUpConnection(c)
    /\ UNCHANGED order

\* What the bridge makes of the answer that is not repeated and not fallen back from.
Outcome(op, preorder, answer) ==
    IF answer = "done"
    THEN IF op = "cancel" THEN "cancelled" ELSE IF preorder THEN "preordered" ELSE "accepted"
    ELSE IF answer = "unsupportedStatus" THEN "unsupported" ELSE "error"

\* is_out_of_stock_error: the instant order was refused only for want of stock.
FallsBack(c) ==
    call[c].op = "create" /\ call[c].answer = "outOfStock" /\ ~call[c].preorder

ServerFailed(c) ==
    /\ call[c].pc = "answered"
    /\ call[c].answer = "serverError"
    /\ Retry(c)
    /\ UNCHANGED <<order, late>>

\* create_gamepass_order: the same id again, as a supplier preorder.
FallBack(c) ==
    /\ call[c].pc = "answered"
    /\ FallsBack(c)
    /\ Ask(c, "create", TRUE, 1)
    /\ UNCHANGED <<order, late>>

Return(c) ==
    /\ call[c].pc = "answered"
    /\ call[c].answer # "serverError"
    /\ ~FallsBack(c)
    /\ Tell(c, Outcome(call[c].op, call[c].preorder, call[c].answer))
    /\ UNCHANGED <<order, late>>

-----------------------------------------------------------------------------
(***************************************************************************)
(* RBXCrate on its own.  late is a set: of two equal requests the second   *)
(* can have no effect any more.                                            *)
(***************************************************************************)
ServeLate(r) ==
    /\ Accepts(r) \/ Cancels(r) \/ UNCHANGED order
    /\ late' = late \ {r}
    /\ UNCHANGED call

Works ==
    /\ order.status = "active"
    /\ \E s \in {"completed", "cancelled"} : order' = [order EXCEPT !.status = s]
    /\ UNCHANGED <<call, late>>

Proceed(c) ==
    \/ Send(c) \/ ConnectFails(c) \/ TimesOut(c) \/ Breaks(c)
    \/ ServerFailed(c) \/ FallBack(c) \/ Return(c)

Next ==
    \/ \E c \in Calls : BeginCreate(c) \/ BeginCancel(c) \/ Proceed(c) \/ Serve(c)
    \/ \E r \in late : ServeLate(r)
    \/ Works

Spec == Init /\ [][Next]_vars

-----------------------------------------------------------------------------
(***************************************************************************)
(* Properties                                                              *)
(***************************************************************************)

Results == {"accepted", "preordered", "cancelled", "unsupported", "error"}
Answers == {"none", "done", "serverError", "unusable", "refused", "outOfStock", "duplicate",
            "unsupportedStatus"}

\* RBXCrate's order, the calls and the stray requests have the fields the code gives them, and
\* no call sends more requests than MAX_ATTEMPTS without another answer.
TypeOK ==
    /\ order \in [status : {"absent", "active", "completed", "cancelled"}, preorder : BOOLEAN,
                  by : Calls \cup {NoCall}, cancelledBy : Calls \cup {NoCall}]
    /\ call \in [Calls -> {Idle} \cup [pc : {"told"}, result : Results]
                 \cup [pc : {"send", "wait", "answered"}, op : {"create", "cancel"},
                       preorder : BOOLEAN, attempt : 1 .. MAX_ATTEMPTS, answer : Answers]]
    /\ late \subseteq [op : {"create", "cancel"}, preorder : BOOLEAN, by : Calls]

\* A caller that is told its order was accepted has made RBXCrate take it, by this very
\* call and under the kind it is told, although its requests may have been executed after
\* it gave them up: the message that speaks of a supplier preorder is right.
AcceptedIsOurs ==
    \A c \in Calls :
        /\ Told(c, "accepted") => order.by = c /\ ~order.preorder
        /\ Told(c, "preordered") => order.by = c /\ order.preorder

\* A caller that is told the order is cancelled has cancelled it by this very call.  Of two
\* callers at most one goes on to buy a replacement; and the order was not completed.
CancelledIsOurs ==
    \A c \in Calls :
        Told(c, "cancelled") => order.status = "cancelled" /\ order.cancelledBy = c
(***************************************************************************)
(* The inductive invariant.  A usable answer the caller has not looked at  *)
(* yet already is about its own request, and an order has a buyer.         *)
(***************************************************************************)
DoneIsOurs ==
    \A c \in Calls :
        call[c].pc = "answered" /\ call[c].answer = "done" =>
            IF call[c].op = "create"
            THEN order.by = c /\ order.preorder = call[c].preorder
            ELSE order.status = "cancelled" /\ order.cancelledBy = c

AbsentHasNoBuyer == order.status = "absent" => order.by = NoCall

IInv == TypeOK /\ AcceptedIsOurs /\ CancelledIsOurs /\ DoneIsOurs /\ AbsentHasNoBuyer

=============================================================================
