---------------------------- MODULE Console_proofs ----------------------------
(***************************************************************************)
(* What Console promises for any number of tasks, orders and amounts.      *)
(*                                                                         *)
(* The inductive invariant says of the orders when they have an attempt,   *)
(* of the chat whose amount it has collected, and of every task what it    *)
(* may rely on: between the check of edit_draft and its commit the order   *)
(* is a Draft that the task has locked.                                    *)
(***************************************************************************)
EXTENDS Console, TLAPS

Statuses == {"draft", "preorder", "purchasing", "completed", "cancelled", "force_closed"}

MayBe(amount, o) == amount \in Amounts[o] \cup {None}

OrdersOK ==
    /\ status \in [Orders -> Statuses]
    /\ working \in [Orders -> SUBSET Ids]
    /\ delivered \in [Orders -> SUBSET Ids]
    /\ DOMAIN robux = Orders
    /\ DOMAIN bought = Orders
    /\ \A o \in Orders : /\ working[o] # {} => status[o] \in {"preorder", "purchasing"}
                         /\ status[o] = "purchasing" => working[o] # {}
    /\ BoughtAsOrdered
    /\ AmountIsForOrder

DataOK ==
    /\ DOMAIN data = {"edit_order_id", "edit_requested_robux"}
    /\ data.edit_order_id \in Orders \cup {None}
    /\ state = "place_id" /\ data.edit_order_id # None =>
         MayBe(data.edit_requested_robux, data.edit_order_id)

JobOK(t, job) ==
    /\ job.pc = "answer" /\ job.action = "edit_draft" => job.order \in Orders
    /\ job.pc = "select" =>
         /\ job.order \in Orders
         /\ job.card \in Statuses
         /\ job.action \in OrderActions[job.card]
         /\ job.action = "edit_draft" => MayBe(job.amount, job.order)
    /\ job.pc = "commit" =>
         /\ job.order \in Orders
         /\ job.action = "edit_draft" => /\ MayBe(job.amount, job.order)
                                         /\ lock[job.order] = t
                                         /\ status[job.order] = "draft"

JobsOK ==
    /\ DOMAIN lock = Orders
    /\ DOMAIN task = Tasks
    /\ \A t \in Tasks : JobOK(t, task[t])

IInv == OrdersOK /\ DataOK /\ JobsOK

-----------------------------------------------------------------------------
LEMMA InitIInv == Init => IInv
<1> SUFFICES ASSUME Init PROVE IInv
    OBVIOUS
<1>1. OrdersOK
    BY DEF Init, Lifecycle!Init, OrdersOK, Statuses, BoughtAsOrdered, AmountIsForOrder
<1>2. DataOK
    BY DEF Init, DataOK, NoData
<1>3. JobsOK
    BY DEF Init, JobsOK, JobOK, Idle
<1> QED BY <1>1, <1>2, <1>3 DEF IInv

\* Tasks whose orders and locks are left alone keep what they rely on.
LEMMA OthersKept ==
    ASSUME JobsOK, NEW t \in Tasks, NEW job, JobOK(t, job),
           task' = [task EXCEPT ![t] = job], UNCHANGED <<orderVars, lock>>
    PROVE  JobsOK'
BY DEF JobsOK, JobOK, orderVars, MayBe

\* What the operator taps and types, and what handlers do to the chat.
LEMMA ChatKept ==
    ASSUME IInv, NEW t \in Tasks, Operator(t) \/ BeginDraftEdit(t) \/ BeginOther(t) \/ Back(t) \/ Leave(t) \/ Return(t)
    PROVE  IInv'
<1> USE DEF GoTo, End, Clear, NoData, IInv
<1>a. JobOK(t, Idle)
    BY DEF JobOK, Idle
<1>1. OrdersOK'
    <2>1. UNCHANGED orderVars
        BY DEF Operator, TapElsewhere, TypeAmount, TypePlace, TypeOther, TapOrder, BeginDraftEdit,
               BeginOther, Back, Leave, Return
    <2> QED BY <2>1 DEF OrdersOK, orderVars, BoughtAsOrdered, AmountIsForOrder
<1>2. CASE TapElsewhere(t)
    <2>1. UNCHANGED <<orderVars, lock, chatVars>>
        BY <1>2 DEF TapElsewhere
    <2>2. ASSUME NEW action \in {"leave", "other"}, GoTo(t, [pc |-> "answer", action |-> action])
          PROVE  JobsOK'
        <3>1. JobOK(t, [pc |-> "answer", action |-> action])
            BY DEF JobOK
        <3> QED BY <2>1, <2>2, <3>1, OthersKept
    <2>3. ASSUME GoTo(t, [pc |-> "answer", action |-> "back", from |-> state])
          PROVE  JobsOK'
        <3>1. JobOK(t, [pc |-> "answer", action |-> "back", from |-> state])
            BY DEF JobOK
        <3> QED BY <2>1, <2>3, <3>1, OthersKept
    <2>4. JobsOK'
        BY <1>2, <2>2, <2>3 DEF TapElsewhere
    <2> QED BY <1>1, <2>1, <2>4 DEF DataOK, chatVars
<1>3. CASE TypeAmount(t)
    <2>1. JobsOK'
        BY <1>3 DEF TypeAmount, JobsOK, JobOK, orderVars, MayBe
    <2>2. DataOK'
        BY <1>3 DEF TypeAmount, DataOK, MayBe
    <2> QED BY <1>1, <2>1, <2>2
<1>4. CASE TypePlace(t)
    <2>1. CASE data.edit_order_id = None
        <3>1. JobsOK'
            BY <1>4, <2>1 DEF TypePlace, JobsOK, JobOK, orderVars, MayBe
        <3>2. DataOK'
            BY <1>4, <2>1 DEF TypePlace, DataOK
        <3> QED BY <1>1, <3>1, <3>2
    <2>2. CASE data.edit_order_id # None
        <3> DEFINE job == [pc |-> "select", action |-> "edit_draft", order |-> data.edit_order_id,
                           card |-> "draft", amount |-> data.edit_requested_robux]
        <3>1. JobOK(t, job)
            BY <1>4, <2>2 DEF TypePlace, DataOK, JobOK, Statuses, OrderActions
        <3>2. task' = [task EXCEPT ![t] = job] /\ UNCHANGED <<orderVars, lock, chatVars>>
            BY <1>4, <2>2 DEF TypePlace
        <3>3. JobsOK'
            BY <3>1, <3>2, OthersKept
        <3> QED BY <1>1, <3>2, <3>3 DEF DataOK, chatVars
    <2> QED BY <2>1, <2>2
<1>5. CASE TypeOther(t)
    <2>1. JobOK(t, [pc |-> "other"])
        BY DEF JobOK
    <2>2. JobsOK'
        BY <1>5, <2>1, OthersKept DEF TypeOther
    <2> QED BY <1>1, <1>5, <2>2 DEF TypeOther, DataOK
<1>6. ASSUME NEW o \in Orders, NEW action \in OrderActions[status[o]], TapOrder(t, o, action)
      PROVE  IInv'
    <2> DEFINE job == [pc |-> IF action = "edit_draft" THEN "answer" ELSE "select",
                       action |-> action, order |-> o, card |-> status[o], amount |-> None]
    <2>1. JobOK(t, job)
        BY DEF JobOK, OrdersOK
    <2>2. task' = [task EXCEPT ![t] = job] /\ UNCHANGED <<orderVars, lock, chatVars>>
        BY <1>6 DEF TapOrder
    <2>3. JobsOK'
        BY <2>1, <2>2, OthersKept
    <2> QED BY <1>1, <2>2, <2>3 DEF DataOK, chatVars
<1>7. CASE BeginDraftEdit(t) \/ BeginOther(t) \/ Back(t) \/ Leave(t) \/ Return(t)
    <2>1. task' = [task EXCEPT ![t] = Idle] /\ UNCHANGED <<orderVars, lock>>
        BY <1>7 DEF BeginDraftEdit, BeginOther, Back, Leave, Return
    <2>2. JobsOK'
        BY <1>a, <2>1, OthersKept
    <2>3. CASE BeginDraftEdit(t)
        <3>1. task[t].order \in Orders
            BY <2>3 DEF BeginDraftEdit, Answered, JobsOK, JobOK
        <3>2. DataOK'
            BY <2>3, <3>1 DEF BeginDraftEdit, DataOK
        <3> QED BY <1>1, <2>2, <3>2
    <2>4. CASE BeginOther(t)
        BY <1>1, <2>2, <2>4 DEF BeginOther, DataOK
    <2>5. CASE Back(t)
        BY <1>1, <2>2, <2>5 DEF Back, DataOK
    <2>6. CASE Leave(t)
        BY <1>1, <2>2, <2>6 DEF Leave, DataOK
    <2>7. CASE Return(t)
        BY <1>1, <2>2, <2>7 DEF Return, DataOK, chatVars
    <2> QED BY <1>7, <2>3, <2>4, <2>5, <2>6, <2>7
<1> QED BY <1>2, <1>3, <1>4, <1>5, <1>6, <1>7 DEF Operator

LEMMA SelectKept ==
    ASSUME IInv, NEW t \in Tasks, SelectOrder(t)
    PROVE  IInv'
<1> USE DEF GoTo, IInv
<1> DEFINE o == task[t].order
<1>1. UNCHANGED <<orderVars, chatVars>> /\ o \in Orders /\ task[t].pc = "select"
    BY DEF SelectOrder, JobsOK, JobOK
<1>2. OrdersOK' /\ DataOK'
    BY <1>1 DEF OrdersOK, DataOK, orderVars, chatVars, BoughtAsOrdered, AmountIsForOrder
<1>3. CASE ~Accepts(task[t].action, o)
    <2>1. task' = [task EXCEPT ![t] = Refused(task[t])] /\ UNCHANGED lock
        BY <1>3 DEF SelectOrder
    <2>2. JobOK(t, Refused(task[t]))
        BY DEF JobOK, Refused
    <2> QED BY <1>1, <1>2, <2>1, <2>2, OthersKept
<1>4. CASE Accepts(task[t].action, o)
    <2>1. /\ task' = [task EXCEPT ![t] = Accepted(task[t])]
          /\ lock' = IF Keeps(task[t].action, o) THEN [lock EXCEPT ![o] = t] ELSE lock
          /\ task[t].action = "refresh" \/ lock[o] = NoTask
        BY <1>4 DEF SelectOrder
    <2>2. DOMAIN lock' = Orders /\ DOMAIN task' = Tasks
        BY <2>1 DEF JobsOK
    <2>3. JobOK(t, task[t])'
        <3>1. task'[t] = Accepted(task[t]) /\ status' = status
            BY <1>1, <2>1 DEF JobsOK, orderVars
        <3>2. CASE task[t].action = "edit_draft"
            <4>1. lock'[o] = t
                BY <1>1, <2>1, <3>2 DEF Keeps, JobsOK
            <4>2. status[o] = "draft"
                BY <1>4, <3>2 DEF Accepts, Accepting
            <4>3. MayBe(task[t].amount, o)
                BY <1>1, <3>2 DEF JobsOK, JobOK
            <4> QED BY <1>1, <3>1, <3>2, <4>1, <4>2, <4>3 DEF JobOK, Accepted, MayBe
        <3>3. CASE task[t].action # "edit_draft"
            BY <1>1, <3>1, <3>3 DEF JobOK, Accepted
        <3> QED BY <3>2, <3>3
    <2>4. ASSUME NEW u \in Tasks, u # t
          PROVE  JobOK(u, task[u])'
        <3>1. task'[u] = task[u] /\ status' = status /\ JobOK(u, task[u])
            BY <1>1, <2>1, <2>4 DEF JobsOK, orderVars
        <3>2. CASE task[u].pc = "commit" /\ task[u].action = "edit_draft"
            <4>1. lock[task[u].order] = u /\ task[u].order \in Orders
                BY <3>1, <3>2 DEF JobOK
            <4>2. lock'[task[u].order] = u
                BY <1>1, <2>1, <2>4, <4>1, TasksAssumption DEF JobsOK, Keeps
            <4> QED BY <3>1, <3>2, <4>1, <4>2 DEF JobOK, MayBe
        <3>3. CASE ~(task[u].pc = "commit" /\ task[u].action = "edit_draft")
            BY <3>1, <3>3 DEF JobOK, MayBe
        <3> QED BY <3>2, <3>3
    <2> QED BY <1>2, <2>2, <2>3, <2>4 DEF JobsOK
<1> QED BY <1>3, <1>4

-----------------------------------------------------------------------------
\* A change of order o that leaves the amounts alone: the others are as they were.
Changes(o) ==
    /\ status' \in [Orders -> Statuses]
    /\ working' \in [Orders -> SUBSET Ids]
    /\ delivered' \in [Orders -> SUBSET Ids]
    /\ DOMAIN bought' = Orders
    /\ robux' = robux
    /\ \A p \in Orders \ {o} : status'[p] = status[p] /\ working'[p] = working[p] /\ bought'[p] = bought[p]
    /\ working'[o] # {} => status'[o] \in {"preorder", "purchasing"} /\ bought'[o] = robux[o]
    /\ status'[o] = "purchasing" => working'[o] # {}

LEMMA ChangeKept ==
    ASSUME OrdersOK, NEW o \in Orders, Changes(o)
    PROVE  OrdersOK'
BY DEF OrdersOK, Changes, BoughtAsOrdered, AmountIsForOrder

USE DEF Lifecycle!SetStatus, Lifecycle!SetWorking

LEMMA Buys ==
    ASSUME OrdersOK, NEW o \in Orders, Lifecycle!Buy(o) \/ Lifecycle!Replace(o), Ask(o), robux' = robux
    PROVE  Changes(o)
BY DEF OrdersOK, Changes, Lifecycle!Buy, Lifecycle!Replace, Ask, Statuses

LEMMA Ends ==
    ASSUME OrdersOK, NEW o \in Orders, Forget(o), robux' = robux,
           \/ Lifecycle!GiveBack(o) \/ Lifecycle!Complete(o)
           \/ Lifecycle!Cancel(o) \/ Lifecycle!ForceClose(o)
    PROVE  Changes(o)
BY DEF OrdersOK, Changes, Lifecycle!GiveBack, Lifecycle!Complete, Lifecycle!Cancel,
       Lifecycle!ForceClose, Forget, Statuses

LEMMA Waits ==
    ASSUME OrdersOK, NEW o \in Orders, Lifecycle!Wait(o) \/ Lifecycle!Misplace(o),
           bought' = bought, robux' = robux
    PROVE  Changes(o)
<1>1. CASE Lifecycle!Wait(o)
    BY <1>1 DEF OrdersOK, Changes, BoughtAsOrdered, Lifecycle!Wait, Statuses
<1>2. CASE Lifecycle!Misplace(o)
    BY <1>2 DEF OrdersOK, Changes, BoughtAsOrdered, Lifecycle!Misplace, Statuses
<1> QED BY <1>1, <1>2

LEMMA ElsewhereKept ==
    ASSUME IInv, NEW o \in Orders, Elsewhere(o)
    PROVE  IInv'
<1>1. OrdersOK /\ DataOK /\ JobsOK
    BY DEF IInv
<1>2. Changes(o)
    BY <1>1, Buys, Ends, Waits DEF Elsewhere
<1>3. OrdersOK'
    BY <1>1, <1>2, ChangeKept
<1>4. UNCHANGED <<lock, chatVars, task>> /\ lock[o] = NoTask
    BY DEF Elsewhere
<1>5. ASSUME NEW u \in Tasks
      PROVE  JobOK(u, task[u])'
    <2>1. JobOK(u, task[u]) /\ task' = task /\ lock' = lock
        BY <1>1, <1>4 DEF JobsOK
    <2>2. CASE task[u].pc = "commit" /\ task[u].action = "edit_draft"
        <3>1. task[u].order \in Orders /\ lock[task[u].order] = u /\ status[task[u].order] = "draft"
            BY <2>1, <2>2 DEF JobOK
        <3>2. task[u].order # o
            BY <1>4, <3>1, TasksAssumption
        <3>3. status'[task[u].order] = "draft"
            BY <1>1, <1>2, <3>1, <3>2 DEF Changes, OrdersOK
        <3> QED BY <2>1, <2>2, <3>1, <3>3 DEF JobOK, MayBe
    <2>3. CASE ~(task[u].pc = "commit" /\ task[u].action = "edit_draft")
        BY <2>1, <2>3 DEF JobOK, MayBe
    <2> QED BY <2>2, <2>3
<1>6. JobsOK'
    BY <1>1, <1>4, <1>5 DEF JobsOK
<1> QED BY <1>1, <1>3, <1>4, <1>6 DEF IInv, DataOK, chatVars


\* The commit: what it did to the order, and the other tasks, whose orders it could not touch.
LEMMA CommitOrderKept ==
    ASSUME IInv, NEW t \in Tasks, CommitOrder(t)
    PROVE  IInv'
<1> DEFINE o == task[t].order
<1>1. OrdersOK /\ DataOK /\ JobsOK
    BY DEF IInv
<1>2. /\ o \in Orders
      /\ lock[o] \in {NoTask, t}
      /\ lock' = [p \in Orders |-> IF lock[p] = t THEN NoTask ELSE lock[p]]
      /\ UNCHANGED chatVars
      /\ task[t].action = "edit_draft" =>
           MayBe(task[t].amount, o) /\ lock[o] = t /\ status[o] = "draft"
    BY <1>1 DEF CommitOrder, JobsOK, JobOK, Release
<1>3. \/ Changes(o)
      \/ EditDraft(t, o)
      \/ UNCHANGED orderVars
    <2>1. CASE Purchase(t, o)
        BY <1>1, <1>2, <2>1, Buys, Waits DEF Purchase
    <2>2. CASE Requeue(t, o)
        BY <1>1, <1>2, <2>2, Buys, Ends DEF Requeue
    <2>3. CASE Refresh(t, o)
        BY <1>1, <1>2, <2>3, Ends DEF Refresh
    <2>4. CASE EndOrder(t, o)
        BY <1>1, <1>2, <2>4, Ends DEF EndOrder
    <2> QED BY <2>1, <2>2, <2>3, <2>4 DEF CommitOrder
<1>4. OrdersOK'
    <2>1. CASE Changes(o)
        BY <1>1, <1>2, <2>1, ChangeKept
    <2>2. CASE EditDraft(t, o)
        <3>1. working[o] = {}
            BY <1>1, <1>2, <2>2 DEF EditDraft, OrdersOK
        <3>2. /\ status' = status /\ working' = working /\ delivered' = delivered /\ bought' = bought
              /\ DOMAIN robux' = Orders
              /\ robux'[o] \in Amounts[o]
              /\ \A p \in Orders \ {o} : robux'[p] = robux[p]
            BY <1>1, <1>2, <2>2 DEF EditDraft, OrdersOK, AmountIsForOrder, MayBe
        <3> QED BY <1>1, <3>1, <3>2 DEF OrdersOK, BoughtAsOrdered, AmountIsForOrder
    <2>3. CASE UNCHANGED orderVars
        BY <1>1, <2>3 DEF OrdersOK, orderVars, BoughtAsOrdered, AmountIsForOrder
    <2> QED BY <1>3, <2>1, <2>2, <2>3
<1>5. \A p \in Orders \ {o} : status'[p] = status[p]
    BY <1>3 DEF Changes, EditDraft, orderVars
<1>6. DataOK'
    BY <1>1, <1>2 DEF DataOK, chatVars
<1>7. \E job : JobOK(t, job)' /\ task' = [task EXCEPT ![t] = job]
    <2>1. JobOK(t, [pc |-> "returned", action |-> "edit_draft"])' /\ JobOK(t, Idle)'
        BY DEF JobOK, Idle
    <2> QED BY <2>1 DEF CommitOrder, GoTo, End
<1>8. ASSUME NEW u \in Tasks, u # t
      PROVE  JobOK(u, task[u])'
    <2>1. JobOK(u, task[u]) /\ task'[u] = task[u]
        BY <1>1, <1>7, <1>8 DEF JobsOK
    <2>2. CASE task[u].pc = "commit" /\ task[u].action = "edit_draft"
        <3>1. task[u].order \in Orders /\ lock[task[u].order] = u /\ status[task[u].order] = "draft"
            BY <2>1, <2>2 DEF JobOK
        <3>2. task[u].order # o
            BY <1>2, <1>8, <3>1, TasksAssumption
        <3>3. status'[task[u].order] = "draft" /\ lock'[task[u].order] = u
            BY <1>2, <1>5, <1>8, <3>1, <3>2
        <3> QED BY <2>1, <2>2, <3>1, <3>3 DEF JobOK, MayBe
    <2>3. CASE ~(task[u].pc = "commit" /\ task[u].action = "edit_draft")
        BY <2>1, <2>3 DEF JobOK, MayBe
    <2> QED BY <2>2, <2>3
<1>9. JobsOK'
    BY <1>1, <1>2, <1>7, <1>8 DEF JobsOK
<1> QED BY <1>4, <1>6, <1>9 DEF IInv

LEMMA RestartKept ==
    ASSUME IInv, Restart
    PROVE  IInv'
<1>1. OrdersOK'
    BY DEF IInv, Restart, OrdersOK, orderVars, BoughtAsOrdered, AmountIsForOrder
<1>2. DataOK'
    BY DEF IInv, Restart, Clear, NoData, DataOK
<1>3. JobsOK'
    BY DEF Restart, JobsOK, JobOK, Idle
<1> QED BY <1>1, <1>2, <1>3 DEF IInv

LEMMA StepIInv == IInv /\ [Next]_vars => IInv'
<1> SUFFICES ASSUME IInv, [Next]_vars PROVE IInv'
    OBVIOUS
<1>1. CASE Next
    <2>1. ASSUME NEW t \in Tasks, Operator(t) \/ Handle(t)
          PROVE  IInv'
        BY <2>1, ChatKept, SelectKept, CommitOrderKept DEF Handle
    <2>2. ASSUME NEW o \in Orders, Elsewhere(o)
          PROVE  IInv'
        BY <2>2, ElsewhereKept
    <2> QED BY <1>1, <2>1, <2>2, RestartKept DEF Next
<1>2. CASE UNCHANGED vars
    BY <1>2 DEF vars, orderVars, chatVars, IInv, OrdersOK, DataOK, JobsOK, JobOK, MayBe,
                BoughtAsOrdered, AmountIsForOrder
<1> QED BY <1>1, <1>2

-----------------------------------------------------------------------------
\* The console and the services behind it keep the invariant above, whatever is tapped and typed,
\* answered late or interrupted by automation and restarts.
THEOREM ConsoleInvariant == Spec => []IInv
<1>1. Init => IInv
    BY InitIInv
<1>2. IInv /\ [Next]_vars => IInv'
    BY StepIInv
<1> QED BY <1>1, <1>2, PTL DEF Spec

\* What RBXCrate executes for an order is what the order says: edit_draft and the purchase check
\* the status under the same row lock.
THEOREM PurchasesAreAsOrdered == Spec => []BoughtAsOrdered
<1>1. IInv => BoughtAsOrdered
    BY DEF IInv, OrdersOK
<1> QED BY <1>1, ConsoleInvariant, PTL

\* The amount an edit writes was typed for that order: the data of the chat that names the order
\* and the data that holds the amount change together.
THEOREM AmountsAreForTheirOrders == Spec => []AmountIsForOrder
<1>1. IInv => AmountIsForOrder
    BY DEF IInv, OrdersOK
<1> QED BY <1>1, ConsoleInvariant, PTL

\* The actions _order_actions offers and those the services accept agree on every status.
LEMMA OffersAgree ==
    ASSUME NEW s \in Statuses, NEW action \in OrderActions[s]
    PROVE  s \in Accepting[action]
BY DEF Statuses, OrderActions, Accepting

\* Only a tap is refused whose order changed after its card was shown, or which would buy a PreOrder
\* that still has an attempt.
THEOREM OfferedActionsAreAccepted == Spec => OfferedIsAccepted
<1> DEFINE Refusal(t) == task[t].pc = "select" /\ task'[t].pc = "refused"
           Excuse(t) == \/ status[task[t].order] # task[t].card
                        \/ status[task[t].order] = "preorder" /\ working[task[t].order] # {}
<1>1. ASSUME IInv, [Next]_vars, NEW t \in Tasks, Refusal(t)
      PROVE  Excuse(t)
    <2>1. OrdersOK /\ JobsOK
        BY <1>1 DEF IInv
    <2>2. SelectOrder(t) /\ ~Accepts(task[t].action, task[t].order)
        <3>1. CASE Next
            <4>1. ASSUME NEW u \in Tasks, Operator(u) \/ Handle(u)
                  PROVE  SelectOrder(t) /\ ~Accepts(task[t].action, task[t].order)
                <5>1. u = t
                    BY <1>1, <2>1, <4>1 DEF Operator, TapElsewhere, TypeAmount, TypePlace, TypeOther,
                       TapOrder, Handle, BeginDraftEdit, BeginOther, Back, Leave, Return, SelectOrder,
                       CommitOrder, GoTo, End, JobsOK
                <5>2. ~Operator(t)
                    <6>1. task[t] # Idle
                        BY <1>1 DEF Idle
                    <6> QED BY <6>1 DEF Operator, TapElsewhere, TypeAmount, TypePlace, TypeOther, TapOrder
                <5>3. SelectOrder(t)
                    BY <1>1, <4>1, <5>1, <5>2 DEF Handle, BeginDraftEdit, BeginOther, Back, Leave,
                       Return, CommitOrder, Answered
                <5> QED BY <1>1, <2>1, <5>3 DEF SelectOrder, GoTo, Accepted, JobsOK
            <4>2. ASSUME NEW o \in Orders, Elsewhere(o)
                  PROVE  FALSE
                BY <1>1, <4>2 DEF Elsewhere
            <4>3. CASE Restart
                BY <1>1, <4>3 DEF Restart, Idle
            <4> QED BY <3>1, <4>1, <4>2, <4>3 DEF Next
        <3>2. CASE UNCHANGED vars
            BY <1>1, <3>2 DEF vars
        <3> QED BY <1>1, <3>1, <3>2
    <2>3. /\ task[t].order \in Orders
          /\ task[t].card \in Statuses
          /\ task[t].action \in OrderActions[task[t].card]
        BY <1>1, <2>1 DEF JobsOK, JobOK
    <2>4. SUFFICES ASSUME status[task[t].order] = task[t].card
                   PROVE  status[task[t].order] = "preorder" /\ working[task[t].order] # {}
        OBVIOUS
    <2>5. status[task[t].order] \in Accepting[task[t].action]
        BY <2>3, <2>4, OffersAgree
    <2>6. CASE task[t].action = "refresh" /\ working[task[t].order] = {}
        BY <2>1, <2>3, <2>4, <2>6 DEF OrdersOK, Statuses, OrderActions
    <2>7. CASE task[t].action \in {"confirm_payment", "start_purchase"} /\ working[task[t].order] # {}
        BY <2>1, <2>3, <2>4, <2>7 DEF OrdersOK, Statuses, OrderActions
    <2> QED BY <2>2, <2>5, <2>6, <2>7 DEF Accepts
<1>2. IInv /\ [Next]_vars => [\A t \in Tasks : Refusal(t) => Excuse(t)]_vars
    BY <1>1
<1>3. IInv /\ [Next]_vars =>
        [\A t \in Tasks :
           task[t].pc = "select" /\ task'[t].pc = "refused" =>
              LET o == task[t].order
              IN  status[o] # task[t].card \/ (status[o] = "preorder" /\ working[o] # {})]_vars
    BY <1>2
<1> QED BY <1>3, ConsoleInvariant, PTL DEF Spec, OfferedIsAccepted

=============================================================================
