----------------------------- MODULE Notifications -----------------------------
(***************************************************************************)
(* The notification queue (sensflow/application/notifications.py): rows    *)
(* that operations insert with what they notify of, the throttled balance  *)
(* alert of queue_once, the stock alerts of the automation loop            *)
(* (automation_loop.py, _queue_stock_notifications), and deliver_pending,  *)
(* which the loop runs at the end of its passes and the operator may run   *)
(* beside it ("run synchronization now").                                  *)
(*                                                                         *)
(* A notification is known by its place in order of created_at.  Telegram  *)
(* may lose a message, or deliver it and lose the answer; a transaction    *)
(* may fail to commit, and the process may be restarted, at any step.      *)
(***************************************************************************)
EXTENDS Naturals, Sequences, FiniteSetsExt

CONSTANTS
    MaxRows,      \* bound on the notifications
    MaxFailures,  \* bound on failed commits
    MaxRestarts,  \* bound on restarts
    MaxVolume,    \* bound on the stock of the one rate that is watched
    BatchLimit    \* how many one delivery pass reads

ASSUME BoundsAssumption == {MaxRows, MaxFailures, MaxRestarts, MaxVolume} \subseteq Nat
ASSUME LimitAssumption == BatchLimit \in Nat \ {0}

VARIABLES
    rows,       \* the notifications: delivery_status, kind, whether in its cooldown
    received,   \* how often the operator received each
    pass,       \* what the automation loop and the operator's pass are doing
    announced,  \* _stock_notification_state: the alert last queued, 0 for none
    failures,   \* failed commits so far
    restarts    \* restarts so far

vars == <<rows, received, pass, announced, failures, restarts>>

Deliverers == {"automation", "operator"}
Idle == [pc |-> "idle"]
None == 0

\* What the stock of a rate must have grown by to be announced again within the cooldown.
HasGrown(old, new) == 10 * new >= 12 * old

Row(kind, volume) == [status |-> "pending", kind |-> kind, recent |-> kind # "notice",
                      volume |-> volume, epoch |-> restarts]
Pending == {n \in DOMAIN rows : rows[n].status = "pending"}

Init ==
    /\ rows = << >>
    /\ received = << >>
    /\ pass = [d \in Deliverers |-> Idle]
    /\ announced = None
    /\ failures = 0
    /\ restarts = 0

CanGrow == Len(rows) + (IF pass["automation"].pc = "alert" THEN 1 ELSE 0) < MaxRows
Goto(d, job) == pass' = [pass EXCEPT ![d] = job]

Insert(row) ==
    /\ rows' = Append(rows, row)
    /\ received' = Append(received, 0)

\* queue, and every operation that inserts a notification in its own transaction.
Queue ==
    /\ CanGrow
    /\ Insert(Row("notice", 0))
    /\ UNCHANGED <<pass, announced, failures, restarts>>

-----------------------------------------------------------------------------
(***************************************************************************)
(* Defective variants, one per property; no behaviour uses them.           *)
(***************************************************************************)
\* Only alerts still to be delivered count.
AlertCheckPending ==
    /\ pass["automation"] = Idle /\ CanGrow
    /\ ~ \E n \in Pending : rows[n].kind = "balance" /\ rows[n].recent
    /\ Goto("automation", [pc |-> "alert"])
    /\ UNCHANGED <<rows, received, announced, failures, restarts>>

\* Any growth is announced within the cooldown.
WorthAnnouncingGrowth(volume) ==
    announced # None /\ rows[announced].recent => volume >= rows[announced].volume

\* The row is not locked while its message is sent.
LockedRegardless(n) == FALSE

\* A message that fails ends the pass with an exception.
SendFailsAndStops(d) ==
    /\ pass[d].pc = "send"
    /\ Goto(d, Idle)
    /\ \/ UNCHANGED received
       \/ received' = [received EXCEPT ![pass[d].row] = @ + 1]
    /\ UNCHANGED <<rows, announced, failures, restarts>>

-----------------------------------------------------------------------------
(***************************************************************************)
(* queue_once, which only the automation loop calls                        *)
(***************************************************************************)
\* No balance alert was inserted within the cooldown.
AlertCheck ==
    /\ pass["automation"] = Idle /\ CanGrow
    /\ ~ \E n \in DOMAIN rows : rows[n].kind = "balance" /\ rows[n].recent
    /\ Goto("automation", [pc |-> "alert"])
    /\ UNCHANGED <<rows, received, announced, failures, restarts>>

AlertCommit ==
    /\ pass["automation"].pc = "alert"
    /\ Insert(Row("balance", 0))
    /\ Goto("automation", Idle)
    /\ UNCHANGED <<announced, failures, restarts>>

-----------------------------------------------------------------------------
(***************************************************************************)
(* _queue_stock_notifications                                              *)
(***************************************************************************)
\* Nothing was announced since the process started, or long ago, or much less.
WorthAnnouncing(volume) ==
    announced # None /\ rows[announced].recent =>
        HasGrown(rows[announced].volume, volume)

StockAlert(volume) ==
    /\ pass["automation"] = Idle /\ CanGrow
    /\ WorthAnnouncing(volume)
    /\ announced' = Len(rows) + 1
    /\ Insert(Row("stock", volume))
    /\ UNCHANGED <<pass, failures, restarts>>

\* The cooldown of an alert passes: first that of older ones.
Age(n) ==
    /\ rows[n].recent
    /\ \A m \in 1 .. n - 1 : rows[m].kind = rows[n].kind => ~rows[m].recent
    /\ rows' = [rows EXCEPT ![n].recent = FALSE]
    /\ UNCHANGED <<received, pass, announced, failures, restarts>>

-----------------------------------------------------------------------------
(***************************************************************************)
(* deliver_pending                                                         *)
(***************************************************************************)
\* The newest pending notifications are read.
Newest(set) == {n \in set : Cardinality({m \in set : m > n}) < BatchLimit}

DeliverBegin(d) ==
    /\ pass[d] = Idle
    /\ Pending # {}
    /\ Goto(d, [pc |-> "deliver", batch |-> Newest(Pending)])
    /\ UNCHANGED <<rows, received, announced, failures, restarts>>

\* A row is locked by the pass that sends its message.
Locked(n) == \E d \in Deliverers : pass[d].pc \in {"send", "commit"} /\ pass[d].row = n

\* The next of them is locked in a transaction of its own, and sent if still pending.
DeliverNext(d) ==
    /\ pass[d].pc = "deliver" /\ pass[d].batch # {}
    /\ LET n == Max(pass[d].batch)
           rest == pass[d].batch \ {n}
       IN  /\ ~Locked(n)
           /\ Goto(d, IF n \in Pending
                      THEN [pc |-> "send", batch |-> rest, row |-> n, status |-> "pending"]
                      ELSE [pc |-> "deliver", batch |-> rest])
    /\ UNCHANGED <<rows, received, announced, failures, restarts>>

DeliverEnd(d) ==
    /\ pass[d].pc = "deliver" /\ pass[d].batch = {}
    /\ Goto(d, Idle)
    /\ UNCHANGED <<rows, received, announced, failures, restarts>>

\* Telegram confirms the message.
SendSucceeds(d) ==
    /\ pass[d].pc = "send"
    /\ Goto(d, [pass[d] EXCEPT !.pc = "commit", !.status = "delivered"])
    /\ received' = [received EXCEPT ![pass[d].row] = @ + 1]
    /\ UNCHANGED <<rows, announced, failures, restarts>>

\* Sending raises; the operator may have received the message nevertheless.
SendFails(d) ==
    /\ pass[d].pc = "send"
    /\ Goto(d, [pass[d] EXCEPT !.pc = "commit", !.status = "failed"])
    /\ \/ UNCHANGED received
       \/ received' = [received EXCEPT ![pass[d].row] = @ + 1]
    /\ UNCHANGED <<rows, announced, failures, restarts>>

DeliverCommit(d) ==
    /\ pass[d].pc = "commit"
    /\ rows' = [rows EXCEPT ![pass[d].row].status = pass[d].status]
    /\ Goto(d, [pc |-> "deliver", batch |-> pass[d].batch])
    /\ UNCHANGED <<received, announced, failures, restarts>>

Deliver(d) ==
    \/ DeliverBegin(d) \/ DeliverNext(d) \/ DeliverEnd(d)
    \/ SendSucceeds(d) \/ SendFails(d) \/ DeliverCommit(d)

-----------------------------------------------------------------------------
\* A transaction does not commit: the exception ends the pass.
CommitFails(d) ==
    /\ pass[d].pc \in {"alert", "commit"}
    /\ failures < MaxFailures
    /\ failures' = failures + 1
    /\ Goto(d, Idle)
    /\ UNCHANGED <<rows, received, announced, restarts>>

\* The process ends and starts again: what it kept in memory is lost.
Restart ==
    /\ restarts < MaxRestarts
    /\ restarts' = restarts + 1
    /\ pass' = [d \in Deliverers |-> Idle]
    /\ announced' = None
    /\ UNCHANGED <<rows, received, failures>>

Next ==
    \/ Queue \/ AlertCheck \/ AlertCommit \/ Restart
    \/ \E volume \in 1 .. MaxVolume : StockAlert(volume)
    \/ \E n \in DOMAIN rows : Age(n)
    \/ \E d \in Deliverers : Deliver(d) \/ CommitFails(d)

\* The loop runs pass after pass, and a message is answered or its sending times out.
Fairness == WF_vars(AlertCommit) /\ \A d \in Deliverers : WF_vars(Deliver(d))
Spec == Init /\ [][Next]_vars /\ Fairness

-----------------------------------------------------------------------------
\* The operator receives a notification again only after a failure between the message and
\* the commit, of one pass or of the process: passes that run at once, or one after the
\* other over a notification that failed, repeat none.  (A pair of a notification and a number
\* stands for each of its repeats.)
RepeatsAreInterruptions ==
    Cardinality(UNION {{n} \X (1 .. received[n] - 1) : n \in DOMAIN rows})
        <= failures + Cardinality(Deliverers) * restarts

\* However the loop is interrupted, no balance alert is inserted within the cooldown of
\* another.
AlertsAreSpaced ==
    \A n, m \in DOMAIN rows :
        /\ rows[n].kind = "balance" /\ rows[n].recent
        /\ rows[m].kind = "balance" /\ rows[m].recent
        => n = m

\* Within its cooldown a stock alert is followed by another one only if the stock has grown
\* by the factor since, or the process was restarted.
StockAlertsAreSpaced ==
    \A n, m \in DOMAIN rows :
        /\ n < m /\ rows[n].epoch = rows[m].epoch
        /\ rows[n].kind = "stock" /\ rows[n].recent
        /\ rows[m].kind = "stock" /\ rows[m].recent
        => HasGrown(rows[n].volume, rows[m].volume)

\* Every notification is eventually decided, though newer ones are read first and only so
\* many at a time, and though messages fail.
EachIsDecided ==
    \A n \in 1 .. MaxRows : n \in Pending ~> n \notin Pending

=============================================================================
