--------------------------- MODULE OrderIntake_proofs ---------------------------
(***************************************************************************)
(* What OrderIntake promises for any number of requests, customers, orders *)
(* and places.                                                             *)
(*                                                                         *)
(* A task that is going to write a customers row has locked it, so that a  *)
(* place it has read is still there (BaseInv).  An identity has one row,   *)
(* by the unique index, and the name that goes with it; the row a task has *)
(* found has the name it was asked for, and no order of it is copied, or   *)
(* begins to be bought, until the task ends (IntakeInv).                   *)
(***************************************************************************)
EXTENDS OrderIntake, TLAPS

PlaceIds == Places \cup {Place}
Uids == {r.uid : r \in Requests} \cup {NoUid}
Customer == [name : Names, uid : Uids, place : PlaceIds, past : Seq(PlaceIds)]

RowsOK ==
    /\ customers \in Seq(Customer)
    /\ held \in Seq(Seq(PlaceIds))
    /\ Len(held) = Len(customers)
    /\ DOMAIN rowLock = DOMAIN customers
    /\ PlaceHistoryIsComplete

Locked(c, t) == c \in DOMAIN customers /\ rowLock[c] = t

JobOK(t) ==
    /\ task[t].pc \in {"check", "commit", "again"} => task[t].request \in Requests
    /\ task[t].pc \in {"check", "commit"} => task[t].row = NoRow \/ Locked(task[t].row, t)
    /\ task[t].pc = "move" => Locked(task[t].row, t) /\ task[t].seen = customers[task[t].row].place

JobsOK == DOMAIN task = Tasks /\ \A t \in Tasks : JobOK(t)

BaseInv == RowsOK /\ JobsOK

LEMMA InitBase == Init => BaseInv
<1> SUFFICES ASSUME Init PROVE BaseInv
  OBVIOUS
<1>1. RowsOK
  BY DEF Init, RowsOK, PlaceHistoryIsComplete
<1>2. JobsOK
  BY DEF Init, JobsOK, JobOK, Idle
<1>3. QED
  BY <1>1, <1>2 DEF BaseInv

\* What a step of one task is, to the others.
Only(t) == DOMAIN task' = Tasks /\ \A u \in Tasks \ {t} : task'[u] = task[u]

LEMMA OnlyOne ==
  ASSUME JobsOK, NEW t \in Tasks, NEW j, Goto(t, j)
  PROVE  Only(t) /\ task'[t] = j
BY DEF Goto, JobsOK, Only

\* The locks of other tasks are theirs as before, on rows they had.
LocksKept(t) ==
    /\ DOMAIN rowLock \subseteq DOMAIN rowLock'
    /\ \A c \in DOMAIN rowLock : rowLock[c] \in Tasks \ {t} => rowLock'[c] = rowLock[c]

\* A task that writes no place another one has locked leaves the others as they are.
LEMMA OthersKept ==
  ASSUME JobsOK, NEW t \in Tasks, Only(t), JobOK(t)', LocksKept(t),
         DOMAIN rowLock = DOMAIN customers, DOMAIN customers \subseteq DOMAIN customers',
         \A c \in DOMAIN customers : rowLock[c] \in Tasks \ {t} => customers'[c].place = customers[c].place
  PROVE  JobsOK'
<1> SUFFICES ASSUME NEW u \in Tasks \ {t} PROVE JobOK(u)'
  BY DEF JobsOK, Only
<1>1. task'[u] = task[u] /\ JobOK(u)
  BY DEF JobsOK, Only
<1>2. ASSUME NEW c, Locked(c, u) PROVE Locked(c, u)' /\ customers'[c].place = customers[c].place
  BY <1>2 DEF Locked, LocksKept
<1>3. QED
  BY <1>1, <1>2 DEF JobOK, NoRow

LEMMA ReleaseKeeps ==
  ASSUME RowsOK, NEW t \in Tasks, Release(t)
  PROVE  LocksKept(t) /\ DOMAIN rowLock' = DOMAIN rowLock
BY DEF Release, LocksKept

LEMMA TakeKeeps ==
  ASSUME RowsOK, NEW t \in Tasks, NEW c \in DOMAIN customers, rowLock[c] = NoTask,
         rowLock' = [rowLock EXCEPT ![c] = t]
  PROVE  LocksKept(t) /\ DOMAIN rowLock' = DOMAIN rowLock /\ rowLock'[c] = t
BY TasksAssumption DEF RowsOK, LocksKept

LEMMA TakeAllKeeps ==
  ASSUME RowsOK, NEW t \in Tasks, NEW C \in SUBSET DOMAIN customers,
         \A c \in C : rowLock[c] = NoTask,
         rowLock' = [c \in DOMAIN rowLock |-> IF c \in C THEN t ELSE rowLock[c]]
  PROVE  LocksKept(t) /\ DOMAIN rowLock' = DOMAIN rowLock /\ \A c \in C : rowLock'[c] = t
BY TasksAssumption DEF RowsOK, LocksKept

LEMMA RowsKept ==
  ASSUME RowsOK, UNCHANGED <<customers, held>>, DOMAIN rowLock' = DOMAIN rowLock
  PROVE  RowsOK'
BY DEF RowsOK, PlaceHistoryIsComplete

\* Tasks that write no customers row.
LEMMA ReadersBase ==
  ASSUME BaseInv, NEW t \in Tasks, Only(t), JobOK(t)', UNCHANGED <<customers, held>>,
         LocksKept(t), DOMAIN rowLock' = DOMAIN rowLock
  PROVE  BaseInv'
<1>1. RowsOK'
  BY RowsKept DEF BaseInv
<1>2. JobsOK'
  BY OthersKept DEF BaseInv, RowsOK
<1>3. QED
  BY <1>1, <1>2 DEF BaseInv

LEMMA SameLocks ==
  ASSUME NEW t \in Tasks, rowLock' = rowLock
  PROVE  LocksKept(t) /\ DOMAIN rowLock' = DOMAIN rowLock
BY DEF LocksKept

LEMMA FindBase ==
  ASSUME BaseInv, NEW t \in Tasks, NEW r \in Requests, NEW tries, FindCustomer(t, r, tries)
  PROVE  BaseInv'
<1>1. CASE Goto(t, [pc |-> "check", request |-> r, row |-> NoRow, tries |-> tries]) /\ UNCHANGED rowLock
  <2>1. Only(t) /\ task'[t] = [pc |-> "check", request |-> r, row |-> NoRow, tries |-> tries]
    BY <1>1, OnlyOne DEF BaseInv
  <2>2. JobOK(t)'
    BY <2>1 DEF JobOK
  <2>3. QED
    BY <1>1, <2>1, <2>2, SameLocks, ReadersBase DEF FindCustomer
<1>2. ASSUME NEW c \in Matching(r), \A d \in Matching(r) : rowLock[d] = NoTask,
             rowLock' = [d \in DOMAIN rowLock |-> IF d \in Matching(r) THEN t ELSE rowLock[d]],
             Goto(t, [pc |-> "check", request |-> r, row |-> c, tries |-> tries])
      PROVE  BaseInv'
  <2>1. Only(t) /\ task'[t] = [pc |-> "check", request |-> r, row |-> c, tries |-> tries]
    BY <1>2, OnlyOne DEF BaseInv
  <2>2. Matching(r) \in SUBSET DOMAIN customers
    BY DEF Matching
  <2>3. LocksKept(t) /\ DOMAIN rowLock' = DOMAIN rowLock /\ rowLock'[c] = t
    BY <1>2, <2>2, TakeAllKeeps DEF BaseInv
  <2>4. UNCHANGED <<customers, held>>
    BY DEF FindCustomer
  <2>5. JobOK(t)'
    BY <2>1, <2>2, <2>3, <2>4 DEF JobOK, Locked
  <2>6. QED
    BY <2>1, <2>3, <2>4, <2>5, ReadersBase
<1>3. QED
  BY <1>1, <1>2 DEF FindCustomer

LEMMA RefuseBase ==
  ASSUME BaseInv, NEW t \in Tasks, Release(t), UNCHANGED <<customers, held>>,
         \/ Goto(t, Idle)
         \/ task[t].pc \in {"check", "commit"} /\ Goto(t, [pc |-> "again", request |-> task[t].request])
  PROVE  BaseInv'
<1>1. LocksKept(t) /\ DOMAIN rowLock' = DOMAIN rowLock
  BY ReleaseKeeps DEF BaseInv
<1>2. CASE Goto(t, Idle)
  <2>1. Only(t) /\ task'[t] = Idle
    BY <1>2, OnlyOne DEF BaseInv
  <2>2. JobOK(t)'
    BY <2>1 DEF JobOK, Idle
  <2>3. QED
    BY <1>1, <2>1, <2>2, ReadersBase
<1>3. CASE task[t].pc \in {"check", "commit"} /\ Goto(t, [pc |-> "again", request |-> task[t].request])
  <2>1. Only(t) /\ task'[t] = [pc |-> "again", request |-> task[t].request]
    BY <1>3, OnlyOne DEF BaseInv
  <2>2. JobOK(t)'
    BY <1>3, <2>1 DEF JobOK, BaseInv, JobsOK
  <2>3. QED
    BY <1>1, <2>1, <2>2, ReadersBase
<1>4. QED
  BY <1>2, <1>3

LEMMA CheckedBase ==
  ASSUME BaseInv, NEW t \in Tasks, CreateChecked(t)
  PROVE  BaseInv'
<1> DEFINE j == [pc |-> "commit", request |-> task[t].request, row |-> task[t].row,
                 tries |-> task[t].tries, remembered |-> task[t].request.name \in cache]
<1>1. task[t].pc = "check" /\ Goto(t, j) /\ UNCHANGED <<customers, held, rowLock>>
  BY DEF CreateChecked
<1>2. Only(t) /\ task'[t] = j
  BY <1>1, OnlyOne DEF BaseInv
<1>3. JobOK(t)'
  BY <1>1, <1>2 DEF JobOK, BaseInv, JobsOK, Locked
<1>4. QED
  BY <1>1, <1>2, <1>3, SameLocks, ReadersBase

\* The Place ID of a row is replaced by the one it was known to have, and goes to the history.
LEMMA MovedRows ==
  ASSUME RowsOK, NEW c \in DOMAIN customers, NEW place \in PlaceIds, NEW new \in Customer,
         new.place = place,
         new.past = IF place = customers[c].place THEN customers[c].past
                    ELSE Append(customers[c].past, customers[c].place),
         customers' = [customers EXCEPT ![c] = new],
         Hold(c, place), DOMAIN rowLock' = DOMAIN customers'
  PROVE  RowsOK'
<1>1. customers[c] \in Customer /\ held[c] \in Seq(PlaceIds) /\ c \in DOMAIN held
  BY DEF RowsOK
<1>2. customers' \in Seq(Customer) /\ Len(customers') = Len(customers)
  BY DEF RowsOK
<1>3. held' = [held EXCEPT ![c] = IF place = customers[c].place THEN held[c] ELSE Append(held[c], place)]
  BY <1>1 DEF Hold
<1>4. held' \in Seq(Seq(PlaceIds)) /\ Len(held') = Len(held)
  <2>1. Append(held[c], place) \in Seq(PlaceIds)
    BY <1>1
  <2>2. QED
    BY <1>1, <1>3, <2>1 DEF RowsOK
<1>5. held[c] = Append(customers[c].past, customers[c].place)
  BY DEF RowsOK, PlaceHistoryIsComplete
<1>6. held'[c] = Append(new.past, new.place)
  <2>1. held'[c] = IF place = customers[c].place THEN held[c] ELSE Append(held[c], place)
    BY <1>1, <1>3
  <2>2. CASE place = customers[c].place
    BY <2>1, <2>2, <1>5
  <2>3. CASE place # customers[c].place
    <3>1. new.past = held[c]
      BY <2>3, <1>5
    <3>2. QED
      BY <2>1, <2>3, <3>1
  <2>4. QED
    BY <2>2, <2>3
<1>7. \A d \in DOMAIN customers' : held'[d] = Append(customers'[d].past, customers'[d].place)
  <2>1. DOMAIN customers' = DOMAIN customers /\ DOMAIN held = DOMAIN customers /\ customers'[c] = new
    BY DEF RowsOK
  <2>2. ASSUME NEW d \in DOMAIN customers, d # c
        PROVE  held'[d] = held[d] /\ customers'[d] = customers[d]
    BY <1>3, <2>1, <2>2
  <2>3. \A d \in DOMAIN customers : held[d] = Append(customers[d].past, customers[d].place)
    BY DEF RowsOK, PlaceHistoryIsComplete
  <2>4. QED
    BY <1>6, <2>1, <2>2, <2>3
<1>8. QED
  BY <1>2, <1>4, <1>7 DEF RowsOK, PlaceHistoryIsComplete

LEMMA MovedType ==
  ASSUME NEW c \in Customer, NEW place \in PlaceIds
  PROVE  /\ Moved(c, c.place, place) \in Customer
         /\ Moved(c, c.place, place).place = place
         /\ Moved(c, c.place, place).past = IF place = c.place THEN c.past ELSE Append(c.past, c.place)
<1>1. Append(c.past, c.place) \in Seq(PlaceIds)
  BY DEF Customer
<1>2. QED
  BY <1>1 DEF Moved, Customer

LEMMA CommitBase ==
  ASSUME BaseInv, NEW t \in Tasks, CreateCommit(t)
  PROVE  BaseInv'
<1> DEFINE r == task[t].request
           row == task[t].row
<1>1. /\ task[t].pc = "commit" /\ r \in Requests /\ r.name \in Names /\ r.uid \in Uids
      /\ row = NoRow \/ Locked(row, t)
  BY RequestsAssumption DEF CreateCommit, BaseInv, JobsOK, JobOK, Uids
<1>2. Goto(t, Idle)
  BY DEF CreateCommit
<1>3. Only(t) /\ task'[t] = Idle
  BY <1>2, OnlyOne DEF BaseInv
<1>4. JobOK(t)'
  BY <1>3 DEF JobOK, Idle
<1>5. rowLock' = [c \in DOMAIN customers' |->
                     IF c \in DOMAIN rowLock /\ rowLock[c] # t THEN rowLock[c] ELSE NoTask]
  BY DEF CreateCommit
<1>6. DOMAIN rowLock = DOMAIN customers
  BY DEF BaseInv, RowsOK
<1>7. CASE row = NoRow
  <2> DEFINE new == [name |-> r.name, uid |-> r.uid, place |-> Place, past |-> << >>]
  <2>1. customers' = Append(customers, new) /\ held' = Append(held, <<Place>>)
    BY <1>7 DEF CreateCommit
  <2>2. new \in Customer /\ <<Place>> \in Seq(PlaceIds)
    BY <1>1 DEF Customer, PlaceIds
  <2>3. customers' \in Seq(Customer) /\ held' \in Seq(Seq(PlaceIds)) /\ Len(held') = Len(customers')
    BY <2>1, <2>2 DEF BaseInv, RowsOK
  <2>4. \A c \in DOMAIN customers : customers'[c] = customers[c] /\ held'[c] = held[c]
    BY <2>1 DEF BaseInv, RowsOK
  <2>5. /\ DOMAIN customers' = DOMAIN customers \cup {Len(customers) + 1}
        /\ customers'[Len(customers) + 1] = new /\ held'[Len(customers) + 1] = <<Place>>
    BY <2>1 DEF BaseInv, RowsOK
  <2>6. \A c \in DOMAIN customers' : held'[c] = Append(customers'[c].past, customers'[c].place)
    <3>1. Append(new.past, new.place) = <<Place>>
      OBVIOUS
    <3>2. QED
      BY <2>4, <2>5, <3>1 DEF BaseInv, RowsOK, PlaceHistoryIsComplete
  <2>7. RowsOK'
    BY <1>5, <2>3, <2>6 DEF RowsOK, PlaceHistoryIsComplete
  <2>8. LocksKept(t)
    BY <1>5, <1>6, <2>5 DEF LocksKept
  <2>9. JobsOK'
    BY <1>3, <1>4, <1>6, <2>4, <2>5, <2>8, OthersKept DEF BaseInv
  <2>10. QED
    BY <2>7, <2>9 DEF BaseInv
<1>8. CASE row # NoRow
  <2>1. row \in DOMAIN customers /\ rowLock[row] = t /\ customers[row] \in Customer
    BY <1>1, <1>8 DEF Locked, BaseInv, RowsOK
  <2> DEFINE new == Kept(r, customers[row])
             moved == Moved(customers[row], customers[row].place, Place)
  <2>2. customers' = [customers EXCEPT ![row] = new] /\ Hold(row, Place)
    BY <1>8, <2>1 DEF CreateCommit
  <2>3. /\ moved \in Customer /\ moved.place = Place
        /\ moved.past = IF Place = customers[row].place THEN customers[row].past
                        ELSE Append(customers[row].past, customers[row].place)
    BY <2>1, MovedType DEF PlaceIds
  <2>4. new \in Customer /\ new.place = moved.place /\ new.past = moved.past
    BY <1>1, <2>3 DEF Kept, Customer
  <2>5. RowsOK'
    BY <1>5, <2>1, <2>2, <2>3, <2>4, MovedRows DEF BaseInv, PlaceIds
  <2>6. LocksKept(t) /\ DOMAIN customers' = DOMAIN customers
    BY <1>5, <1>6, <2>2 DEF LocksKept
  <2>7. \A c \in DOMAIN customers : rowLock[c] \in Tasks \ {t} => customers'[c].place = customers[c].place
    BY <2>1, <2>2
  <2>8. JobsOK'
    BY <1>3, <1>4, <1>6, <2>6, <2>7, OthersKept DEF BaseInv
  <2>9. QED
    BY <2>5, <2>8 DEF BaseInv
<1>9. QED
  BY <1>7, <1>8

LEMMA MoveBase ==
  ASSUME BaseInv, NEW t \in Tasks, MoveCommit(t)
  PROVE  BaseInv'
<1> DEFINE c == task[t].row
<1>1. /\ task[t].pc = "move" /\ c \in DOMAIN customers /\ rowLock[c] = t
      /\ task[t].seen = customers[c].place /\ customers[c] \in Customer
      /\ DOMAIN rowLock = DOMAIN customers
  BY DEF MoveCommit, BaseInv, JobsOK, JobOK, Locked, RowsOK
<1>2. PICK place \in Places, uid \in Uids :
        /\ customers' = [customers EXCEPT ![c] =
                           [Moved(customers[c], customers[c].place, place) EXCEPT !.uid = uid]]
        /\ Hold(c, place)
  <2>1. PICK place \in Places, r \in Requests :
          /\ \E uid \in {customers[c].uid, r.uid} :
               customers' = [customers EXCEPT ![c] = [Moved(@, task[t].seen, place) EXCEPT !.uid = uid]]
          /\ Hold(c, place)
    BY DEF MoveCommit
  <2>2. {customers[c].uid, r.uid} \subseteq Uids
    BY <1>1 DEF Customer, Uids
  <2>3. QED
    BY <1>1, <2>1, <2>2
<1>3. Goto(t, Idle) /\ Release(t)
  BY DEF MoveCommit
<1>4. Only(t) /\ task'[t] = Idle
  BY <1>3, OnlyOne DEF BaseInv
<1>5. JobOK(t)'
  BY <1>4 DEF JobOK, Idle
<1>6. LocksKept(t) /\ DOMAIN rowLock' = DOMAIN rowLock
  BY <1>3, ReleaseKeeps DEF BaseInv
<1> DEFINE moved == Moved(customers[c], customers[c].place, place)
           new == [moved EXCEPT !.uid = uid]
<1>7. /\ moved \in Customer /\ moved.place = place
      /\ moved.past = IF place = customers[c].place THEN customers[c].past
                      ELSE Append(customers[c].past, customers[c].place)
  BY <1>1, MovedType DEF PlaceIds
<1>8. new \in Customer /\ new.place = moved.place /\ new.past = moved.past
  BY <1>7 DEF Customer
<1>9. RowsOK'
  BY <1>1, <1>2, <1>6, <1>7, <1>8, MovedRows DEF BaseInv, PlaceIds
<1>10. \A d \in DOMAIN customers : rowLock[d] \in Tasks \ {t} => customers'[d].place = customers[d].place
  BY <1>1, <1>2
<1>11. JobsOK'
  BY <1>1, <1>2, <1>4, <1>5, <1>6, <1>10, OthersKept DEF BaseInv
<1>12. QED
  BY <1>9, <1>11 DEF BaseInv

LEMMA LockingBase ==
  ASSUME BaseInv, NEW t \in Tasks, NEW c \in DOMAIN customers, Only(t),
         task'[t].pc \in {"repeat", "move"},
         task'[t].pc = "move" => task'[t].row = c /\ task'[t].seen = customers[c].place,
         rowLock[c] = NoTask, rowLock' = [rowLock EXCEPT ![c] = t],
         UNCHANGED <<customers, held>>
  PROVE  BaseInv'
<1>1. LocksKept(t) /\ DOMAIN rowLock' = DOMAIN rowLock /\ rowLock'[c] = t
  BY TakeKeeps DEF BaseInv
<1>2. JobOK(t)'
  BY <1>1 DEF JobOK, Locked
<1>3. QED
  BY <1>1, <1>2, ReadersBase

\* The life of an order touches no customer.
Life(o) ==
    \/ StartPurchase(o) \/ SendToPreorder(o) \/ Complete(o) \/ ReturnToPreorder(o)
    \/ Cancel(o) \/ ForceClose(o) \/ Age(o)

LEMMA LifeFrame ==
  ASSUME NEW o, Life(o)
  PROVE  UNCHANGED <<customers, held, cache, rowLock, cacheLock, task>>
BY DEF Life, StartPurchase, SendToPreorder, Complete, ReturnToPreorder, Cancel, ForceClose, Age, Become

Order == [customer : Nat, status : Statuses, recent : BOOLEAN, repeated : BOOLEAN]

\* Every order has a customer, and every copy is made of an order.
OwnersOK ==
    /\ orders \in Seq(Order)
    /\ \A o \in DOMAIN orders : orders[o].customer \in DOMAIN customers
    /\ \A t \in Tasks : task[t].pc = "repeat" => task[t].source \in DOMAIN orders

LEMMA InitOwners == Init => OwnersOK
  BY DEF Init, OwnersOK, Idle

\* One status changes, or an order ceases to be recent.
MayBecome(o, s) ==
    \/ /\ s = "purchasing" /\ rowLock[orders[o].customer] = NoTask
       /\ orders[o].status \in {"draft", "preorder"}
    \/ s = "preorder" /\ orders[o].status \in {"draft", "purchasing"}
    \/ s \in {"completed", "cancelled", "force_closed"}

Changed(o, new) ==
    /\ orders' = [orders EXCEPT ![o] = new]
    /\ new.customer = orders[o].customer /\ new.repeated = orders[o].repeated
    /\ new.status = orders[o].status \/ MayBecome(o, new.status)
    /\ new.recent => orders[o].recent

LEMMA LifeOfOrder ==
  ASSUME OwnersOK, NEW o \in DOMAIN orders, Life(o)
  PROVE  \E new \in Order : Changed(o, new)
<1>1. orders[o] \in Order
  BY DEF OwnersOK
<1>2. ASSUME NEW s \in Statuses, Become(o, s), MayBecome(o, s)
      PROVE  \E new \in Order : Changed(o, new)
  <2> DEFINE new == [orders[o] EXCEPT !.status = s]
  <2>1. new \in Order /\ new.status = s /\ new.customer = orders[o].customer
        /\ new.repeated = orders[o].repeated /\ new.recent = orders[o].recent
    BY <1>1 DEF Order
  <2>2. orders' = [orders EXCEPT ![o] = new]
    BY <1>2 DEF Become
  <2> HIDE DEF new
  <2>3. QED
    BY <1>2, <2>1, <2>2 DEF Changed
<1>3. CASE Age(o)
  <2> DEFINE new == [orders[o] EXCEPT !.recent = FALSE]
  <2>1. new \in Order /\ new.status = orders[o].status /\ new.customer = orders[o].customer
        /\ new.repeated = orders[o].repeated /\ new.recent = FALSE
    BY <1>1 DEF Order
  <2>2. orders' = [orders EXCEPT ![o] = new]
    BY <1>3 DEF Age
  <2> HIDE DEF new
  <2>3. QED
    BY <2>1, <2>2 DEF Changed
<1>4. CASE StartPurchase(o)
  BY <1>2, <1>4 DEF StartPurchase, MayBecome, Statuses, Waiting
<1>5. CASE SendToPreorder(o)
  BY <1>2, <1>5 DEF SendToPreorder, MayBecome, Statuses, Waiting
<1>6. CASE Complete(o)
  BY <1>2, <1>6 DEF Complete, MayBecome, Statuses, Waiting
<1>7. CASE ReturnToPreorder(o)
  BY <1>2, <1>7 DEF ReturnToPreorder, MayBecome, Statuses, Waiting
<1>8. CASE Cancel(o)
  BY <1>2, <1>8 DEF Cancel, MayBecome, Statuses, Waiting
<1>9. CASE ForceClose(o)
  BY <1>2, <1>9 DEF ForceClose, MayBecome, Statuses, Waiting
<1>10. QED
  BY <1>3, <1>4, <1>5, <1>6, <1>7, <1>8, <1>9 DEF Life

\* The Draft create_order inserts, with its customer.
LEMMA CommitOrders ==
  ASSUME BaseInv, OwnersOK, NEW t \in Tasks, CreateCommit(t)
  PROVE  \E new \in Order :
            /\ orders' = Append(orders, new)
            /\ new.customer = IF task[t].row = NoRow THEN Len(customers) + 1 ELSE task[t].row
            /\ new.status = "draft" /\ new.repeated = FALSE
            /\ new.customer \in DOMAIN customers'
            /\ DOMAIN customers \subseteq DOMAIN customers'
<1> DEFINE who == IF task[t].row = NoRow THEN Len(customers) + 1 ELSE task[t].row
           new == [customer |-> who, status |-> "draft", recent |-> TRUE, repeated |-> FALSE]
<1>1. customers \in Seq(Customer)
      /\ (task[t].row = NoRow \/ task[t].row \in DOMAIN customers)
  BY RequestsAssumption DEF BaseInv, RowsOK, JobsOK, JobOK, Locked, CreateCommit
<1>2. who \in Nat
  BY <1>1
<1>3. who \in DOMAIN customers' /\ DOMAIN customers \subseteq DOMAIN customers'
  <2>1. CASE task[t].row = NoRow
    <3>1. \E c : customers' = Append(customers, c)
      BY <2>1 DEF CreateCommit
    <3>2. DOMAIN customers' = DOMAIN customers \cup {Len(customers) + 1}
      BY <1>1, <3>1
    <3>3. QED
      BY <2>1, <3>2
  <2>2. CASE task[t].row # NoRow
    BY <1>1, <2>2 DEF CreateCommit
  <2>3. QED
    BY <2>1, <2>2
<1>4. orders' = Append(orders, new)
  BY DEF CreateCommit
<1>5. new \in Order
  BY <1>1, <1>2 DEF Order, Statuses
<1>6. QED
  BY <1>3, <1>4, <1>5

LEMMA StepOwners ==
  ASSUME BaseInv, OwnersOK, [Next]_vars
  PROVE  BaseInv' /\ OwnersOK'
<1>1. ASSUME NEW t \in Tasks, Only(t), task'[t].pc # "repeat", UNCHANGED orders,
             DOMAIN customers \subseteq DOMAIN customers'
      PROVE  OwnersOK'
  BY <1>1 DEF OwnersOK, Only
<1>2. ASSUME NEW t \in Tasks, NEW r \in Requests, NEW tries, FindCustomer(t, r, tries)
      PROVE  BaseInv' /\ OwnersOK'
  <2>1. UNCHANGED <<orders, customers>>
    BY <1>2 DEF FindCustomer
  <2>2. PICK c \in Matching(r) \cup {NoRow} :
          Goto(t, [pc |-> "check", request |-> r, row |-> c, tries |-> tries])
    BY <1>2 DEF FindCustomer
  <2>3. Only(t) /\ task'[t].pc = "check"
    BY <2>2, OnlyOne DEF BaseInv
  <2>4. QED
    BY <1>1, <1>2, <2>1, <2>3, FindBase
<1>3. ASSUME NEW t \in Tasks, CreateRefused(t) \/ CreateConflict(t) \/ MoveFails(t)
      PROVE  BaseInv' /\ OwnersOK'
  <2>1. /\ Release(t) /\ UNCHANGED <<customers, held, orders>>
        /\ \/ Goto(t, Idle)
           \/ task[t].pc \in {"check", "commit"} /\ Goto(t, [pc |-> "again", request |-> task[t].request])
    BY <1>3 DEF CreateRefused, CreateConflict, MoveFails, Refuse, Retry
  <2>2. BaseInv'
    BY <2>1, RefuseBase
  <2>3. CASE Goto(t, Idle)
    <3>1. Only(t) /\ task'[t] = Idle
      BY <2>3, OnlyOne DEF BaseInv
    <3>2. QED
      BY <1>1, <2>1, <2>2, <3>1 DEF Idle
  <2>4. CASE Goto(t, [pc |-> "again", request |-> task[t].request])
    <3>1. Only(t) /\ task'[t].pc = "again"
      BY <2>4, OnlyOne DEF BaseInv
    <3>2. QED
      BY <1>1, <2>1, <2>2, <3>1
  <2>5. QED
    BY <2>1, <2>3, <2>4
<1>4. ASSUME NEW t \in Tasks, CreateChecked(t) PROVE BaseInv' /\ OwnersOK'
  <2>1. /\ Goto(t, [pc |-> "commit", request |-> task[t].request, row |-> task[t].row,
                    tries |-> task[t].tries, remembered |-> task[t].request.name \in cache])
        /\ UNCHANGED <<customers, orders>>
    BY <1>4 DEF CreateChecked
  <2>2. Only(t) /\ task'[t].pc = "commit"
    BY <2>1, OnlyOne DEF BaseInv
  <2>3. QED
    BY <1>1, <1>4, <2>1, <2>2, CheckedBase
<1>5. ASSUME NEW t \in Tasks, CreateCommit(t) PROVE BaseInv' /\ OwnersOK'
  <2>1. Goto(t, Idle)
    BY <1>5 DEF CreateCommit
  <2>2. Only(t) /\ task'[t] = Idle
    BY <2>1, OnlyOne DEF BaseInv
  <2>3. PICK new \in Order : /\ orders' = Append(orders, new) /\ new.customer \in DOMAIN customers'
                             /\ DOMAIN customers \subseteq DOMAIN customers'
    BY <1>5, CommitOrders
  <2>4. orders' \in Seq(Order) /\ DOMAIN orders' = DOMAIN orders \cup {Len(orders) + 1}
        /\ orders'[Len(orders) + 1] = new /\ \A o \in DOMAIN orders : orders'[o] = orders[o]
    BY <2>3 DEF OwnersOK
  <2>5. OwnersOK'
    BY <2>2, <2>3, <2>4 DEF OwnersOK, Idle, Only
  <2>6. QED
    BY <1>5, <2>5, CommitBase
<1>6. ASSUME NEW t \in Tasks, NEW o \in DOMAIN orders, RepeatCheck(t, o) PROVE BaseInv' /\ OwnersOK'
  <2> DEFINE c == orders[o].customer
             j == [pc |-> "repeat", source |-> o]
  <2>1. c \in DOMAIN customers
    BY DEF OwnersOK
  <2>2. /\ rowLock[c] = NoTask /\ rowLock' = [rowLock EXCEPT ![c] = t] /\ Goto(t, j)
        /\ UNCHANGED <<customers, orders, held>>
    BY <1>6 DEF RepeatCheck
  <2>3. Only(t) /\ task'[t] = j
    BY <2>2, OnlyOne DEF BaseInv
  <2>4. BaseInv'
    <3>1. task'[t].pc = "repeat"
      BY <2>3
    <3>2. QED
      BY <2>1, <2>2, <2>3, <3>1, LockingBase
  <2>5. OwnersOK'
    BY <2>2, <2>3 DEF OwnersOK, Only
  <2>6. QED
    BY <2>4, <2>5
<1>7. ASSUME NEW t \in Tasks, RepeatCommit(t) PROVE BaseInv' /\ OwnersOK'
  <2> DEFINE source == task[t].source
             new == [customer |-> orders[source].customer, status |-> "preorder", recent |-> TRUE,
                     repeated |-> TRUE]
  <2>1. /\ task[t].pc = "repeat" /\ orders' = Append(orders, new) /\ Goto(t, Idle) /\ Release(t)
        /\ UNCHANGED <<customers, held>>
    BY <1>7 DEF RepeatCommit
  <2>2. BaseInv'
    BY <2>1, RefuseBase
  <2>3. Only(t) /\ task'[t] = Idle
    BY <2>1, OnlyOne DEF BaseInv
  <2>4. source \in DOMAIN orders /\ orders[source] \in Order /\ orders[source].customer \in DOMAIN customers
    BY <2>1 DEF OwnersOK
  <2>5. new \in Order
    BY <2>4 DEF Order, Statuses, Waiting
  <2>6. orders' \in Seq(Order) /\ DOMAIN orders' = DOMAIN orders \cup {Len(orders) + 1}
        /\ orders'[Len(orders) + 1] = new /\ \A o \in DOMAIN orders : orders'[o] = orders[o]
    BY <2>1, <2>5 DEF OwnersOK
  <2>7. OwnersOK'
    BY <2>1, <2>3, <2>4, <2>6 DEF OwnersOK, Idle, Only
  <2>8. QED
    BY <2>2, <2>7
<1>8. ASSUME NEW t \in Tasks, NEW c \in DOMAIN customers, BeginMove(t, c) PROVE BaseInv' /\ OwnersOK'
  <2> DEFINE j == [pc |-> "move", row |-> c, seen |-> customers[c].place]
  <2>1. /\ rowLock[c] = NoTask /\ rowLock' = [rowLock EXCEPT ![c] = t] /\ Goto(t, j)
        /\ UNCHANGED <<customers, orders, held>>
    BY <1>8 DEF BeginMove
  <2>2. Only(t) /\ task'[t] = j
    BY <2>1, OnlyOne DEF BaseInv
  <2>3. task'[t].pc = "move" /\ task'[t].row = c /\ task'[t].seen = customers[c].place
    BY <2>2
  <2>4. BaseInv'
    BY <2>1, <2>2, <2>3, LockingBase
  <2>5. OwnersOK'
    BY <1>1, <2>1, <2>2, <2>3
  <2>6. QED
    BY <2>4, <2>5
<1>9. ASSUME NEW t \in Tasks, MoveCommit(t) PROVE BaseInv' /\ OwnersOK'
  <2>1. Goto(t, Idle) /\ UNCHANGED orders
    BY <1>9 DEF MoveCommit
  <2>2. DOMAIN customers' = DOMAIN customers
    BY <1>9 DEF MoveCommit
  <2>3. Only(t) /\ task'[t] = Idle
    BY <2>1, OnlyOne DEF BaseInv
  <2>4. QED
    BY <1>1, <1>9, <2>1, <2>2, <2>3, MoveBase DEF Idle
<1>10. ASSUME NEW o \in DOMAIN orders, Life(o) PROVE BaseInv' /\ OwnersOK'
  <2>1. UNCHANGED <<customers, held, rowLock, task>>
    BY <1>10, LifeFrame
  <2>2. BaseInv'
    BY <2>1 DEF BaseInv, RowsOK, PlaceHistoryIsComplete, JobsOK, JobOK, Locked
  <2>3. PICK new \in Order : Changed(o, new)
    BY <1>10, LifeOfOrder
  <2>4. orders' \in Seq(Order) /\ DOMAIN orders' = DOMAIN orders
        /\ \A p \in DOMAIN orders : orders'[p].customer = orders[p].customer
    BY <2>3 DEF Changed, OwnersOK
  <2>5. QED
    BY <2>1, <2>2, <2>4 DEF OwnersOK
<1>11. CASE UNCHANGED vars
  <2>1. UNCHANGED <<customers, held, rowLock, task, orders>>
    BY <1>11 DEF vars
  <2>2. QED
    BY <2>1 DEF BaseInv, RowsOK, PlaceHistoryIsComplete, JobsOK, JobOK, Locked, OwnersOK
<1>12. ASSUME NEW t \in Tasks, CreateAgain(t) PROVE BaseInv' /\ OwnersOK'
  <2>1. task[t].request \in Requests
    BY <1>12 DEF CreateAgain, BaseInv, JobsOK, JobOK
  <2>2. QED
    BY <1>2, <1>12, <2>1 DEF CreateAgain
<1>13. QED
  BY <1>2, <1>3, <1>4, <1>5, <1>6, <1>7, <1>8, <1>9, <1>10, <1>11, <1>12 DEF Next, Life, CreateOrder

\* Every Place ID a customer ever had is in its history or is the current one: update_place_id has
\* the row locked from the read to the write, and so has create_order.
THEOREM HistoryIsComplete == Spec => []PlaceHistoryIsComplete
<1>1. Init => BaseInv /\ OwnersOK
  BY InitBase, InitOwners
<1>2. BaseInv /\ OwnersOK /\ [Next]_vars => (BaseInv /\ OwnersOK)'
  BY StepOwners
<1>3. BaseInv => PlaceHistoryIsComplete
  BY DEF BaseInv, RowsOK
<1>4. QED
  BY <1>1, <1>2, <1>3, PTL DEF Spec

-----------------------------------------------------------------------------
(***************************************************************************)
(* Identities, purchases and copies                                        *)
(***************************************************************************)
IsFor(c, r) == customers[c].name = r.name /\ customers[c].uid = r.uid

\* An identity has one row, with its name; the place of a name is remembered as soon as it has a row.
IdentitiesOK ==
    /\ \A c \in DOMAIN customers : customers[c].uid # NoUid => \E r \in Requests : IsFor(c, r)
    /\ \A c, d \in DOMAIN customers :
         customers[c].uid # NoUid /\ customers[c].uid = customers[d].uid => c = d
    /\ \A n : n \in cache <=> \E c \in DOMAIN customers : customers[c].name = n

IsCopy(o) == orders[o].repeated /\ orders[o].recent /\ orders[o].status \in Waiting

CopiesOK ==
    /\ \A o \in DOMAIN orders : orders[o].repeated => orders[o].status # "draft"
    /\ \A o, p \in DOMAIN orders :
         IsCopy(o) /\ IsCopy(p) /\ orders[o].customer = orders[p].customer => o = p

\* What a task relies on: the row it found has the name, and is not another one's; a second try finds
\* a row, and the place remembered; no purchase of a row it has locked has begun, and no copy of its
\* orders.
PromiseOK(t) ==
    /\ task[t].pc \in {"check", "commit"} /\ task[t].row # NoRow =>
         customers[task[t].row].name = task[t].request.name
    /\ task[t].pc = "commit" /\ task[t].row # NoRow /\ task[t].request.uid # NoUid =>
         customers[task[t].row].uid \in {NoUid, task[t].request.uid}
    /\ task[t].pc = "again" => \E c \in DOMAIN customers : customers[c].name = task[t].request.name
    /\ task[t].pc \in {"check", "commit"} /\ task[t].tries = 1 => task[t].row # NoRow
    /\ task[t].pc = "commit" /\ task[t].tries = 1 => task[t].remembered
    /\ task[t].pc = "commit" /\ task[t].row # NoRow /\ ~task[t].request.allow =>
         \A o \in DOMAIN orders : orders[o].customer = task[t].row => orders[o].status # "purchasing"
    /\ task[t].pc = "repeat" =>
         /\ rowLock[orders[task[t].source].customer] = t
         /\ \A o \in DOMAIN orders : IsCopy(o) => orders[o].customer # orders[task[t].source].customer

PromisesOK == \A t \in Tasks : PromiseOK(t)

IntakeInv == IdentitiesOK /\ CopiesOK /\ PromisesOK

LEMMA InitIntake == Init => IntakeInv
<1> SUFFICES ASSUME Init PROVE IntakeInv
  OBVIOUS
<1>1. IdentitiesOK /\ CopiesOK
  BY DEF Init, IdentitiesOK, CopiesOK
<1>2. PromisesOK
  BY DEF Init, PromisesOK, PromiseOK, Idle
<1>3. QED
  BY <1>1, <1>2 DEF IntakeInv

\* Rows are added and keep their names, and their identities while others have them locked.
Grows(t) ==
    \A c \in DOMAIN customers :
        /\ c \in DOMAIN customers'
        /\ customers'[c].name = customers[c].name
        /\ rowLock[c] \in Tasks \ {t} => customers'[c].uid = customers[c].uid

\* An order begins to be bought, or is a new copy, only for a customer others have not locked.
OrdersLater(t) ==
    /\ \A o \in DOMAIN orders : o \in DOMAIN orders' /\ orders'[o].customer = orders[o].customer
    /\ \A o \in DOMAIN orders' :
         /\ orders'[o].status = "purchasing" =>
              \/ o \in DOMAIN orders /\ orders[o].status = "purchasing"
              \/ rowLock[orders'[o].customer] \notin Tasks \ {t}
         /\ IsCopy(o)' =>
              \/ o \in DOMAIN orders /\ IsCopy(o)
              \/ rowLock[orders'[o].customer] \notin Tasks \ {t}

LEMMA SameOrders ==
  ASSUME UNCHANGED orders, NEW t
  PROVE  OrdersLater(t) /\ (CopiesOK => CopiesOK')
BY DEF OrdersLater, IsCopy, CopiesOK

LEMMA SameRows ==
  ASSUME UNCHANGED customers, NEW t
  PROVE  Grows(t) /\ (IdentitiesOK /\ UNCHANGED cache => IdentitiesOK')
BY DEF Grows, IdentitiesOK, IsFor

LEMMA PromisesKept ==
  ASSUME BaseInv, OwnersOK, IntakeInv, NEW t, NEW u \in Tasks \ {t}, task'[u] = task[u],
         LocksKept(t), Grows(t), OrdersLater(t)
  PROVE  PromiseOK(u)'
<1>1. PromiseOK(u) /\ JobOK(u) /\ DOMAIN rowLock = DOMAIN customers
  BY DEF IntakeInv, PromisesOK, BaseInv, JobsOK, RowsOK
<1>2. \A c \in DOMAIN customers : c \in DOMAIN customers' /\ customers'[c].name = customers[c].name
  BY DEF Grows
<1>3. task[u].pc \in {"check", "commit"} /\ task[u].row # NoRow =>
        /\ task[u].row \in DOMAIN customers /\ rowLock[task[u].row] = u
        /\ customers'[task[u].row].name = task[u].request.name
        /\ customers'[task[u].row].uid = customers[task[u].row].uid
  BY <1>1, <1>2 DEF JobOK, Locked, PromiseOK, Grows
<1>4. task[u].pc = "commit" /\ task[u].row # NoRow /\ task[u].request.uid # NoUid =>
        customers'[task[u].row].uid \in {NoUid, task[u].request.uid}
  BY <1>1, <1>3 DEF PromiseOK
<1>5. task[u].pc = "again" => \E c \in DOMAIN customers' : customers'[c].name = task[u].request.name
  BY <1>1, <1>2 DEF PromiseOK
<1>6. task[u].pc = "commit" /\ task[u].row # NoRow /\ ~task[u].request.allow =>
        \A o \in DOMAIN orders' : orders'[o].customer = task[u].row => orders'[o].status # "purchasing"
  <2> SUFFICES ASSUME task[u].pc = "commit", task[u].row # NoRow, ~task[u].request.allow,
                      NEW o \in DOMAIN orders', orders'[o].customer = task[u].row,
                      orders'[o].status = "purchasing"
               PROVE  FALSE
    OBVIOUS
  <2>1. rowLock[orders'[o].customer] \in Tasks \ {t}
    BY <1>3
  <2>2. o \in DOMAIN orders /\ orders[o].status = "purchasing" /\ orders[o].customer = task[u].row
    BY <2>1 DEF OrdersLater
  <2>3. QED
    BY <1>1, <2>2 DEF PromiseOK
<1>7. ASSUME task[u].pc = "repeat"
      PROVE  /\ rowLock'[orders'[task[u].source].customer] = u
             /\ \A o \in DOMAIN orders' :
                  IsCopy(o)' => orders'[o].customer # orders'[task[u].source].customer
  <2> DEFINE c == orders[task[u].source].customer
  <2>1. task[u].source \in DOMAIN orders /\ c \in DOMAIN customers /\ rowLock[c] = u
    BY <1>1, <1>7 DEF OwnersOK, PromiseOK
  <2>2. orders'[task[u].source].customer = c /\ rowLock'[c] = u
    BY <1>1, <2>1 DEF OrdersLater, LocksKept
  <2>3. ASSUME NEW o \in DOMAIN orders', IsCopy(o)', orders'[o].customer = c PROVE FALSE
    <3>1. o \in DOMAIN orders /\ IsCopy(o) /\ orders[o].customer = c
      BY <2>1, <2>3 DEF OrdersLater
    <3>2. QED
      BY <1>1, <1>7, <3>1 DEF PromiseOK
  <2>4. QED
    BY <2>2, <2>3
<1>8. QED
  BY <1>1, <1>3, <1>4, <1>5, <1>6, <1>7 DEF PromiseOK

\* A step of one task that leaves orders and rows alone.
LEMMA ReadersIntake ==
  ASSUME BaseInv, OwnersOK, IntakeInv, NEW t \in Tasks, Only(t), LocksKept(t),
         UNCHANGED <<customers, orders, cache>>, PromiseOK(t)'
  PROVE  IntakeInv'
<1>1. IdentitiesOK' /\ CopiesOK' /\ Grows(t) /\ OrdersLater(t)
  BY SameRows, SameOrders DEF IntakeInv
<1>2. \A u \in Tasks \ {t} : PromiseOK(u)'
  BY <1>1, PromisesKept DEF Only
<1>3. QED
  BY <1>1, <1>2 DEF IntakeInv, PromisesOK

\* Whoever has the identity has the name.
LEMMA IdentityHasName ==
  ASSUME IdentitiesOK, NEW c \in DOMAIN customers, NEW r \in Requests,
         r.uid # NoUid, customers[c].uid = r.uid
  PROVE  customers[c].name = r.name
BY IdentitiesAssumption DEF IdentitiesOK, IsFor

\* The look-up finds rows of the name, if there are any.
LEMMA MatchingHasName ==
  ASSUME IdentitiesOK, NEW r \in Requests
  PROVE  /\ \A c \in Matching(r) : c \in DOMAIN customers /\ customers[c].name = r.name
         /\ \A c \in DOMAIN customers : customers[c].name = r.name => Matching(r) # {}
BY IdentityHasName DEF Matching

LEMMA FindIntake ==
  ASSUME BaseInv, OwnersOK, IntakeInv, NEW t \in Tasks, NEW r \in Requests, NEW tries,
         tries = 1 => \E c \in DOMAIN customers : customers[c].name = r.name,
         FindCustomer(t, r, tries)
  PROVE  IntakeInv'
<1>1. UNCHANGED <<customers, orders, cache>>
  BY DEF FindCustomer
<1>2. PICK row : /\ Goto(t, [pc |-> "check", request |-> r, row |-> row, tries |-> tries])
                 /\ \/ row = NoRow /\ Matching(r) = {} /\ UNCHANGED rowLock
                    \/ /\ row \in Matching(r)
                       /\ \A c \in Matching(r) : rowLock[c] = NoTask
                       /\ rowLock' = [c \in DOMAIN rowLock |-> IF c \in Matching(r) THEN t ELSE rowLock[c]]
  BY DEF FindCustomer
<1>3. Only(t) /\ task'[t] = [pc |-> "check", request |-> r, row |-> row, tries |-> tries]
  BY <1>2, OnlyOne DEF BaseInv
<1>4. row # NoRow => row \in DOMAIN customers /\ customers[row].name = r.name
  BY <1>2, MatchingHasName DEF IntakeInv
<1>5. LocksKept(t)
  <2>1. CASE UNCHANGED rowLock
    BY <2>1, SameLocks
  <2>2. CASE /\ \A c \in Matching(r) : rowLock[c] = NoTask
             /\ rowLock' = [c \in DOMAIN rowLock |-> IF c \in Matching(r) THEN t ELSE rowLock[c]]
    <3>1. Matching(r) \in SUBSET DOMAIN customers
      BY DEF Matching
    <3>2. QED
      BY <2>2, <3>1, TakeAllKeeps DEF BaseInv
  <2>3. QED
    BY <1>2, <2>1, <2>2
<1>6. tries = 1 => row # NoRow
  <2>1. row = NoRow => Matching(r) = {} \/ NoRow \in Matching(r)
    BY <1>2
  <2>2. NoRow \notin Matching(r)
    BY DEF Matching, NoRow, BaseInv, RowsOK
  <2>3. QED
    BY <2>1, <2>2, MatchingHasName DEF IntakeInv
<1>7. PromiseOK(t)'
  BY <1>1, <1>3, <1>4, <1>6 DEF PromiseOK
<1>8. QED
  BY <1>1, <1>3, <1>5, <1>7, ReadersIntake

\* An error to the operator, or the second try of create_order: the row there is now.
LEMMA RefuseIntake ==
  ASSUME BaseInv, OwnersOK, IntakeInv, NEW t \in Tasks,
         CreateRefused(t) \/ CreateConflict(t) \/ MoveFails(t)
  PROVE  IntakeInv'
<1>1. /\ Release(t) /\ UNCHANGED <<customers, orders, cache>>
      /\ \/ Goto(t, Idle)
         \/ /\ task[t].pc = "commit" /\ Conflict(t)
            /\ Goto(t, [pc |-> "again", request |-> task[t].request])
  BY DEF CreateRefused, CreateConflict, MoveFails, Refuse, Retry
<1>2. LocksKept(t)
  BY <1>1, ReleaseKeeps DEF BaseInv
<1>3. CASE Goto(t, Idle)
  <2>1. Only(t) /\ task'[t] = Idle
    BY <1>3, OnlyOne DEF BaseInv
  <2>2. PromiseOK(t)'
    BY <2>1 DEF PromiseOK, Idle
  <2>3. QED
    BY <1>1, <1>2, <2>1, <2>2, ReadersIntake
<1>4. CASE /\ task[t].pc = "commit" /\ Conflict(t)
           /\ Goto(t, [pc |-> "again", request |-> task[t].request])
  <2>1. Only(t) /\ task'[t] = [pc |-> "again", request |-> task[t].request]
    BY <1>4, OnlyOne DEF BaseInv
  <2>2. task[t].request \in Requests
    BY <1>4 DEF BaseInv, JobsOK, JobOK
  <2>3. \E c \in DOMAIN customers : customers[c].name = task[t].request.name
    <3>1. CASE task[t].request.name \in cache
      BY <3>1 DEF IntakeInv, IdentitiesOK
    <3>2. CASE task[t].request.name \notin cache
      BY <1>4, <2>2, <3>2, IdentityHasName DEF Conflict, IntakeInv
    <3>3. QED
      BY <3>1, <3>2
  <2>4. PromiseOK(t)'
    BY <1>1, <2>1, <2>3 DEF PromiseOK
  <2>5. QED
    BY <1>1, <1>2, <2>1, <2>4, ReadersIntake
<1>5. QED
  BY <1>1, <1>3, <1>4

LEMMA CheckedIntake ==
  ASSUME BaseInv, OwnersOK, IntakeInv, NEW t \in Tasks, CreateChecked(t)
  PROVE  IntakeInv'
<1> DEFINE r == task[t].request
           j == [pc |-> "commit", request |-> r, row |-> task[t].row,
                 tries |-> task[t].tries, remembered |-> r.name \in cache]
<1>1. /\ task[t].pc = "check" /\ Goto(t, j) /\ UNCHANGED <<customers, orders, cache, rowLock>>
      /\ ~IsImpostor(t) /\ (r.allow \/ Similar(t) = {})
  BY DEF CreateChecked
<1>2. Only(t) /\ task'[t] = j
  BY <1>1, OnlyOne DEF BaseInv
<1>3. PromiseOK(t) /\ JobOK(t)
  BY DEF IntakeInv, PromisesOK, BaseInv, JobsOK
<1>4. task[t].row # NoRow =>
        /\ task[t].row \in DOMAIN customers /\ customers[task[t].row].name = r.name
        /\ r.uid # NoUid => customers[task[t].row].uid \in {NoUid, r.uid}
  BY <1>1, <1>3 DEF PromiseOK, JobOK, Locked, IsImpostor
<1>5. task[t].tries = 1 => task[t].row # NoRow /\ r.name \in cache
  BY <1>1, <1>3, <1>4 DEF PromiseOK, IntakeInv, IdentitiesOK
<1>6. ~r.allow => \A o \in DOMAIN orders : orders[o].customer = task[t].row => orders[o].status # "purchasing"
  BY <1>1 DEF Similar, Waiting
<1>7. /\ task'[t].pc = "commit" /\ task'[t].row = task[t].row /\ task'[t].request = r
      /\ task'[t].tries = task[t].tries /\ task'[t].remembered = (r.name \in cache)
  BY <1>2
<1>8. PromiseOK(t)'
  BY <1>1, <1>4, <1>5, <1>6, <1>7 DEF PromiseOK
<1>9. QED
  BY <1>1, <1>2, <1>8, SameLocks, ReadersIntake

\* The rest of a step, once its task is idle and the rows and orders are shown to be as they should.
LEMMA EndingIntake ==
  ASSUME BaseInv, OwnersOK, IntakeInv, NEW t \in Tasks, Goto(t, Idle), LocksKept(t),
         Grows(t), OrdersLater(t), IdentitiesOK', CopiesOK'
  PROVE  IntakeInv'
<1>1. Only(t) /\ task'[t] = Idle
  BY OnlyOne DEF BaseInv
<1>2. PromiseOK(t)'
  BY <1>1 DEF PromiseOK, Idle
<1>3. \A u \in Tasks \ {t} : PromiseOK(u)'
  BY <1>1, PromisesKept DEF Only
<1>4. QED
  BY <1>2, <1>3 DEF IntakeInv, PromisesOK

LEMMA AppendedOrder ==
  ASSUME OwnersOK, NEW new \in Order, orders' = Append(orders, new)
  PROVE  /\ DOMAIN orders' = DOMAIN orders \cup {Len(orders) + 1}
         /\ orders'[Len(orders) + 1] = new
         /\ \A o \in DOMAIN orders : orders'[o] = orders[o] /\ o # Len(orders) + 1
BY DEF OwnersOK

\* The customer and the Draft create_order leaves.
LEMMA CommitIntake ==
  ASSUME BaseInv, OwnersOK, IntakeInv, NEW t \in Tasks, CreateCommit(t)
  PROVE  IntakeInv'
<1> DEFINE r == task[t].request
           row == task[t].row
<1>1. /\ task[t].pc = "commit" /\ r \in Requests /\ ~Conflict(t) /\ Goto(t, Idle)
      /\ cache' = cache \cup {r.name}
  BY DEF CreateCommit, BaseInv, JobsOK, JobOK
<1>2. r.uid # NoUid => \A c \in DOMAIN customers \ {row} : customers[c].uid # r.uid
  BY <1>1 DEF Conflict
<1>3. rowLock' = [c \in DOMAIN customers' |->
                     IF c \in DOMAIN rowLock /\ rowLock[c] # t THEN rowLock[c] ELSE NoTask]
  BY DEF CreateCommit
<1>4. customers \in Seq(Customer) /\ DOMAIN rowLock = DOMAIN customers
  BY DEF BaseInv, RowsOK
<1>5. Grows(t) /\ IdentitiesOK'
  <2>1. CASE row = NoRow
    <3> DEFINE new == [name |-> r.name, uid |-> r.uid, place |-> Place, past |-> << >>]
               n == Len(customers) + 1
    <3>1. customers' = Append(customers, new)
      BY <2>1 DEF CreateCommit
    <3>2. /\ DOMAIN customers' = DOMAIN customers \cup {n} /\ customers'[n] = new
          /\ \A c \in DOMAIN customers : customers'[c] = customers[c] /\ c # n
      BY <1>4, <3>1
    <3>3. Grows(t)
      BY <3>2 DEF Grows
    <3>4. NoRow \notin DOMAIN customers
      BY <1>4 DEF NoRow
    <3>5. r.uid # NoUid => \A c \in DOMAIN customers : customers[c].uid # r.uid
      BY <1>2, <2>1, <3>4
    <3>6. customers'[n].name = r.name /\ customers'[n].uid = r.uid
      BY <3>2
    <3>7. \A c \in DOMAIN customers' : customers'[c].uid # NoUid => \E q \in Requests : IsFor(c, q)'
      BY <1>1, <3>2, <3>6 DEF IntakeInv, IdentitiesOK, IsFor
    <3>8. \A c, d \in DOMAIN customers' :
            customers'[c].uid # NoUid /\ customers'[c].uid = customers'[d].uid => c = d
      BY <3>2, <3>5, <3>6 DEF IntakeInv, IdentitiesOK
    <3>9. \A m : m \in cache' <=> \E c \in DOMAIN customers' : customers'[c].name = m
      BY <1>1, <3>2, <3>6 DEF IntakeInv, IdentitiesOK
    <3>10. QED
      BY <3>3, <3>7, <3>8, <3>9 DEF IdentitiesOK
  <2>2. CASE row # NoRow
    <3>1. /\ row \in DOMAIN customers /\ rowLock[row] = t /\ customers[row] \in Customer
          /\ customers[row].name = r.name
      BY <1>1, <1>4, <2>2 DEF IntakeInv, PromisesOK, PromiseOK, BaseInv, JobsOK, JobOK, Locked
    <3> DEFINE new == Kept(r, customers[row])
    <3>2. customers' = [customers EXCEPT ![row] = new]
      BY <2>2, <3>1 DEF CreateCommit
    <3>3. new.name = r.name /\ new.uid = IF r.uid = NoUid THEN customers[row].uid ELSE r.uid
      <4>1. Moved(customers[row], customers[row].place, Place) \in Customer
        BY <3>1, MovedType DEF PlaceIds
      <4>2. /\ Moved(customers[row], customers[row].place, Place).name = customers[row].name
            /\ Moved(customers[row], customers[row].place, Place).uid = customers[row].uid
        BY <3>1 DEF Moved, Customer
      <4>3. QED
        BY <1>1, <3>1, <4>1, <4>2 DEF Kept, Customer
    <3> HIDE DEF new
    <3>4. /\ DOMAIN customers' = DOMAIN customers /\ customers'[row] = new
          /\ \A c \in DOMAIN customers \ {row} : customers'[c] = customers[c]
          /\ \A c \in DOMAIN customers : customers'[c].name = customers[c].name
      BY <3>1, <3>2, <3>3
    <3>5. Grows(t)
      BY <3>1, <3>4 DEF Grows
    <3>6. cache' = cache
      BY <1>1, <3>1 DEF IntakeInv, IdentitiesOK
    <3>7. \A c \in DOMAIN customers' : customers'[c].uid # NoUid => \E q \in Requests : IsFor(c, q)'
      BY <1>1, <3>1, <3>3, <3>4 DEF IntakeInv, IdentitiesOK, IsFor
    <3>8. \A c, d \in DOMAIN customers' :
            customers'[c].uid # NoUid /\ customers'[c].uid = customers'[d].uid => c = d
      BY <1>2, <3>1, <3>3, <3>4 DEF IntakeInv, IdentitiesOK
    <3>9. \A m : m \in cache' <=> \E c \in DOMAIN customers' : customers'[c].name = m
      BY <3>4, <3>6 DEF IntakeInv, IdentitiesOK
    <3>10. QED
      BY <3>5, <3>7, <3>8, <3>9 DEF IdentitiesOK
  <2>3. QED
    BY <2>1, <2>2
<1>6. LocksKept(t)
  BY <1>3, <1>4, <1>5 DEF LocksKept, Grows
<1>7. PICK new \in Order : orders' = Append(orders, new) /\ new.status = "draft" /\ new.repeated = FALSE
  BY CommitOrders
<1>8. OrdersLater(t)
  BY <1>7, AppendedOrder DEF OrdersLater, IsCopy
<1>9. CopiesOK'
  BY <1>7, AppendedOrder DEF IntakeInv, CopiesOK, IsCopy
<1>10. QED
  BY <1>1, <1>5, <1>6, <1>8, <1>9, EndingIntake

LEMMA RepeatCheckIntake ==
  ASSUME BaseInv, OwnersOK, IntakeInv, NEW t \in Tasks, NEW o \in DOMAIN orders, RepeatCheck(t, o)
  PROVE  IntakeInv'
<1> DEFINE c == orders[o].customer
<1>1. /\ rowLock[c] = NoTask /\ rowLock' = [rowLock EXCEPT ![c] = t]
      /\ Goto(t, [pc |-> "repeat", source |-> o]) /\ UNCHANGED <<customers, orders, cache>>
      /\ \A p \in DOMAIN orders :
           (orders[p].recent /\ orders[p].status \in Waiting \cup {"completed"}) =>
               customers[orders[p].customer].name # customers[c].name
  BY DEF RepeatCheck
<1>2. c \in DOMAIN customers
  BY DEF OwnersOK
<1>3. LocksKept(t) /\ rowLock'[c] = t
  BY <1>1, <1>2, TakeKeeps DEF BaseInv
<1>4. Only(t) /\ task'[t] = [pc |-> "repeat", source |-> o]
  BY <1>1, OnlyOne DEF BaseInv
<1>5. \A p \in DOMAIN orders : IsCopy(p) => orders[p].customer # c
  BY <1>1 DEF IsCopy
<1>6. PromiseOK(t)'
  BY <1>1, <1>3, <1>4, <1>5 DEF PromiseOK, IsCopy
<1>7. QED
  BY <1>1, <1>3, <1>4, <1>6, ReadersIntake

LEMMA RepeatCommitIntake ==
  ASSUME BaseInv, OwnersOK, IntakeInv, NEW t \in Tasks, RepeatCommit(t)
  PROVE  IntakeInv'
<1> DEFINE c == orders[task[t].source].customer
           new == [customer |-> c, status |-> "preorder", recent |-> TRUE,
                   repeated |-> TRUE]
<1>1. /\ task[t].pc = "repeat" /\ orders' = Append(orders, new) /\ Goto(t, Idle) /\ Release(t)
      /\ UNCHANGED <<customers, cache>>
  BY DEF RepeatCommit
<1>2. task[t].source \in DOMAIN orders /\ orders[task[t].source] \in Order
  BY <1>1 DEF OwnersOK
<1>3. new \in Order
  BY <1>2 DEF Order, Statuses, Waiting
<1>4. rowLock[c] = t /\ \A o \in DOMAIN orders : IsCopy(o) => orders[o].customer # c
  BY <1>1 DEF IntakeInv, PromisesOK, PromiseOK
<1>5. new.customer = c /\ new.status = "preorder" /\ new.repeated = TRUE
  OBVIOUS
<1> HIDE DEF new
<1>6. OrdersLater(t)
  BY <1>1, <1>3, <1>4, <1>5, AppendedOrder DEF OrdersLater, IsCopy
<1>7. CopiesOK'
  <2>1. \A o \in DOMAIN orders' : orders'[o].repeated => orders'[o].status # "draft"
    BY <1>1, <1>3, <1>5, AppendedOrder DEF IntakeInv, CopiesOK
  <2>2. ASSUME NEW o \in DOMAIN orders', NEW p \in DOMAIN orders', IsCopy(o)', IsCopy(p)',
               orders'[o].customer = orders'[p].customer
        PROVE  o = p
    <3>1. CASE o \in DOMAIN orders /\ p \in DOMAIN orders
      BY <1>1, <1>3, <2>2, <3>1, AppendedOrder DEF IntakeInv, CopiesOK, IsCopy
    <3>2. CASE o \notin DOMAIN orders
      BY <1>1, <1>3, <1>4, <1>5, <2>2, <3>2, AppendedOrder DEF IsCopy
    <3>3. CASE p \notin DOMAIN orders
      BY <1>1, <1>3, <1>4, <1>5, <2>2, <3>3, AppendedOrder DEF IsCopy
    <3>4. QED
      BY <3>1, <3>2, <3>3
  <2>3. QED
    BY <2>1, <2>2 DEF CopiesOK
<1>8. Grows(t) /\ IdentitiesOK' /\ LocksKept(t)
  BY <1>1, SameRows, ReleaseKeeps DEF IntakeInv, BaseInv
<1>9. QED
  BY <1>1, <1>6, <1>7, <1>8, EndingIntake

LEMMA BeginMoveIntake ==
  ASSUME BaseInv, OwnersOK, IntakeInv, NEW t \in Tasks, NEW c \in DOMAIN customers, BeginMove(t, c)
  PROVE  IntakeInv'
<1>1. /\ rowLock[c] = NoTask /\ rowLock' = [rowLock EXCEPT ![c] = t]
      /\ Goto(t, [pc |-> "move", row |-> c, seen |-> customers[c].place])
      /\ UNCHANGED <<customers, orders, cache>>
  BY DEF BeginMove
<1>2. LocksKept(t)
  BY <1>1, TakeKeeps DEF BaseInv
<1>3. Only(t) /\ task'[t] = [pc |-> "move", row |-> c, seen |-> customers[c].place]
  BY <1>1, OnlyOne DEF BaseInv
<1>4. PromiseOK(t)'
  BY <1>3 DEF PromiseOK
<1>5. QED
  BY <1>1, <1>2, <1>3, <1>4, ReadersIntake

\* A refresh gives a customer the identity of its name, if no other row has it.
LEMMA MoveIntake ==
  ASSUME BaseInv, OwnersOK, IntakeInv, NEW t \in Tasks, MoveCommit(t)
  PROVE  IntakeInv'
<1> DEFINE c == task[t].row
<1>1. /\ c \in DOMAIN customers /\ rowLock[c] = t /\ customers[c] \in Customer
      /\ task[t].seen = customers[c].place
  BY DEF MoveCommit, BaseInv, JobsOK, JobOK, Locked, RowsOK
<1>2. PICK place \in Places, r \in Requests :
        /\ r.name = customers[c].name
        /\ LET uid == IF customers[c].uid = NoUid THEN r.uid ELSE customers[c].uid
           IN  /\ uid # NoUid => \A d \in DOMAIN customers \ {c} : customers[d].uid # uid
               /\ customers' = [customers EXCEPT
                                  ![c] = [Moved(@, task[t].seen, place) EXCEPT !.uid = uid]]
  BY DEF MoveCommit
<1>3. PICK uid : uid = IF customers[c].uid = NoUid THEN r.uid ELSE customers[c].uid
  OBVIOUS
<1>4. /\ uid # NoUid => \A d \in DOMAIN customers \ {c} : customers[d].uid # uid
      /\ customers' = [customers EXCEPT ![c] =
                         [Moved(customers[c], customers[c].place, place) EXCEPT !.uid = uid]]
  BY <1>1, <1>2, <1>3
<1> DEFINE moved == Moved(customers[c], customers[c].place, place)
           new == [moved EXCEPT !.uid = uid]
<1>5. moved \in Customer /\ moved.name = customers[c].name
  BY <1>1, MovedType DEF PlaceIds, Moved, Customer
<1>6. new.name = customers[c].name /\ new.uid = uid
  BY <1>5 DEF Customer
<1>7. /\ DOMAIN customers' = DOMAIN customers /\ customers'[c] = new
      /\ \A d \in DOMAIN customers \ {c} : customers'[d] = customers[d]
      /\ \A d \in DOMAIN customers : customers'[d].name = customers[d].name
  <2>1. customers' = [customers EXCEPT ![c] = new]
    BY <1>4
  <2> HIDE DEF new
  <2>2. DOMAIN customers' = DOMAIN customers /\ customers'[c] = new
        /\ \A d \in DOMAIN customers \ {c} : customers'[d] = customers[d]
    BY <1>1, <2>1
  <2>3. QED
    BY <1>6, <2>2
<1> HIDE DEF new
<1>8. Goto(t, Idle) /\ Release(t) /\ UNCHANGED <<orders, cache>>
  BY DEF MoveCommit
<1>9. Grows(t)
  BY <1>1, <1>7 DEF Grows
<1>10. IdentitiesOK'
  <2>1. \A d \in DOMAIN customers' : customers'[d].uid # NoUid => \E q \in Requests : IsFor(d, q)'
    BY <1>1, <1>2, <1>3, <1>4, <1>6, <1>7 DEF IntakeInv, IdentitiesOK, IsFor
  <2>2. \A d, e \in DOMAIN customers' :
          customers'[d].uid # NoUid /\ customers'[d].uid = customers'[e].uid => d = e
    BY <1>1, <1>2, <1>3, <1>4, <1>6, <1>7 DEF IntakeInv, IdentitiesOK
  <2>3. \A m : m \in cache' <=> \E d \in DOMAIN customers' : customers'[d].name = m
    BY <1>7, <1>8 DEF IntakeInv, IdentitiesOK
  <2>4. QED
    BY <2>1, <2>2, <2>3 DEF IdentitiesOK
<1>11. QED
  BY <1>8, <1>9, <1>10, SameOrders, ReleaseKeeps, EndingIntake DEF IntakeInv, BaseInv

LEMMA LifeIntake ==
  ASSUME BaseInv, OwnersOK, IntakeInv, NEW o \in DOMAIN orders, Life(o)
  PROVE  IntakeInv'
<1>1. UNCHANGED <<customers, cache, rowLock, task>>
  BY LifeFrame
<1>2. PICK new \in Order : Changed(o, new)
  BY LifeOfOrder
<1>3. /\ DOMAIN orders' = DOMAIN orders /\ orders'[o] = new
      /\ \A p \in DOMAIN orders \ {o} : orders'[p] = orders[p]
  BY <1>2 DEF Changed
<1>4. new.customer = orders[o].customer /\ new.repeated = orders[o].repeated
  BY <1>2 DEF Changed
<1>5. new.status = "purchasing" => \/ orders[o].status = "purchasing"
                                   \/ rowLock[orders[o].customer] = NoTask
  BY <1>2 DEF Changed, MayBecome
<1>6. IsCopy(o)' => IsCopy(o)
  <2>1. orders[o].repeated => orders[o].status # "draft"
    BY DEF IntakeInv, CopiesOK
  <2>2. QED
    BY <1>2, <1>3, <2>1 DEF Changed, MayBecome, IsCopy, Waiting
<1>7. \A p \in DOMAIN orders : IsCopy(p)' => IsCopy(p)
  BY <1>3, <1>6 DEF IsCopy
<1>8. OrdersLater(NoTask)
  BY <1>3, <1>4, <1>5, <1>7, TasksAssumption DEF OrdersLater
<1>9. CopiesOK'
  <2>1. new.repeated => new.status # "draft"
    BY <1>2 DEF Changed, MayBecome, IntakeInv, CopiesOK
  <2>2. \A p \in DOMAIN orders' : orders'[p].repeated => orders'[p].status # "draft"
    BY <1>3, <2>1 DEF IntakeInv, CopiesOK
  <2>3. \A p \in DOMAIN orders' : orders'[p].customer = orders[p].customer
    BY <1>3, <1>4
  <2>4. QED
    BY <1>3, <1>7, <2>2, <2>3 DEF IntakeInv, CopiesOK
<1>10. Grows(NoTask) /\ IdentitiesOK' /\ LocksKept(NoTask)
  BY <1>1, SameRows DEF IntakeInv, LocksKept
<1>11. \A u \in Tasks : PromiseOK(u)'
  BY <1>1, <1>8, <1>10, TasksAssumption, PromisesKept
<1>12. QED
  BY <1>9, <1>10, <1>11 DEF IntakeInv, PromisesOK

LEMMA StepIntake ==
  ASSUME BaseInv, OwnersOK, IntakeInv, [Next]_vars
  PROVE  IntakeInv'
<1>1. ASSUME NEW t \in Tasks, NEW r \in Requests, CreateOrder(t, r) PROVE IntakeInv'
  BY <1>1, FindIntake DEF CreateOrder
<1>2. ASSUME NEW t \in Tasks, CreateAgain(t) PROVE IntakeInv'
  <2>1. task[t].request \in Requests
        /\ \E c \in DOMAIN customers : customers[c].name = task[t].request.name
    BY <1>2 DEF CreateAgain, BaseInv, JobsOK, JobOK, IntakeInv, PromisesOK, PromiseOK
  <2>2. QED
    BY <1>2, <2>1, FindIntake DEF CreateAgain
<1>3. CASE UNCHANGED vars
  <2>1. UNCHANGED <<customers, orders, cache, rowLock, task>>
    BY <1>3 DEF vars
  <2>2. QED
    BY <2>1 DEF IntakeInv, IdentitiesOK, CopiesOK, PromisesOK, PromiseOK, IsFor, IsCopy
<1>4. QED
  BY <1>1, <1>2, <1>3, RefuseIntake, CheckedIntake, CommitIntake, RepeatCheckIntake,
     RepeatCommitIntake, BeginMoveIntake, MoveIntake, LifeIntake
     DEF Next, Life

THEOREM IntakeInvariant == Spec => [](BaseInv /\ OwnersOK /\ IntakeInv)
<1>1. Init => BaseInv /\ OwnersOK /\ IntakeInv
  BY InitBase, InitOwners, InitIntake
<1>2. BaseInv /\ OwnersOK /\ IntakeInv /\ [Next]_vars => (BaseInv /\ OwnersOK /\ IntakeInv)'
  BY StepOwners, StepIntake
<1>3. QED
  BY <1>1, <1>2, PTL DEF Spec

\* A Roblox username has one verified customers row at most, although no index is on the name:
\* create_order and refresh_customer only commit what the unique index on the identity allows.
THEOREM NamesAreUnique == Spec => []OneCustomerPerName
<1>1. IntakeInv => OneCustomerPerName
  <2> SUFFICES ASSUME IntakeInv, NEW c \in DOMAIN customers, NEW d \in DOMAIN customers,
                      customers[c].name = customers[d].name,
                      customers[c].uid # NoUid, customers[d].uid # NoUid
               PROVE  c = d
    BY DEF OneCustomerPerName
  <2>1. PICK q \in Requests, r \in Requests : IsFor(c, q) /\ IsFor(d, r)
    BY DEF IntakeInv, IdentitiesOK
  <2>2. customers[c].uid = customers[d].uid
    BY <2>1, IdentitiesAssumption DEF IsFor
  <2>3. QED
    BY <2>2 DEF IntakeInv, IdentitiesOK
<1>2. QED
  BY <1>1, IntakeInvariant, PTL

\* create_order need not try a third time: whoever caused the IntegrityError of the first try has
\* left the row and the place the second one finds.  Only beside a row without an identity may
\* somebody have inserted the verified one again.
THEOREM SecondTrySucceeds == Spec => []OneRetryIsEnough
<1>1. BaseInv /\ IntakeInv => OneRetryIsEnough
  <2> SUFFICES ASSUME BaseInv, IntakeInv, NEW t \in Tasks, task[t].pc = "commit", task[t].tries = 1,
                      Conflict(t)
               PROVE  task[t].row # NoRow /\ customers[task[t].row].uid = NoUid
    BY DEF OneRetryIsEnough
  <2>1. task[t].row # NoRow /\ task[t].remembered /\ task[t].row \in DOMAIN customers
    BY DEF IntakeInv, PromisesOK, PromiseOK, BaseInv, JobsOK, JobOK, Locked
  <2>2. PICK c \in DOMAIN customers \ {task[t].row} :
          task[t].request.uid # NoUid /\ customers[c].uid = task[t].request.uid
    BY <2>1 DEF Conflict
  <2>3. customers[task[t].row].uid \in {NoUid, task[t].request.uid}
    BY <2>1, <2>2 DEF IntakeInv, PromisesOK, PromiseOK
  <2>4. customers[task[t].row].uid # task[t].request.uid
    BY <2>1, <2>2 DEF IntakeInv, IdentitiesOK
  <2>5. QED
    BY <2>1, <2>3, <2>4
<1>2. QED
  BY <1>1, IntakeInvariant, PTL

\* repeat_order makes no second recent copy to be bought for a customer: the copy before it was
\* committed under the lock of the same row, and is seen.
THEOREM CopiesAreSingle == Spec => []RepeatNeverDuplicates
<1>1. OwnersOK /\ IntakeInv => RepeatNeverDuplicates
  BY DEF IntakeInv, CopiesOK, IsCopy, RepeatNeverDuplicates
<1>2. QED
  BY <1>1, IntakeInvariant, PTL

LEMMA OnlyCommits ==
  ASSUME BaseInv, [Next]_vars, NEW t \in Tasks, task[t].pc = "commit", task'[t] = Idle, orders' # orders
  PROVE  CreateCommit(t)
<1>1. ASSUME NEW u \in Tasks, NEW j, Goto(u, j) PROVE u = t
  <2>1. Only(u)
    BY <1>1, OnlyOne DEF BaseInv
  <2>2. QED
    BY <2>1 DEF Only, Idle
<1>2. ASSUME UNCHANGED task PROVE FALSE
  BY <1>2 DEF Idle
<1>3. PICK u \in Tasks : CreateCommit(u) \/ RepeatCommit(u)
  <2>1. ~UNCHANGED vars
    BY DEF vars
  <2>2. ~\E o \in DOMAIN orders : Life(o)
    BY <1>2, LifeFrame
  <2>3. QED
    BY <2>1, <2>2 DEF Next, Life, CreateOrder, CreateAgain, FindCustomer, CreateRefused, Refuse, CreateChecked,
       CreateConflict, Retry, RepeatCheck, BeginMove, MoveCommit, MoveFails
<1>4. u = t
  BY <1>1, <1>3 DEF CreateCommit, RepeatCommit
<1>5. QED
  BY <1>3, <1>4 DEF RepeatCommit

\* A Draft is created beside no purchase of a similar order of its customer, unless it was asked for:
\* start_purchase locks the customer create_order has checked, and whoever inserted the customer that
\* create_order has not found makes it fail.
THEOREM DraftsAreApart == Spec => NoDraftBesidePurchase
<1>1. ASSUME BaseInv, OwnersOK, IntakeInv, [Next]_vars, NEW t \in Tasks, task[t].pc = "commit",
             Len(orders') > Len(orders), task'[t] = Idle, ~task[t].request.allow,
             NEW o \in DOMAIN orders, IsForSameCustomer(o, t)
      PROVE  orders[o].status # "purchasing"
  <2> DEFINE r == task[t].request
             row == task[t].row
  <2>1. orders' # orders
    BY <1>1 DEF OwnersOK
  <2>2. CreateCommit(t)
    BY <1>1, <2>1, OnlyCommits
  <2>3. orders[o].customer \in DOMAIN customers /\ NoRow \notin DOMAIN customers
    BY <1>1 DEF OwnersOK, BaseInv, RowsOK, NoRow
  <2>4. r.uid # NoUid => \A c \in DOMAIN customers \ {row} : customers[c].uid # r.uid
    BY <2>2 DEF CreateCommit, Conflict
  <2>5. orders[o].customer = row /\ row # NoRow
    BY <1>1, <2>3, <2>4 DEF IsForSameCustomer
  <2>6. QED
    BY <1>1, <2>5 DEF IntakeInv, PromisesOK, PromiseOK
<1>2. BaseInv /\ OwnersOK /\ IntakeInv /\ [Next]_vars =>
        [\A t \in Tasks :
           /\ task[t].pc = "commit" /\ Len(orders') > Len(orders)
           /\ task'[t] = Idle
           /\ ~task[t].request.allow
           => \A o \in DOMAIN orders : IsForSameCustomer(o, t) => orders[o].status # "purchasing"]_vars
  BY <1>1
<1>3. QED
  BY <1>2, IntakeInvariant, PTL DEF Spec, NoDraftBesidePurchase

=============================================================================
