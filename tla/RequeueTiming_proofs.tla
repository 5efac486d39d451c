-------------------------- MODULE RequeueTiming_proofs --------------------------
(***************************************************************************)
(* That RBXCrate's answer is about the attempt it decides on, and that     *)
(* automation keeps its number of attempts and their delays, for any       *)
(* number of orders and coroutines and any guards and tiers of delays.     *)
(*                                                                         *)
(* The first inductive invariant says which locks a replacement holds at   *)
(* each step (LockInv), the second what automation may still count on of   *)
(* what it counted before it waited (AttemptInv).  The counts are          *)
(* cardinalities of sets of rows, which only grow by one per row.          *)
(***************************************************************************)
EXTENDS RequeueTiming, FiniteSetTheorems, TLAPS

LocksOK(t) ==
    /\ task[t].pc \in {"syncLock", "syncAnswer", "requeueLock", "requeueCustomer", "requeueAnswer"} =>
         task[t].order \in Orders
    /\ task[t].pc \in {"requeueCustomer", "requeueAnswer"} => rowLock[task[t].order] = t
    /\ task[t].pc = "requeueAnswer" =>
         /\ customerLock = t
         /\ started[task[t].order] + FreshGuard <= task[t].asked

TimesOK == now \in Nat /\ started \in [Orders -> Nat]

LockInv ==
    /\ TimesOK
    /\ DOMAIN rowLock = Orders
    /\ DOMAIN task = Tasks
    /\ \A t \in Tasks : LocksOK(t)

LEMMA InitLocks == Init => LockInv
BY BoundsAssumption DEF Init, LockInv, TimesOK, LocksOK, Idle

\* What a step of one coroutine is, to the others.
Only(t) == DOMAIN task' = Tasks /\ \A u \in Tasks \ {t} : task'[u] = task[u]

LEMMA OnlyOne ==
  ASSUME LockInv, NEW t \in Tasks, NEW j, Goto(t, j)
  PROVE  Only(t) /\ task'[t] = j
BY DEF Goto, LockInv, Only

\* The others hold what they held, and the attempts they have locked stay.
LEMMA OthersKept ==
  ASSUME LockInv, NEW t \in Tasks, Only(t), LocksOK(t)', TimesOK', DOMAIN rowLock' = Orders,
         \A o \in Orders : rowLock[o] \in Tasks \ {t} =>
            rowLock'[o] = rowLock[o] /\ started'[o] = started[o],
         customerLock \in Tasks \ {t} => customerLock' = customerLock
  PROVE  LockInv'
<1> SUFFICES ASSUME NEW u \in Tasks \ {t} PROVE LocksOK(u)'
  BY DEF LockInv, Only
<1>1. task'[u] = task[u] /\ LocksOK(u)
  BY DEF LockInv, Only
<1>2. QED
  BY <1>1 DEF LocksOK

LEMMA Ending ==
  ASSUME LockInv, NEW t \in Tasks, EndTransaction(t), TimesOK',
         \A o \in Orders : rowLock[o] # t => started'[o] = started[o]
  PROVE  LockInv'
<1>1. Only(t) /\ task'[t] = Idle
  BY OnlyOne DEF EndTransaction
<1>2. LocksOK(t)'
  BY <1>1 DEF LocksOK, Idle
<1>3. /\ DOMAIN rowLock' = Orders
      /\ \A o \in Orders : rowLock[o] \in Tasks \ {t} => rowLock'[o] = rowLock[o]
      /\ customerLock \in Tasks \ {t} => customerLock' = customerLock
  BY DEF EndTransaction
<1>4. QED
  BY <1>1, <1>2, <1>3, OthersKept

\* Coroutines that go on without a lock, or with those they had.
LEMMA GoingOn ==
  ASSUME LockInv, NEW t \in Tasks, Only(t), LocksOK(t)', UNCHANGED <<now, started, rowLock, customerLock>>
  PROVE  LockInv'
BY OthersKept DEF LockInv, TimesOK

LEMMA StepLocks == LockInv /\ [Next]_vars => LockInv'
<1> SUFFICES ASSUME LockInv, [Next]_vars PROVE LockInv'
  OBVIOUS
<1>1. CASE Tick
  BY <1>1 DEF Tick, persisted, LockInv, TimesOK, LocksOK
<1>2. ASSUME NEW t \in Tasks, NEW o \in Orders, SyncRead(t, o) PROVE LockInv'
  <2>1. Only(t) /\ task'[t] = [pc |-> "syncLock", order |-> o, started |-> started[o], guards |-> guards[o]]
    BY <1>2, OnlyOne DEF SyncRead
  <2>2. LocksOK(t)'
    BY <2>1 DEF LocksOK
  <2>3. QED
    BY <1>2, <2>1, <2>2, GoingOn DEF SyncRead, persisted
<1>3. ASSUME NEW t \in Tasks, NEW o \in Orders, RequeueOpen(t, o) PROVE LockInv'
  <2>1. Only(t) /\ task'[t] = [pc |-> "requeueLock", order |-> o, opened |-> now]
    BY <1>3, OnlyOne DEF RequeueOpen
  <2>2. LocksOK(t)'
    BY <2>1 DEF LocksOK
  <2>3. QED
    BY <1>3, <2>1, <2>2, GoingOn DEF RequeueOpen, persisted
<1>4. ASSUME NEW t \in Tasks, SyncPoll(t) PROVE LockInv'
  <2> DEFINE o == task[t].order
             j == [pc |-> "syncAnswer", order |-> o, started |-> task[t].started,
                   guards |-> task[t].guards, asked |-> now]
  <2>1. Only(t) /\ task'[t] = j
    BY <1>4, OnlyOne DEF SyncPoll
  <2>2. o \in Orders
    BY <1>4 DEF SyncPoll, LockInv, LocksOK
  <2>3. LocksOK(t)'
    BY <2>1, <2>2 DEF LocksOK
  <2>4. /\ rowLock' = [rowLock EXCEPT ![o] = t] /\ rowLock[o] = NoTask
        /\ UNCHANGED <<now, started, customerLock>>
    BY <1>4 DEF SyncPoll, Free, persisted
  <2>5. QED
    BY <2>1, <2>2, <2>3, <2>4, OthersKept, TaskAssumption DEF LockInv, TimesOK
<1>5. ASSUME NEW t \in Tasks, SyncAnswer(t) \/ RequeueRetained(t) \/ RequeueExhausted(t) \/ GiveUp(t)
      PROVE  LockInv'
  <2>1. EndTransaction(t) /\ UNCHANGED started
    BY <1>5 DEF SyncAnswer, RequeueRetained, RequeueExhausted, GiveUp, persisted
  <2>2. TimesOK'
    BY <2>1 DEF EndTransaction, LockInv, TimesOK
  <2>3. QED
    BY <2>1, <2>2, Ending
<1>6. ASSUME NEW t \in Tasks, RequeueLockOrder(t) PROVE LockInv'
  <2> DEFINE o == task[t].order
             j == [pc |-> "requeueCustomer", order |-> o, opened |-> task[t].opened, now |-> now]
  <2>1. Only(t) /\ task'[t] = j
    BY <1>6, OnlyOne DEF RequeueLockOrder
  <2>2. o \in Orders
    BY <1>6 DEF RequeueLockOrder, LockInv, LocksOK
  <2>3. /\ rowLock' = [rowLock EXCEPT ![o] = t] /\ rowLock[o] = NoTask
        /\ UNCHANGED <<now, started, customerLock>>
    BY <1>6 DEF RequeueLockOrder, Free, persisted
  <2>4. DOMAIN rowLock' = Orders /\ rowLock'[o] = t
    BY <2>2, <2>3 DEF LockInv
  <2>5. LocksOK(t)'
    BY <2>1, <2>2, <2>4 DEF LocksOK
  <2>6. QED
    BY <2>1, <2>2, <2>3, <2>4, <2>5, OthersKept, TaskAssumption DEF LockInv, TimesOK
<1>7. ASSUME NEW t \in Tasks, RequeuePoll(t) PROVE LockInv'
  <2> DEFINE o == task[t].order
             j == [pc |-> "requeueAnswer", order |-> o, opened |-> task[t].opened, asked |-> now]
  <2>1. Only(t) /\ task'[t] = j
    BY <1>7, OnlyOne DEF RequeuePoll
  <2>2. o \in Orders /\ rowLock[o] = t
    BY <1>7 DEF RequeuePoll, LockInv, LocksOK
  <2>3. customerLock = NoTask /\ customerLock' = t /\ UNCHANGED <<now, started, rowLock>>
    BY <1>7 DEF RequeuePoll, persisted
  <2>4. started[o] + FreshGuard <= now
    BY <1>7, <2>2, BoundsAssumption DEF RequeuePoll, Due, LockInv, TimesOK
  <2>5. LocksOK(t)'
    BY <2>1, <2>2, <2>3, <2>4 DEF LocksOK
  <2>6. QED
    BY <2>1, <2>3, <2>5, OthersKept, TaskAssumption DEF LockInv, TimesOK
<1>8. ASSUME NEW t \in Tasks, RequeueReplaced(t) PROVE LockInv'
  <2> DEFINE o == task[t].order
  <2>1. o \in Orders /\ rowLock[o] = t
    BY <1>8 DEF RequeueReplaced, LockInv, LocksOK
  <2>2. started' = [started EXCEPT ![o] = now] /\ EndTransaction(t)
    BY <1>8 DEF RequeueReplaced
  <2>3. TimesOK'
    BY <2>1, <2>2 DEF EndTransaction, LockInv, TimesOK
  <2>4. \A p \in Orders : rowLock[p] # t => started'[p] = started[p]
    BY <2>1, <2>2 DEF LockInv, TimesOK
  <2>5. QED
    BY <2>2, <2>3, <2>4, Ending
<1>9. ASSUME NEW o \in Orders, Toggle(o) PROVE LockInv'
  BY <1>9 DEF Toggle, LockInv, TimesOK, LocksOK
<1>10. CASE UNCHANGED vars
  BY <1>10 DEF vars, LockInv, TimesOK, LocksOK
<1>11. QED
  BY <1>1, <1>2, <1>3, <1>4, <1>5, <1>6, <1>7, <1>8, <1>9, <1>10 DEF Next

\* Whoever replaces an attempt asked RBXCrate about that same attempt, which stayed locked.
THEOREM AnswersAreCurrent == Spec => []AnswerIsCurrent
<1>1. LockInv => AnswerIsCurrent
  BY DEF LockInv, LocksOK, AnswerIsCurrent
<1>2. QED
  BY <1>1, InitLocks, StepLocks, PTL DEF Spec

-----------------------------------------------------------------------------
(***************************************************************************)
(* What automation counts on.  The smallest tier that reaches an attempt   *)
(* number exists, later tiers do not shorten the delay, and the number of  *)
(* rows since a moment does not grow as the moment moves on.               *)
(***************************************************************************)
LEMMA LeastIn ==
  ASSUME NEW S \in SUBSET Nat, S # {}
  PROVE  Min(S) \in S /\ \A n \in S : Min(S) <= n
<1> DEFINE R == OpToRel(<, Nat)
<1>1. IsWellFoundedOn(R, Nat)
  BY NatLessThanWellFounded
<1>2. \A m, n \in Nat : m < n => <<m, n>> \in R
  BY DEF OpToRel
<1> HIDE DEF R
<1>3. PICK m \in S : \A n \in S : ~ (<<n, m>> \in R)
  BY <1>1, WFMin
<1>4. ASSUME NEW n \in S PROVE m <= n
  <2>1. m \in Nat /\ n \in Nat /\ ~ (n < m)
    BY <1>2, <1>3
  <2>2. QED
    BY <2>1
<1>5. QED
  BY <1>4 DEF Min

Reaching(k) == {i \in DOMAIN DelayTiers : k <= DelayTiers[i][1]}

LEMMA LimitType == Limit \in Nat
BY TiersAssumption DEF Limit

LEMMA TierReaching ==
  ASSUME NEW k \in Nat \ {0}, HasDelay(k)
  PROVE  /\ Reaching(k) \in SUBSET Nat /\ Reaching(k) # {}
         /\ Min(Reaching(k)) \in DOMAIN DelayTiers
         /\ \A i \in Reaching(k) : Min(Reaching(k)) <= i
         /\ RequeueDelay(k) = DelayTiers[Min(Reaching(k))][2]
<1>1. DelayTiers # <<>> /\ Len(DelayTiers) \in DOMAIN DelayTiers /\ Limit = DelayTiers[Len(DelayTiers)][1]
  BY TiersAssumption DEF HasDelay, Limit
<1>2. Len(DelayTiers) \in Reaching(k)
  BY <1>1 DEF HasDelay, Reaching
<1>3. Reaching(k) \in SUBSET Nat
  BY TiersAssumption DEF Reaching
<1>4. Min(Reaching(k)) \in Reaching(k) /\ \A i \in Reaching(k) : Min(Reaching(k)) <= i
  BY <1>2, <1>3, LeastIn
<1>5. QED
  BY <1>2, <1>3, <1>4 DEF Reaching, RequeueDelay

LEMMA DelaysGrow ==
  ASSUME NEW j \in Nat \ {0}, NEW k \in Nat \ {0}, j <= k, HasDelay(k)
  PROVE  /\ HasDelay(j)
         /\ RequeueDelay(j) \in Nat /\ RequeueDelay(k) \in Nat
         /\ RequeueDelay(j) <= RequeueDelay(k)
<1>1. HasDelay(j)
  BY LimitType DEF HasDelay
<1>2. Reaching(k) \subseteq Reaching(j)
  BY TiersAssumption DEF Reaching
<1>3. \A i \in DOMAIN DelayTiers : DelayTiers[i][2] \in Nat
  BY TiersAssumption
<1> DEFINE a == Min(Reaching(j))
           b == Min(Reaching(k))
<1>4. a \in DOMAIN DelayTiers /\ RequeueDelay(j) = DelayTiers[a][2] /\ \A i \in Reaching(j) : a <= i
  BY <1>1, TierReaching
<1>5. b \in DOMAIN DelayTiers /\ RequeueDelay(k) = DelayTiers[b][2] /\ b \in Reaching(k)
  BY TierReaching, LeastIn
<1> HIDE DEF a, b
<1>6. a \in Nat /\ b \in Nat /\ a <= b
  BY <1>2, <1>4, <1>5, TiersAssumption
<1>7. DelayTiers[a][2] <= DelayTiers[b][2]
  <2>1. CASE a = b
    BY <2>1, <1>3, <1>4
  <2>2. CASE a < b
    BY <2>2, <1>4, <1>5, TiersAssumption
  <2>3. QED
    BY <2>1, <2>2, <1>6
<1>8. QED
  BY <1>1, <1>3, <1>4, <1>5, <1>7

Counted(rows, since) == {n \in DOMAIN rows : rows[n] >= since}

LEMMA CountedFinite ==
  ASSUME NEW rows \in Seq(Nat), NEW since \in Nat
  PROVE  IsFiniteSet(Counted(rows, since)) /\ CountSince(rows, since) \in Nat
<1>1. DOMAIN rows = 1 .. Len(rows) /\ Len(rows) \in Nat
  OBVIOUS
<1>2. IsFiniteSet(DOMAIN rows)
  BY <1>1, FS_Interval
<1>3. Counted(rows, since) \in SUBSET DOMAIN rows
  BY DEF Counted
<1>4. IsFiniteSet(Counted(rows, since))
  BY <1>2, <1>3, FS_Subset
<1>5. QED
  BY <1>4, FS_CardinalityType DEF CountSince, Counted

LEMMA CountShrinks ==
  ASSUME NEW rows \in Seq(Nat), NEW a \in Nat, NEW b \in Nat, a <= b
  PROVE  CountSince(rows, b) <= CountSince(rows, a)
<1>1. Counted(rows, b) \in SUBSET Counted(rows, a)
  BY DEF Counted
<1>2. IsFiniteSet(Counted(rows, a))
  BY CountedFinite
<1>3. QED
  BY <1>1, <1>2, FS_Subset DEF CountSince, Counted

LEMMA CountOneMore ==
  ASSUME NEW rows \in Seq(Nat), NEW c \in Nat, NEW since \in Nat
  PROVE  CountSince(Append(rows, c), since) <= CountSince(rows, since) + 1
<1> DEFINE m == Len(rows) + 1
           S == Counted(rows, since)
           T == Counted(Append(rows, c), since)
<1>1. IsFiniteSet(S) /\ Cardinality(S) \in Nat
  BY CountedFinite, FS_CardinalityType
<1>3. T \in SUBSET (S \cup {m})
  BY DEF Counted
<1> HIDE DEF S, T, m
<1>2. IsFiniteSet(S \cup {m}) /\ Cardinality(S \cup {m}) <= Cardinality(S) + 1
  <2>1. /\ IsFiniteSet(S \cup {m})
        /\ Cardinality(S \cup {m}) = IF m \in S THEN Cardinality(S) ELSE Cardinality(S) + 1
    BY <1>1, FS_AddElement
  <2>2. QED
    BY <1>1, <2>1
<1>4. Cardinality(T) <= Cardinality(S \cup {m}) /\ IsFiniteSet(T)
  BY <1>2, <1>3, FS_Subset
<1>5. Cardinality(T) \in Nat /\ Cardinality(S \cup {m}) \in Nat
  BY <1>2, <1>4, FS_CardinalityType
<1>6. Cardinality(T) <= Cardinality(S) + 1
  BY <1>1, <1>2, <1>4, <1>5
<1>7. QED
  BY <1>6 DEF S, T, CountSince, Counted

LEMMA SinceMoves ==
  ASSUME NEW a \in Nat, NEW b \in Nat, a <= b
  PROVE  Since(a, Window) \in Nat /\ Since(b, Window) \in Nat /\ Since(a, Window) <= Since(b, Window)
BY BoundsAssumption DEF Since

-----------------------------------------------------------------------------
(***************************************************************************)
(* The inductive invariant about attempts: the anchor of an order's delay  *)
(* is when its attempt was made, and while automation waits for RBXCrate   *)
(* some attempt number k is still good for it: fewer than k attempts were  *)
(* made in the window, and the delay of k has elapsed.                     *)
(***************************************************************************)
made == [o \in Orders |-> MadeAt(o)]

RowsOK ==
    /\ created \in Seq(Nat)
    /\ createdAt \in [Orders -> Nat]
    /\ DOMAIN requeuedAt = Orders
    /\ \A o \in Orders : requeuedAt[o] \in {NoTime, started[o]}

OpenedOK(t) ==
    task[t].pc \in {"requeueLock", "requeueCustomer", "requeueAnswer"} => task[t].opened \in Nat

GoodFor(k, rows, a, times) ==
    /\ CountSince(rows, Since(a.asked, Window)) < k
    /\ a.asked - times[a.order] >= RequeueDelay(k)

AutomationOK(rows, times, a, time) ==
    /\ a.pc = "requeueCustomer" => a.now \in Nat /\ a.now <= time
    /\ a.pc = "requeueAnswer" =>
         /\ a.asked \in Nat /\ a.asked <= time
         /\ \E k \in 1 .. Limit : GoodFor(k, rows, a, times)

AttemptInv ==
    /\ RowsOK
    /\ \A t \in Tasks : OpenedOK(t)
    /\ AutomationOK(created, made, task[Automation], now)

LEMMA InitAttempts == Init => AttemptInv
<1> SUFFICES ASSUME Init PROVE AttemptInv
  OBVIOUS
<1>1. Cardinality(Orders) \in Nat
  BY OrdersAssumption, FS_CardinalityType
<1>2. RowsOK
  BY <1>1 DEF Init, RowsOK
<1>3. \A t \in Tasks : task[t].pc = "idle"
  BY DEF Init, Idle
<1>4. QED
  BY <1>2, <1>3, TaskAssumption DEF AttemptInv, OpenedOK, AutomationOK

\* Steps that leave the attempts and automation's coroutine as they are.
LEMMA Undisturbed ==
  ASSUME LockInv, AttemptInv, UNCHANGED <<created, requeuedAt, createdAt, started>>,
         now' \in Nat, now <= now',
         task'[Automation] = task[Automation], \A t \in Tasks : OpenedOK(t)'
  PROVE  AttemptInv'
<1>1. RowsOK'
  BY DEF AttemptInv, RowsOK
<1>2. AutomationOK(created, made, task[Automation], now')
  BY DEF AttemptInv, AutomationOK, LockInv, TimesOK
<1>3. made' = made
  BY DEF made, MadeAt
<1>4. QED
  BY <1>1, <1>2, <1>3 DEF AttemptInv

\* Steps of one coroutine that leave the attempts as they are.
LEMMA OneMoves ==
  ASSUME LockInv, AttemptInv, UNCHANGED <<created, requeuedAt, createdAt, started, now>>,
         NEW t \in Tasks, Only(t), OpenedOK(t)',
         t = Automation => AutomationOK(created, made, task'[t], now)
  PROVE  AttemptInv'
<1>1. RowsOK'
  BY DEF AttemptInv, RowsOK
<1>2. \A u \in Tasks : OpenedOK(u)'
  BY DEF AttemptInv, OpenedOK, Only
<1>3. AutomationOK(created, made, task'[Automation], now)
  BY TaskAssumption DEF AttemptInv, Only
<1>4. made' = made
  BY DEF made, MadeAt
<1>5. QED
  BY <1>1, <1>2, <1>3, <1>4 DEF AttemptInv

\* The anchor of the delay is when the attempt was made.
LEMMA AnchorIsMade ==
  ASSUME LockInv, RowsOK, NEW o \in Orders
  PROVE  made[o] \in Nat /\ Anchor(o) = made[o] /\ MadeAt(o) = made[o]
<1>1. made[o] = IF requeuedAt[o] = NoTime THEN createdAt[o] ELSE started[o]
  BY DEF made, MadeAt
<1>2. createdAt[o] \in Nat /\ started[o] \in Nat /\ requeuedAt[o] \in {NoTime, started[o]}
  BY DEF LockInv, TimesOK, RowsOK
<1>3. QED
  BY <1>1, <1>2 DEF Anchor, MadeAt

\* Automation asks RBXCrate: the number of its next attempt is good for it.
LEMMA AutomationAsks ==
  ASSUME LockInv, AttemptInv, RequeuePoll(Automation)
  PROVE  AutomationOK(created, made, task'[Automation], now)
<1> DEFINE t == Automation
           o == task[t].order
           a == task'[t]
           k == NextAttempt(t)
<1>1. /\ a = [pc |-> "requeueAnswer", order |-> o, opened |-> task[t].opened, asked |-> now]
      /\ task[t].pc = "requeueCustomer"
      /\ HasDelay(k) /\ task[t].now - Anchor(o) >= RequeueDelay(k)
  BY OnlyOne, TaskAssumption DEF RequeuePoll
<1>2. o \in Orders /\ now \in Nat /\ task[t].now \in Nat /\ task[t].now <= now
  BY <1>1, TaskAssumption DEF LockInv, LocksOK, TimesOK, AttemptInv, AutomationOK
<1>3. Anchor(o) = made[o] /\ made[o] \in Nat
  BY <1>2, AnchorIsMade DEF AttemptInv
<1>4. created \in Seq(Nat)
  BY DEF AttemptInv, RowsOK
<1> DEFINE before == Since(task[t].now, Window)
           later == Since(now, Window)
<1>5. before \in Nat /\ later \in Nat /\ before <= later
  BY <1>2, SinceMoves
<1>6. /\ CountSince(created, before) \in Nat /\ CountSince(created, later) \in Nat
      /\ CountSince(created, later) <= CountSince(created, before)
  BY <1>4, <1>5, CountedFinite, CountShrinks
<1>7. k = CountSince(created, before) + 1
  BY DEF NextAttempt
<1> HIDE DEF before, later, k
<1>8. k \in 1 .. Limit /\ CountSince(created, later) < k
  BY <1>1, <1>6, <1>7, LimitType DEF HasDelay
<1>9. RequeueDelay(k) \in Nat
  BY <1>1, <1>8, LimitType, DelaysGrow
<1>10. now - made[o] >= RequeueDelay(k)
  BY <1>1, <1>2, <1>3, <1>9
<1>11. GoodFor(k, created, a, made)
  BY <1>1, <1>8, <1>10 DEF GoodFor, later
<1>12. QED
  BY <1>1, <1>2, <1>8, <1>11 DEF AutomationOK

LEMMA StepAttempts == LockInv /\ AttemptInv /\ [Next]_vars => AttemptInv'
<1> SUFFICES ASSUME LockInv, AttemptInv, [Next]_vars PROVE AttemptInv'
  OBVIOUS
<1>0. now \in Nat
  BY DEF LockInv, TimesOK
<1>1. CASE Tick
  <2>1. now' \in Nat /\ now <= now' /\ UNCHANGED <<created, requeuedAt, createdAt, started, task>>
    BY <1>1, <1>0 DEF Tick, persisted
  <2>2. \A t \in Tasks : OpenedOK(t)'
    BY <2>1 DEF AttemptInv, OpenedOK
  <2>3. QED
    BY <2>1, <2>2, Undisturbed
<1>2. CASE UNCHANGED vars \/ \E o \in Orders : Toggle(o)
  <2>1. UNCHANGED <<created, requeuedAt, createdAt, started, task, now>>
    BY <1>2 DEF Toggle, vars
  <2>2. \A t \in Tasks : OpenedOK(t)'
    BY <2>1 DEF AttemptInv, OpenedOK
  <2>3. QED
    BY <2>1, <2>2, <1>0, Undisturbed
<1>3. ASSUME NEW t \in Tasks, NEW o \in Orders, SyncRead(t, o) \/ RequeueOpen(t, o) PROVE AttemptInv'
  <2>1. /\ UNCHANGED <<created, requeuedAt, createdAt, started, now>>
        /\ Only(t)
        /\ \/ task'[t] = [pc |-> "syncLock", order |-> o, started |-> started[o], guards |-> guards[o]]
           \/ task'[t] = [pc |-> "requeueLock", order |-> o, opened |-> now]
    BY <1>3, OnlyOne DEF SyncRead, RequeueOpen, persisted
  <2>2. OpenedOK(t)' /\ AutomationOK(created, made, task'[t], now)
    BY <1>0, <2>1 DEF OpenedOK, AutomationOK
  <2>3. QED
    BY <2>1, <2>2, OneMoves
<1>4. ASSUME NEW t \in Tasks, SyncPoll(t) PROVE AttemptInv'
  <2> DEFINE o == task[t].order
  <2>1. /\ UNCHANGED <<created, requeuedAt, createdAt, started, now>>
        /\ Only(t)
        /\ task'[t] = [pc |-> "syncAnswer", order |-> o, started |-> task[t].started,
                       guards |-> task[t].guards, asked |-> now]
    BY <1>4, OnlyOne DEF SyncPoll, persisted
  <2>2. OpenedOK(t)' /\ AutomationOK(created, made, task'[t], now)
    BY <2>1 DEF OpenedOK, AutomationOK
  <2>3. QED
    BY <2>1, <2>2, OneMoves
<1>5. ASSUME NEW t \in Tasks, SyncAnswer(t) \/ RequeueRetained(t) \/ RequeueExhausted(t) \/ GiveUp(t)
      PROVE  AttemptInv'
  <2>1. EndTransaction(t) /\ UNCHANGED <<created, requeuedAt, createdAt, started>>
    BY <1>5 DEF SyncAnswer, RequeueRetained, RequeueExhausted, GiveUp, persisted
  <2>2. Only(t) /\ task'[t] = Idle /\ UNCHANGED now
    BY <2>1, OnlyOne DEF EndTransaction
  <2>3. OpenedOK(t)' /\ AutomationOK(created, made, task'[t], now)
    BY <2>2 DEF OpenedOK, AutomationOK, Idle
  <2>4. QED
    BY <2>1, <2>2, <2>3, OneMoves
<1>6. ASSUME NEW t \in Tasks, RequeueLockOrder(t) PROVE AttemptInv'
  <2> DEFINE o == task[t].order
  <2>1. /\ UNCHANGED <<created, requeuedAt, createdAt, started, now>>
        /\ Only(t) /\ task[t].pc = "requeueLock"
        /\ task'[t] = [pc |-> "requeueCustomer", order |-> o, opened |-> task[t].opened, now |-> now]
    BY <1>6, OnlyOne DEF RequeueLockOrder, persisted
  <2>2. OpenedOK(t)' /\ AutomationOK(created, made, task'[t], now)
    BY <1>0, <2>1 DEF OpenedOK, AutomationOK, AttemptInv
  <2>3. QED
    BY <2>1, <2>2, OneMoves
<1>7. ASSUME NEW t \in Tasks, RequeuePoll(t) PROVE AttemptInv'
  <2> DEFINE o == task[t].order
  <2>1. /\ UNCHANGED <<created, requeuedAt, createdAt, started, now>>
        /\ Only(t) /\ task[t].pc = "requeueCustomer"
        /\ task'[t] = [pc |-> "requeueAnswer", order |-> o, opened |-> task[t].opened, asked |-> now]
    BY <1>7, OnlyOne DEF RequeuePoll, persisted
  <2>2. OpenedOK(t)'
    BY <2>1 DEF OpenedOK, AttemptInv
  <2>3. t = Automation => AutomationOK(created, made, task'[t], now)
    BY <1>7, AutomationAsks
  <2>4. QED
    BY <2>1, <2>2, <2>3, OneMoves
<1>8. ASSUME NEW t \in Tasks, RequeueReplaced(t) PROVE AttemptInv'
  <2> DEFINE o == task[t].order
  <2>1. /\ started' = [started EXCEPT ![o] = now] /\ requeuedAt' = [requeuedAt EXCEPT ![o] = now]
        /\ createdAt' = [createdAt EXCEPT ![o] = task[t].opened]
        /\ created' = Append(created, task[t].opened) /\ task[t].pc = "requeueAnswer"
        /\ EndTransaction(t)
    BY <1>8 DEF RequeueReplaced
  <2>2. Only(t) /\ task'[t] = Idle /\ UNCHANGED now
    BY <2>1, OnlyOne DEF EndTransaction
  <2>3. task[t].opened \in Nat
    BY <2>1 DEF AttemptInv, OpenedOK
  <2>4. RowsOK'
    <3>1. /\ created \in Seq(Nat) /\ createdAt \in [Orders -> Nat] /\ DOMAIN requeuedAt = Orders
          /\ \A p \in Orders : requeuedAt[p] \in {NoTime, started[p]}
          /\ started \in [Orders -> Nat]
      BY DEF AttemptInv, RowsOK, LockInv, TimesOK
    <3>2. created' \in Seq(Nat) /\ createdAt' \in [Orders -> Nat] /\ DOMAIN requeuedAt' = Orders
      <4> HIDE DEF o
      <4>1. created' = Append(created, task[t].opened)
        BY <2>1
      <4>2. createdAt' = [createdAt EXCEPT ![o] = task[t].opened]
        BY <2>1
      <4>3. created' \in Seq(Nat)
        BY <2>3, <3>1, <4>1
      <4>4. createdAt' \in [Orders -> Nat]
        BY <2>3, <3>1, <4>2
      <4>5. DOMAIN requeuedAt' = Orders
        BY <2>1, <3>1
      <4>6. QED
        BY <4>3, <4>4, <4>5
    <3>3. \A p \in Orders : requeuedAt'[p] \in {NoTime, started'[p]}
      BY <2>1, <3>1
    <3>4. QED
      BY <3>2, <3>3 DEF RowsOK
  <2>5. \A u \in Tasks : OpenedOK(u)'
    BY <2>2 DEF AttemptInv, OpenedOK, Only, Idle
  <2>6. t = Automation \/ task[Automation].pc # "requeueAnswer"
    BY <2>1, TaskAssumption DEF LockInv, LocksOK
  <2>7. AutomationOK(created', made', task'[Automation], now')
    <3>1. CASE t = Automation
      BY <3>1, <2>2 DEF AutomationOK, Idle
    <3>2. CASE t # Automation
      BY <3>2, <2>2, <2>6, TaskAssumption DEF AutomationOK, AttemptInv, Only
    <3>3. QED
      BY <3>1, <3>2
  <2>8. QED
    BY <2>4, <2>5, <2>7 DEF AttemptInv
<1>9. QED
  BY <1>1, <1>2, <1>3, <1>4, <1>5, <1>6, <1>7, <1>8 DEF Next

\* Only automation's own commit replaces an attempt for it.
LEMMA AutomationReplaces ==
  ASSUME LockInv, [Next]_vars, NEW o \in Orders, Replaces(Automation, o)
  PROVE  RequeueReplaced(Automation) /\ o = task[Automation].order
<1> DEFINE a == Automation
<1>1. a \in Tasks /\ task[a].pc = "requeueAnswer" /\ task'[a] = Idle /\ task'[a] # task[a]
  BY TaskAssumption DEF Replaces, Idle
<1>2. ASSUME NEW t \in Tasks, Only(t) PROVE t = a
  BY <1>1, <1>2 DEF Only
<1>3. started'[o] # started[o]
  BY DEF Replaces
<1>4. ~ Tick /\ ~ UNCHANGED vars /\ ~ \E p \in Orders : Toggle(p)
  BY <1>1 DEF Tick, Toggle, vars
<1>5. ASSUME NEW t \in Tasks, RequeueReplaced(t) PROVE t = a /\ o = task[a].order
  <2>1. Only(t)
    BY <1>5, OnlyOne DEF RequeueReplaced, EndTransaction
  <2>2. t = a /\ started' = [started EXCEPT ![task[a].order] = now]
    BY <2>1, <1>2, <1>5 DEF RequeueReplaced
  <2>3. QED
    BY <2>2, <1>3 DEF LockInv, TimesOK
<1>6. ASSUME NEW t \in Tasks, UNCHANGED started PROVE FALSE
  BY <1>3, <1>6
<1>7. \E t \in Tasks : RequeueReplaced(t)
  BY <1>1, <1>3, <1>4 DEF Next, SyncRead, SyncPoll, SyncAnswer, RequeueOpen, RequeueLockOrder,
     RequeueExhausted, RequeuePoll, RequeueRetained, GiveUp, persisted
<1>8. QED
  BY <1>5, <1>7

\* What holds when automation replaces an attempt.
LEMMA StillGood ==
  ASSUME LockInv, AttemptInv, RequeueReplaced(Automation)
  PROVE  /\ now' = now /\ now \in Nat
         /\ task[Automation].order \in Orders /\ made[task[Automation].order] \in Nat
         /\ now - started[task[Automation].order] >= FreshGuard
         /\ \E k \in 1 .. Limit :
              /\ CountSince(created, Since(now, Window)) < k
              /\ now - made[task[Automation].order] >= RequeueDelay(k)
<1> DEFINE a == task[Automation]
<1>1. /\ a.pc = "requeueAnswer" /\ now' = now /\ now \in Nat
      /\ a.order \in Orders /\ started[a.order] \in Nat /\ started[a.order] + FreshGuard <= a.asked
  BY TaskAssumption DEF RequeueReplaced, EndTransaction, LockInv, LocksOK, TimesOK
<1>2. a.asked \in Nat /\ a.asked <= now /\ created \in Seq(Nat) /\ made[a.order] \in Nat
  BY <1>1, AnchorIsMade DEF AttemptInv, AutomationOK, RowsOK
<1>3. PICK k \in 1 .. Limit : GoodFor(k, created, a, made)
  BY <1>1 DEF AttemptInv, AutomationOK
<1>4. k \in Nat \ {0} /\ RequeueDelay(k) \in Nat
  BY LimitType, DelaysGrow DEF HasDelay
<1> DEFINE then == Since(a.asked, Window)
           later == Since(now, Window)
<1>5. then \in Nat /\ later \in Nat /\ then <= later
  BY <1>1, <1>2, SinceMoves
<1>6. /\ CountSince(created, then) \in Nat /\ CountSince(created, later) \in Nat
      /\ CountSince(created, later) <= CountSince(created, then)
  BY <1>2, <1>5, CountedFinite, CountShrinks
<1>7. CountSince(created, then) < k /\ a.asked - made[a.order] >= RequeueDelay(k)
  BY <1>3 DEF GoodFor
<1> HIDE DEF then, later
<1>8. CountSince(created, later) < k /\ now - made[a.order] >= RequeueDelay(k)
  BY <1>1, <1>2, <1>4, <1>6, <1>7
<1>9. now - started[a.order] >= FreshGuard
  BY <1>1, <1>2, BoundsAssumption
<1>10. QED
  BY <1>1, <1>2, <1>8, <1>9 DEF later

\* Automation never exceeds the limit of attempts per window, whatever the operator and the
\* customer's other orders did while it waited.
THEOREM AutomationStaysWithinLimit == Spec => AutomaticWithinLimit
<1>1. LockInv /\ AttemptInv /\ [Next]_vars =>
        \A o \in Orders : Replaces(Automation, o) => CountSince(created', Since(now, Window)) <= Limit
  <2> SUFFICES ASSUME LockInv, AttemptInv, [Next]_vars, NEW o \in Orders, Replaces(Automation, o)
               PROVE  CountSince(created', Since(now, Window)) <= Limit
    OBVIOUS
  <2>1. RequeueReplaced(Automation)
    BY AutomationReplaces
  <2>2. PICK k \in 1 .. Limit : CountSince(created, Since(now, Window)) < k
    BY <2>1, StillGood
  <2> DEFINE since == Since(now, Window)
             c == task[Automation].opened
  <2>3. created' = Append(created, c) /\ created \in Seq(Nat) /\ c \in Nat
    BY <2>1, TaskAssumption DEF RequeueReplaced, AttemptInv, RowsOK, OpenedOK
  <2>4. since \in Nat
    BY SinceMoves DEF LockInv, TimesOK
  <2> HIDE DEF since
  <2>5. CountSince(created, since) \in Nat
    BY <2>3, <2>4, CountedFinite
  <2>6. CountSince(created', since) \in Nat /\ CountSince(created', since) <= CountSince(created, since) + 1
    <3>1. Append(created, c) \in Seq(Nat)
      BY <2>3
    <3> HIDE DEF c
    <3>2. CountSince(Append(created, c), since) \in Nat
      BY <2>4, <3>1, CountedFinite
    <3>3. CountSince(Append(created, c), since) <= CountSince(created, since) + 1
      BY <2>3, <2>4, CountOneMore
    <3>4. QED
      BY <2>3, <3>2, <3>3
  <2>7. QED
    BY <2>2, <2>5, <2>6, LimitType DEF since
<1>2. QED
  BY <1>1, InitLocks, StepLocks, InitAttempts, StepAttempts, PTL DEF Spec, AutomaticWithinLimit

\* Automation never replaces an attempt before the fresh-purchase guard and the delay its
\* customer's attempts call for, counted from when the attempt was made.
THEOREM AutomationKeepsDelays == Spec => AutomaticIsSpaced
<1> DEFINE Next1 == CountSince(created, Since(now, Window)) + 1
<1>1. LockInv /\ AttemptInv /\ [Next]_vars =>
        \A o \in Orders :
          LET k == CountSince(created, Since(now, Window)) + 1
          IN  Replaces(Automation, o) =>
                /\ now - started[o] >= FreshGuard
                /\ HasDelay(k) => now - MadeAt(o) >= RequeueDelay(k)
  <2> SUFFICES ASSUME LockInv, AttemptInv, [Next]_vars, NEW o \in Orders, Replaces(Automation, o)
               PROVE  /\ now - started[o] >= FreshGuard
                      /\ HasDelay(Next1) => now - MadeAt(o) >= RequeueDelay(Next1)
    OBVIOUS
  <2>1. RequeueReplaced(Automation) /\ o = task[Automation].order
    BY AutomationReplaces
  <2>2. now \in Nat /\ made[o] \in Nat /\ MadeAt(o) = made[o] /\ now - started[o] >= FreshGuard
    BY <2>1, StillGood, AnchorIsMade DEF AttemptInv
  <2>3. PICK k \in 1 .. Limit :
          CountSince(created, Since(now, Window)) < k /\ now - made[o] >= RequeueDelay(k)
    BY <2>1, StillGood
  <2>4. CountSince(created, Since(now, Window)) \in Nat
    BY <2>2, SinceMoves, CountedFinite DEF AttemptInv, RowsOK
  <2>5. Next1 \in Nat \ {0} /\ k \in Nat \ {0} /\ Next1 <= k /\ HasDelay(k)
    BY <2>3, <2>4, LimitType DEF HasDelay
  <2> HIDE DEF Next1
  <2>6. RequeueDelay(Next1) <= RequeueDelay(k) /\ RequeueDelay(Next1) \in Nat /\ RequeueDelay(k) \in Nat
    BY <2>5, DelaysGrow
  <2>7. now - MadeAt(o) >= RequeueDelay(Next1)
    BY <2>2, <2>3, <2>6
  <2>8. QED
    BY <2>2, <2>7
<1>2. QED
  BY <1>1, InitLocks, StepLocks, InitAttempts, StepAttempts, PTL DEF Spec, AutomaticIsSpaced

=============================================================================
