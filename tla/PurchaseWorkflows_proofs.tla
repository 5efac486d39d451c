----------------------- MODULE PurchaseWorkflows_proofs -----------------------
(***************************************************************************)
(* Proofs about PurchaseWorkflows, for any sets of orders and coroutines   *)
(* and any number of replacements.                                         *)
(***************************************************************************)
EXTENDS PurchaseInvariant, TLAPS

Pcs == LockedPc \cup UnlockedPc

\* What TypeOK says of a coroutine that is not idle.
LEMMA TaskType ==
    ASSUME TypeOK, NEW t \in Tasks
    PROVE  /\ task[t] = Idle <=> task[t].pc = "idle"
           /\ task[t] = Idle \/ task[t].pc \in Pcs
           /\ task[t] # Idle =>
                /\ task[t].order \in Orders
                /\ task[t].id \in Ids \cup {NoId}
                /\ task[t].old \in Ids \cup {NoId}
                /\ task[t] = Job(task[t].pc, task[t].order, task[t].id, task[t].old)
<1>1. task[t] \in {Idle} \cup [pc : LockedPc \cup UnlockedPc, order : Orders,
                       id : Ids \cup {NoId}, old : Ids \cup {NoId}]
  BY DEF TypeOK
<1>2. CASE task[t] = Idle
  BY <1>2 DEF Idle
<1>3. CASE task[t] \in [pc : LockedPc \cup UnlockedPc, order : Orders,
                       id : Ids \cup {NoId}, old : Ids \cup {NoId}]
  <2>1. task[t].pc \in Pcs /\ task[t].pc # "idle"
    BY <1>3 DEF Pcs, LockedPc, UnlockedPc
  <2>2. task[t] # Idle
    BY <2>1 DEF Idle
  <2> QED BY <1>3, <2>1, <2>2 DEF Job
<1> QED BY <1>1, <1>2, <1>3

\* What a coroutine is set to is of the type TypeOK asks for, and its parts can be read
\* back.
LEMMA JobType ==
    ASSUME NEW pc \in Pcs, NEW o \in Orders, NEW n \in Ids \cup {NoId},
           NEW old \in Ids \cup {NoId}
    PROVE  /\ Job(pc, o, n, old) \in [pc : LockedPc \cup UnlockedPc, order : Orders,
                       id : Ids \cup {NoId}, old : Ids \cup {NoId}]
           /\ Job(pc, o, n, old) # Idle
           /\ Job(pc, o, n, old).pc = pc
           /\ Job(pc, o, n, old).order = o
           /\ Job(pc, o, n, old).id = n
           /\ Job(pc, o, n, old).old = old
BY DEF Pcs, LockedPc, UnlockedPc, Job, Idle

\* The id start_purchase sends is one of the ids, and ids are numbers.
LEMMA ZeroIsId == 0 \in Ids /\ Ids \subseteq Nat
BY RequeuesAssumption DEF Ids

-----------------------------------------------------------------------------
\* The orders' part of the invariant reads four variables only.
LEMMA OrdersFrame ==
    ASSUME OrdersInv, UNCHANGED <<status, attempt, remote, requested>>
    PROVE  OrdersInv'
BY DEF OrdersInv, OneActiveAttempt, PurchasingIsBacked, FinishedIsSettled, LocalMatchesRemote,
     OneMayBeLive, MayBeLive, HistoryMatchesStatus, OnlyRequested, FirstIdFirst, IsActive, HasActive

\* What every step respects: attempts do not vanish, at either side, what RBXCrate cancelled
\* stays cancelled, and what it was asked for it was asked for.
Monotone ==
    \A p \in Orders, m \in Ids :
        /\ attempt[p][m] # "none" => attempt'[p][m] # "none"
        /\ remote[p][m] # "absent" => remote'[p][m] # "absent"
        /\ remote[p][m] = "cancelled" => remote'[p][m] = "cancelled"
        /\ m \in requested[p] => m \in requested'[p]

\* A step of somebody else, as the holder of the lock of p sees it.
Untouched(p) ==
    /\ status'[p] = status[p]
    /\ attempt'[p] = attempt[p]

\* What a coroutine that does not move knows survives a step after which no attempt has
\* vanished and, if it holds a lock, its order is untouched.
LEMMA KnowledgeKept ==
    ASSUME NEW pc, NEW p \in Orders, NEW n, NEW old, KnowsOf(pc, p, n, old),
           Monotone, pc \in LockedPc => Untouched(p)
    PROVE  KnowsOf(pc, p, n, old)'
<1> USE DEF Monotone, Untouched, IsActive
<1>1. CASE pc \in {"startCreate", "startRecord"}
  BY <1>1, ZeroIsId DEF KnowsOf, LockedPc
<1>2. CASE pc \in {"requeueCancel", "requeueCreate", "requeueRecord"}
  BY <1>2 DEF KnowsOf, LockedPc
<1>3. CASE pc \notin LockedPc
  BY <1>3 DEF KnowsOf, LockedPc
<1> QED BY <1>1, <1>2, <1>3 DEF LockedPc

\* What has to be shown of a coroutine that moved.
Arrives(u) ==
    task'[u] # Idle =>
        /\ task'[u].pc \in LockedPc => lock'[task'[u].order] = u
        /\ KnowsOf(task[u].pc, task[u].order, task[u].id, task[u].old)'

\* A coroutine that moves on and knows what its new place calls for keeps TaskKnows.
LEMMA ArrivesAt ==
    ASSUME TypeOK, NEW t \in Tasks, NEW pc \in Pcs, NEW o \in Orders, NEW n \in Ids \cup {NoId},
           NEW old \in Ids \cup {NoId}, task' = [task EXCEPT ![t] = Job(pc, o, n, old)],
           pc \in LockedPc => lock'[o] = t, KnowsOf(pc, o, n, old)'
    PROVE  Arrives(t) /\ task' \in [Tasks -> {Idle}
                 \cup [pc : LockedPc \cup UnlockedPc, order : Orders,
                       id : Ids \cup {NoId}, old : Ids \cup {NoId}]]
<1>1. task'[t] = Job(pc, o, n, old)
  BY DEF TypeOK
<1>2. /\ task'[t].pc = pc
      /\ task'[t].order = o
      /\ task'[t].id = n
      /\ task'[t].old = old
  BY <1>1, JobType
<1>3. KnowsOf(task[t].pc, task[t].order, task[t].id, task[t].old)'
  BY <1>2
<1> QED BY <1>2, <1>3, JobType DEF Arrives, TypeOK

\* A coroutine that ends has nothing to know.
LEMMA ArrivesIdle ==
    ASSUME TypeOK, NEW t \in Tasks, Finish(t)
    PROVE  /\ task' = [task EXCEPT ![t] = Idle]
           /\ Arrives(t)
           /\ task' \in [Tasks -> {Idle}
                 \cup [pc : LockedPc \cup UnlockedPc, order : Orders,
                       id : Ids \cup {NoId}, old : Ids \cup {NoId}]]
BY DEF TypeOK, Finish, Goto, Arrives

\* The coroutines' part of the invariant after a step that moves some of them: those that
\* stay where they are keep their locks, and no row they lock is touched.
LEMMA TasksInvNext ==
    ASSUME TypeOK, TasksInv, NEW Moved \in SUBSET Tasks, Monotone,
           \A u \in Tasks \ Moved : task'[u] = task[u],
           \A p \in Orders : lock[p] \in Tasks \ Moved => Untouched(p) /\ lock'[p] = lock[p],
           \A u \in Moved : Arrives(u)
    PROVE  TasksInv'
<1>1. HoldsLock'
  <2> SUFFICES ASSUME NEW u \in Tasks, task'[u].pc \in LockedPc
               PROVE  lock'[task'[u].order] = u
    BY DEF HoldsLock
  <2>1. CASE u \in Moved
    BY <2>1 DEF Arrives, Idle, LockedPc
  <2>2. CASE u \notin Moved
    <3>1. task[u].order \in Orders /\ lock[task[u].order] = u
      BY <2>2, TaskType DEF TasksInv, HoldsLock, LockedPc
    <3> QED BY <2>2, <3>1
  <2> QED BY <2>1, <2>2
<1>2. TaskKnows'
  <2> SUFFICES ASSUME NEW u \in Tasks, task'[u] # Idle
               PROVE  KnowsOf(task[u].pc, task[u].order, task[u].id, task[u].old)'
    BY DEF TaskKnows
  <2>1. CASE u \in Moved
    BY <2>1 DEF Arrives
  <2>2. CASE u \notin Moved
    <3>1. PICK pc, p, n, old : /\ pc = task[u].pc /\ p = task[u].order
                               /\ n = task[u].id /\ old = task[u].old
      OBVIOUS
    <3>2. p \in Orders /\ KnowsOf(pc, p, n, old)
      BY <2>2, <3>1, TaskType DEF TasksInv, TaskKnows
    <3>3. pc \in LockedPc => Untouched(p)
      BY <2>2, <3>1, <3>2 DEF TasksInv, HoldsLock
    <3>4. KnowsOf(pc, p, n, old)'
      BY <3>2, <3>3, KnowledgeKept
    <3>5. pc = task'[u].pc /\ p = task'[u].order /\ n = task'[u].id /\ old = task'[u].old
      BY <2>2, <3>1
    <3> QED BY <3>4, <3>5
  <2> QED BY <2>1, <2>2
<1> QED BY <1>1, <1>2 DEF TasksInv

\* The usual case: one coroutine moves.
LEMMA OneMoves ==
    ASSUME TypeOK, TasksInv, NEW t \in Tasks, NEW job, task' = [task EXCEPT ![t] = job],
           Monotone, Arrives(t),
           \A p \in Orders : lock[p] \in Tasks \ {t} => Untouched(p) /\ lock'[p] = lock[p]
    PROVE  TasksInv'
<1>1. \A u \in Tasks \ {t} : task'[u] = task[u]
  BY DEF TypeOK
<1> QED BY <1>1, TasksInvNext

-----------------------------------------------------------------------------
(***************************************************************************)
(* The three kinds of steps: those that leave orders and purchases alone,  *)
(* those of RBXCrate, and those that commit.                               *)
(***************************************************************************)

\* A step that writes neither orders nor attempts, at either side, touches no order.
LEMMA QuietStep ==
    ASSUME UNCHANGED <<status, attempt, remote, requested>>
    PROVE  Monotone /\ \A p \in Orders : Untouched(p)
BY DEF Monotone, Untouched

\* To preserve the orders' part of the invariant while only requests and RBXCrate's records
\* of one order change, it is enough to look at these.
LEMMA PurchasesStep ==
    ASSUME OrdersInv, NEW o \in Orders, UNCHANGED <<status, attempt>>,
           \A p \in Orders \ {o} : remote'[p] = remote[p] /\ requested'[p] = requested[p],
           \A m \in Ids :
             /\ remote[o][m] # "absent" => remote'[o][m] # "absent"
             /\ remote[o][m] \in {"completed", "cancelled"} => remote'[o][m] = remote[o][m]
             /\ m \in requested[o] => m \in requested'[o]
             /\ remote'[o][m] # "absent" => m \in requested'[o]
             /\ m \in requested'[o] /\ m # 0 => remote'[o][0] # "absent",
           \A m, k \in Ids :
             /\ m \in requested'[o] /\ remote'[o][m] # "cancelled"
             /\ k \in requested'[o] /\ remote'[o][k] # "cancelled"
             => m = k
    PROVE  OrdersInv' /\ Monotone /\ \A p \in Orders : Untouched(p)
<1>1. Monotone /\ \A p \in Orders : Untouched(p)
  BY DEF Monotone, Untouched
<1>2. LocalMatchesRemote'
  BY DEF OrdersInv, LocalMatchesRemote
<1>3. OneMayBeLive'
  BY DEF OrdersInv, OneMayBeLive, MayBeLive
<1>4. (OnlyRequested /\ FirstIdFirst)'
  BY DEF OrdersInv, OnlyRequested, FirstIdFirst
<1>5. (OneActiveAttempt /\ PurchasingIsBacked /\ FinishedIsSettled /\ HistoryMatchesStatus)'
  BY DEF OrdersInv, OneActiveAttempt, PurchasingIsBacked, FinishedIsSettled,
     HistoryMatchesStatus, IsActive, HasActive
<1> QED BY <1>1, <1>2, <1>3, <1>4, <1>5 DEF OrdersInv

\* What the invariant says of the requests for one order and of what RBXCrate made of them.
LEMMA PurchasesOf ==
    ASSUME OrdersInv, NEW o \in Orders
    PROVE  /\ \A m \in Ids :
                /\ remote[o][m] # "absent" => m \in requested[o]
                /\ m \in requested[o] /\ m # 0 => remote[o][0] # "absent"
           /\ \A m, k \in Ids :
                /\ m \in requested[o] /\ remote[o][m] # "cancelled"
                /\ k \in requested[o] /\ remote[o][k] # "cancelled"
                => m = k
BY DEF OrdersInv, OnlyRequested, FirstIdFirst, OneMayBeLive, MayBeLive

\* RBXCrate creates an order it was asked for, whoever still waits for it.
LEMMA CreationStep ==
    ASSUME TypeOK, OrdersInv, NEW o \in Orders, NEW n \in Ids, n \in requested[o],
           RemoteCreates(o, n), UNCHANGED <<status, attempt, requested>>
    PROVE  /\ remote' \in [Orders -> [Ids -> RemoteStatus]]
           /\ remote'[o][n] = "active"
           /\ OrdersInv'
           /\ Monotone
           /\ \A p \in Orders : Untouched(p)
<1>1. /\ remote[o][n] = "absent"
      /\ remote' = [remote EXCEPT ![o] = [remote[o] EXCEPT ![n] = "active"]]
      /\ remote \in [Orders -> [Ids -> RemoteStatus]]
  BY DEF RemoteCreates, TypeOK
<1>2. remote' \in [Orders -> [Ids -> RemoteStatus]] /\ remote'[o][n] = "active"
  BY <1>1 DEF RemoteStatus
<1>3. /\ \A p \in Orders \ {o} : remote'[p] = remote[p]
      /\ \A m \in Ids \ {n} : remote'[o][m] = remote[o][m]
  BY <1>1
<1>4. \A m \in Ids : remote[o][m] # "absent" => remote'[o][m] = remote[o][m]
  BY <1>1, <1>3
<1>5. \A m \in Ids : remote'[o][m] # "absent" => m \in requested[o]
  BY <1>3, PurchasesOf
<1>6. \A m \in Ids : m \in requested[o] /\ m # 0 => remote'[o][0] # "absent"
  BY <1>4, PurchasesOf, ZeroIsId
<1>7. \A m \in Ids : remote'[o][m] = "cancelled" <=> remote[o][m] = "cancelled"
  BY <1>1, <1>2, <1>3
<1>8. OrdersInv' /\ Monotone /\ \A p \in Orders : Untouched(p)
  BY <1>3, <1>4, <1>5, <1>6, <1>7, PurchasesOf, PurchasesStep
<1> QED BY <1>2, <1>8

\* RBXCrate finishes an order, one way or the other: nobody's knowledge is disturbed.
LEMMA EndingStep ==
    ASSUME TypeOK, OrdersInv, NEW o \in Orders, NEW n \in Ids, NEW s \in {"completed", "cancelled"},
           remote[o][n] = "active", remote' = [remote EXCEPT ![o][n] = s],
           UNCHANGED <<status, attempt, requested>>
    PROVE  /\ remote' \in [Orders -> [Ids -> RemoteStatus]]
           /\ remote'[o][n] = s
           /\ OrdersInv'
           /\ Monotone
           /\ \A p \in Orders : Untouched(p)
<1>1. /\ remote' = [remote EXCEPT ![o] = [remote[o] EXCEPT ![n] = s]]
      /\ remote \in [Orders -> [Ids -> RemoteStatus]]
  BY DEF TypeOK
<1>2. remote' \in [Orders -> [Ids -> RemoteStatus]] /\ remote'[o][n] = s
  BY <1>1 DEF RemoteStatus
<1>3. /\ \A p \in Orders \ {o} : remote'[p] = remote[p]
      /\ \A m \in Ids \ {n} : remote'[o][m] = remote[o][m]
  BY <1>1
<1>4. \A m \in Ids : /\ remote'[o][m] # "absent" <=> remote[o][m] # "absent"
                     /\ remote[o][m] \in {"completed", "cancelled"} => remote'[o][m] = remote[o][m]
  BY <1>2, <1>3
<1>5. OrdersInv' /\ Monotone /\ \A p \in Orders : Untouched(p)
  BY <1>3, <1>4, PurchasesOf, PurchasesStep, ZeroIsId
<1> QED BY <1>2, <1>5

\* Asking for the purchase under the order's own id: either that was asked for before, or
\* nothing was.
LEMMA FirstRequestStep ==
    ASSUME TypeOK, OrdersInv, NEW o \in Orders, Requests(o, 0), UNCHANGED <<status, attempt, remote>>
    PROVE  /\ requested' \in [Orders -> SUBSET Ids]
           /\ 0 \in requested'[o]
           /\ OrdersInv'
           /\ Monotone
           /\ \A p \in Orders : Untouched(p)
<1>1. /\ requested' = [requested EXCEPT ![o] = requested[o] \cup {0}]
      /\ requested \in [Orders -> SUBSET Ids]
  BY DEF Requests, TypeOK
<1>2. requested' \in [Orders -> SUBSET Ids] /\ requested'[o] = requested[o] \cup {0}
  BY <1>1, ZeroIsId
<1>3. \A p \in Orders \ {o} : requested'[p] = requested[p]
  BY <1>1
<1>4. \/ requested'[o] = requested[o]
      \/ \A m \in Ids : m \in requested'[o] => m = 0
  <2>1. 0 \in requested[o] \/ \A m \in Ids : m \notin requested[o]
    BY PurchasesOf, ZeroIsId
  <2> QED BY <1>2, <2>1
<1>5. \A m \in Ids : /\ remote[o][m] # "absent" => m \in requested'[o]
                     /\ m \in requested'[o] /\ m # 0 => remote[o][0] # "absent"
  BY <1>2, <1>4, PurchasesOf
<1>6. \A m, k \in Ids :
             /\ m \in requested'[o] /\ remote[o][m] # "cancelled"
             /\ k \in requested'[o] /\ remote[o][k] # "cancelled"
             => m = k
  BY <1>4, PurchasesOf
<1>7. OrdersInv' /\ Monotone /\ \A p \in Orders : Untouched(p)
  BY <1>2, <1>3, <1>5, <1>6, PurchasesStep
<1> QED BY <1>2, <1>7

\* Asking for a replacement under a fresh id once the purchase that may be live is cancelled.
LEMMA ReplacementStep ==
    ASSUME TypeOK, OrdersInv, NEW o \in Orders, NEW old \in Ids, RemoteCancels(o, old),
           NEW n \in Ids, IsFresh(o, n), Requests(o, n), UNCHANGED <<status, attempt>>
    PROVE  /\ remote' \in [Orders -> [Ids -> RemoteStatus]]
           /\ requested' \in [Orders -> SUBSET Ids]
           /\ remote'[o][old] = "cancelled"
           /\ n \in requested'[o]
           /\ OrdersInv'
           /\ Monotone
           /\ \A p \in Orders : Untouched(p)
<1>1. /\ remote[o][old] = "active"
      /\ remote' = [remote EXCEPT ![o] = [remote[o] EXCEPT ![old] = "cancelled"]]
      /\ remote \in [Orders -> [Ids -> RemoteStatus]]
      /\ requested' = [requested EXCEPT ![o] = requested[o] \cup {n}]
      /\ requested \in [Orders -> SUBSET Ids]
      /\ n # 0 /\ n \notin requested[o]
  BY DEF RemoteCancels, Requests, IsFresh, TypeOK
<1>2. /\ remote' \in [Orders -> [Ids -> RemoteStatus]] /\ remote'[o][old] = "cancelled"
      /\ requested' \in [Orders -> SUBSET Ids] /\ requested'[o] = requested[o] \cup {n}
  BY <1>1 DEF RemoteStatus
<1>3. /\ \A p \in Orders \ {o} : remote'[p] = remote[p] /\ requested'[p] = requested[p]
      /\ \A m \in Ids \ {old} : remote'[o][m] = remote[o][m]
  BY <1>1
<1>4. old \in requested[o] /\ remote[o][0] # "absent"
  BY <1>1, PurchasesOf, ZeroIsId
<1>5. \A m \in Ids : m \in requested[o] => remote'[o][m] = "cancelled"
  BY <1>1, <1>2, <1>3, <1>4, PurchasesOf
<1>6. \A m \in Ids :
        /\ remote[o][m] # "absent" => remote'[o][m] # "absent"
        /\ remote[o][m] \in {"completed", "cancelled"} => remote'[o][m] = remote[o][m]
        /\ remote'[o][m] # "absent" => m \in requested'[o]
  BY <1>1, <1>2, <1>3, <1>4, PurchasesOf
<1>7. OrdersInv' /\ Monotone /\ \A p \in Orders : Untouched(p)
  BY <1>2, <1>3, <1>4, <1>5, <1>6, ZeroIsId, PurchasesStep
<1> QED BY <1>2, <1>7

\* Writing one row of either table.
LEMMA StatusWrite ==
    ASSUME TypeOK, NEW o \in Orders, NEW s \in OrderStatus, status' = [status EXCEPT ![o] = s]
    PROVE  /\ status' \in [Orders -> OrderStatus]
           /\ status'[o] = s
           /\ \A p \in Orders \ {o} : status'[p] = status[p]
BY DEF TypeOK

\* Writing a final or active status to one attempt changes no other, and no attempt
\* vanishes.
LEMMA AttemptWrite ==
    ASSUME TypeOK, NEW o \in Orders, NEW n \in Ids, NEW a \in AttemptStatus, a # "none",
           attempt' = [attempt EXCEPT ![o][n] = a], UNCHANGED <<remote, requested>>
    PROVE  /\ attempt' \in [Orders -> [Ids -> AttemptStatus]]
           /\ attempt'[o][n] = a
           /\ \A m \in Ids \ {n} : attempt'[o][m] = attempt[o][m]
           /\ \A p \in Orders \ {o} : attempt'[p] = attempt[p]
           /\ Monotone
<1>1. attempt' = [attempt EXCEPT ![o] = [attempt[o] EXCEPT ![n] = a]]
  BY DEF TypeOK
<1>2. attempt \in [Orders -> [Ids -> AttemptStatus]]
  BY DEF TypeOK
<1>3. /\ attempt' \in [Orders -> [Ids -> AttemptStatus]]
      /\ attempt'[o][n] = a
      /\ \A m \in Ids \ {n} : attempt'[o][m] = attempt[o][m]
      /\ \A p \in Orders \ {o} : attempt'[p] = attempt[p]
  BY <1>1, <1>2
<1> QED BY <1>3 DEF Monotone

\* To preserve the orders' part of the invariant it is enough to look at that order.
LEMMA CommitOrdersInv ==
    ASSUME OrdersInv, NEW o \in Orders, UNCHANGED <<remote, requested>>,
           \A p \in Orders \ {o} : status'[p] = status[p] /\ attempt'[p] = attempt[p],
           \A m, n \in Ids : attempt'[o][m] = "active" /\ attempt'[o][n] = "active" => m = n,
           status'[o] = "purchasing" => \E n \in Ids : attempt'[o][n] = "active",
           status'[o] \in Terminal => \A n \in Ids : attempt'[o][n] # "active",
           status'[o] = "completed" <=> \E n \in Ids : attempt'[o][n] = "completed",
           \A n \in Ids :
             /\ attempt'[o][n] # "none" => remote[o][n] # "absent"
             /\ attempt'[o][n] = "cancelled" => remote[o][n] = "cancelled"
             /\ attempt'[o][n] = "completed" => remote[o][n] = "completed"
             /\ status'[o] = "draft" => attempt'[o][n] = "none"
             /\ attempt'[o][n] = "force_closed" => status'[o] = "force_closed"
    PROVE  OrdersInv'
<1>1. OneActiveAttempt'
  BY DEF OrdersInv, OneActiveAttempt, IsActive
<1>2. PurchasingIsBacked'
  BY DEF OrdersInv, PurchasingIsBacked, IsActive, HasActive
<1>3. FinishedIsSettled'
  BY DEF OrdersInv, FinishedIsSettled, IsActive, HasActive
<1>4. LocalMatchesRemote'
  BY DEF OrdersInv, LocalMatchesRemote
<1>5. HistoryMatchesStatus'
  BY DEF OrdersInv, HistoryMatchesStatus
<1>6. (OneMayBeLive /\ OnlyRequested /\ FirstIdFirst)'
  BY DEF OrdersInv, OneMayBeLive, MayBeLive, OnlyRequested, FirstIdFirst
<1> QED BY <1>1, <1>2, <1>3, <1>4, <1>5, <1>6 DEF OrdersInv

\* Whoever commits to o holds its lock, or finds it free: nobody else relies on o.
LEMMA FreeCommitTasksInv ==
    ASSUME TypeOK, TasksInv, Monotone, NEW o \in Orders, NEW t \in Tasks, Finish(t),
           \A p \in Orders \ {o} : Untouched(p), lock[o] = NoTask, lock' = lock
    PROVE  TasksInv'
<1>1. \A p \in Orders : lock[p] \in Tasks \ {t} => p # o
  BY NoTaskAssumption
<1> QED BY <1>1, ArrivesIdle, OneMoves

\* A commit by the holder of a row lock, who then releases it and ends, keeps the
\* coroutines' part.
LEMMA OwnCommitTasksInv ==
    ASSUME TypeOK, TasksInv, Monotone, NEW o \in Orders, NEW t \in Tasks, Finish(t),
           \A p \in Orders \ {o} : Untouched(p), lock[o] = t, Release(o)
    PROVE  TasksInv'
<1>1. \A p \in Orders : lock[p] \in Tasks \ {t} => p # o /\ lock'[p] = lock[p]
  BY DEF TypeOK, Release
<1> QED BY <1>1, ArrivesIdle, OneMoves

\* A step in which no coroutine moves and no lock changes keeps the coroutines' part, if
\* it touches only orders nobody has locked.
LEMMA NobodyMoves ==
    ASSUME TypeOK, TasksInv, Monotone, UNCHANGED <<task, lock>>,
           \A p \in Orders : lock[p] \in Tasks => Untouched(p)
    PROVE  TasksInv'
<1>1. {} \in SUBSET Tasks
  OBVIOUS
<1>2. \A u \in Tasks \ {} : task'[u] = task[u]
  OBVIOUS
<1>3. \A p \in Orders : lock[p] \in Tasks \ {} => Untouched(p) /\ lock'[p] = lock[p]
  OBVIOUS
<1>4. \A u \in {} : Arrives(u)
  OBVIOUS
<1> QED BY <1>1, <1>2, <1>3, <1>4, TasksInvNext

\* A coroutine in the middle of an operation: where it stands and what it knows.
LEMMA TaskAt ==
    ASSUME IInv, NEW t \in Tasks, task[t] # Idle
    PROVE  \E pc \in Pcs, o \in Orders, n \in Ids \cup {NoId}, old \in Ids \cup {NoId} :
             /\ task[t] = Job(pc, o, n, old)
             /\ task[t].pc = pc /\ task[t].order = o /\ task[t].id = n /\ task[t].old = old
             /\ pc \in LockedPc => lock[o] = t
             /\ KnowsOf(pc, o, n, old)
<1>1. KnowsOf(task[t].pc, task[t].order, task[t].id, task[t].old)
  BY DEF IInv, TasksInv, TaskKnows
<1> QED BY <1>1, TaskType DEF IInv, TasksInv, HoldsLock

-----------------------------------------------------------------------------
(***************************************************************************)
(* One lemma per action: it preserves the invariant.                       *)
(***************************************************************************)

\* Locking an order to buy for it preserves the invariant: the coroutine has just seen it
\* has no attempt.
LEMMA StepStartPurchase ==
    ASSUME IInv, NEW t \in Tasks, NEW o \in Orders, StartPurchase(t, o)
    PROVE  IInv'
<1> DEFINE job == Job("startCreate", o, 0, NoId)
<1>1. /\ task' = [task EXCEPT ![t] = job]
      /\ lock' = [lock EXCEPT ![o] = t]
      /\ UNCHANGED <<status, cost, attempt, remote>>
      /\ Requests(o, 0)
      /\ Free(o) /\ status[o] \in {"draft", "preorder"} /\ ~HasActive(o)
  BY DEF StartPurchase, Goto, Acquire, database
<1>2. /\ requested' \in [Orders -> SUBSET Ids]
      /\ 0 \in requested'[o]
      /\ OrdersInv'
      /\ Monotone
      /\ \A p \in Orders : Untouched(p)
  BY <1>1, FirstRequestStep DEF IInv
<1>3. KnowsOf("startCreate", o, 0, NoId)'
  BY <1>1, <1>2 DEF KnowsOf, HasActive, IsActive
<1>4. Arrives(t) /\ TypeOK'
  BY <1>1, <1>2, <1>3, ArrivesAt, ZeroIsId DEF IInv, TypeOK, Pcs, LockedPc
<1>5. TasksInv'
  <2>1. \A p \in Orders : lock[p] \in Tasks \ {t} => lock'[p] = lock[p]
    BY <1>1, NoTaskAssumption DEF IInv, TypeOK, Free
  <2> QED BY <1>1, <1>2, <1>4, <2>1, OneMoves DEF IInv
<1> QED BY <1>2, <1>4, <1>5 DEF IInv

\* A Draft that becomes a PreOrder for want of stock preserves the invariant.
LEMMA StepStartWithoutStock ==
    ASSUME IInv, NEW t \in Tasks, NEW o \in Orders, StartWithoutStock(t, o)
    PROVE  IInv'
<1>1. /\ status[o] = "draft" /\ Free(o)
      /\ status' = [status EXCEPT ![o] = "preorder"]
      /\ UNCHANGED <<cost, attempt, remote, requested>> /\ lock' = lock
      /\ Finish(t)
  BY DEF StartWithoutStock
<1>2. TypeOK /\ OrdersInv /\ TasksInv
  BY DEF IInv
<1>3. /\ status' \in [Orders -> OrderStatus]
      /\ status'[o] = "preorder"
      /\ \A p \in Orders \ {o} : status'[p] = status[p] /\ attempt'[p] = attempt[p]
  BY <1>1, <1>2 DEF TypeOK, OrderStatus
<1>4. Monotone /\ \A p \in Orders \ {o} : Untouched(p)
  BY <1>1, <1>3 DEF Monotone, Untouched
<1>5. TypeOK'
  BY <1>1, <1>2, <1>3, ArrivesIdle DEF TypeOK
<1>6. OrdersInv'
  <2>1. \A n \in Ids : attempt[o][n] = "none"
    BY <1>1, <1>2 DEF OrdersInv, HistoryMatchesStatus
  <2> QED BY <1>1, <1>2, <1>3, <2>1, CommitOrdersInv DEF Terminal
<1>7. TasksInv'
  BY <1>1, <1>2, <1>4, FreeCommitTasksInv DEF Free
<1> QED BY <1>5, <1>6, <1>7 DEF IInv

\* RBXCrate accepting the first purchase preserves the invariant: it was asked for.
LEMMA StepStartCreated ==
    ASSUME IInv, NEW t \in Tasks, StartCreated(t)
    PROVE  IInv'
<1>1. PICK o \in Orders, old \in Ids \cup {NoId} :
         /\ task[t].order = o /\ task[t].id = 0 /\ task[t].old = old
         /\ lock[o] = t
         /\ status[o] \in {"draft", "preorder"}
         /\ \A m \in Ids : ~IsActive(o, m)
         /\ 0 \in requested[o]
  BY TaskAt DEF StartCreated, Idle, KnowsOf, LockedPc
<1>2. /\ RemoteCreates(o, 0)
      /\ task' = [task EXCEPT ![t] = Job("startRecord", o, 0, old)]
      /\ UNCHANGED <<status, cost, attempt, requested>> /\ lock' = lock
  BY <1>1 DEF StartCreated, Continue, Goto, database
<1>3. TypeOK /\ OrdersInv /\ TasksInv
  BY DEF IInv
<1>4. attempt[o][0] = "none"
  BY <1>2, <1>3, ZeroIsId DEF OrdersInv, LocalMatchesRemote, RemoteCreates
<1>5. /\ remote' \in [Orders -> [Ids -> RemoteStatus]]
      /\ remote'[o][0] = "active"
      /\ OrdersInv'
      /\ Monotone
      /\ \A p \in Orders : Untouched(p)
  BY <1>1, <1>2, <1>3, CreationStep, ZeroIsId
<1>6. KnowsOf("startRecord", o, 0, old)'
  BY <1>1, <1>2, <1>4, <1>5 DEF KnowsOf, IsActive
<1>7. Arrives(t) /\ TypeOK'
  BY <1>1, <1>2, <1>3, <1>5, <1>6, ArrivesAt, ZeroIsId DEF TypeOK, Pcs, LockedPc
<1>8. TasksInv'
  BY <1>2, <1>3, <1>5, <1>7, OneMoves
<1> QED BY <1>5, <1>7, <1>8 DEF IInv

\* The commit of start_purchase preserves the invariant: the new attempt is the only
\* active one.
LEMMA StepStartRecorded ==
    ASSUME IInv, NEW t \in Tasks, StartRecorded(t)
    PROVE  IInv'
<1>1. PICK o \in Orders :
         /\ task[t].order = o /\ task[t].id = 0
         /\ lock[o] = t
         /\ status[o] \in {"draft", "preorder"}
         /\ \A m \in Ids : attempt[o][m] # "active"
         /\ remote[o][0] # "absent"
  BY TaskAt DEF StartRecorded, Idle, KnowsOf, LockedPc, IsActive
<1>2. /\ status' = [status EXCEPT ![o] = "purchasing"]
      /\ attempt' = [attempt EXCEPT ![o][0] = "active"]
      /\ Finish(t) /\ Release(o)
      /\ UNCHANGED <<cost, remote, requested>>
  BY <1>1 DEF StartRecorded
<1>3. TypeOK /\ OrdersInv /\ TasksInv
  BY DEF IInv
<1>4. /\ status' \in [Orders -> OrderStatus]
      /\ status'[o] = "purchasing"
      /\ \A p \in Orders \ {o} : status'[p] = status[p]
  BY <1>2, <1>3, StatusWrite DEF OrderStatus
<1>5. /\ attempt' \in [Orders -> [Ids -> AttemptStatus]]
      /\ attempt'[o][0] = "active"
      /\ \A m \in Ids \ {0} : attempt'[o][m] = attempt[o][m]
      /\ \A p \in Orders \ {o} : attempt'[p] = attempt[p]
      /\ Monotone
  BY <1>2, <1>3, AttemptWrite, ZeroIsId DEF AttemptStatus
<1>6. TypeOK'
  BY <1>2, <1>3, <1>4, <1>5, ArrivesIdle DEF TypeOK, Release
<1>7. OrdersInv'
  <2>1. \A n \in Ids : attempt[o][n] \notin {"completed", "force_closed"}
    BY <1>1, <1>3 DEF OrdersInv, FinishedIsSettled, HistoryMatchesStatus
  <2>2. \A n \in Ids :
             /\ attempt[o][n] # "none" => remote[o][n] # "absent"
             /\ attempt[o][n] = "cancelled" => remote[o][n] = "cancelled"
    BY <1>3 DEF OrdersInv, LocalMatchesRemote
  <2> QED BY <1>1, <1>2, <1>3, <1>4, <1>5, <2>1, <2>2, ZeroIsId, CommitOrdersInv DEF Terminal
<1>8. TasksInv'
  <2>1. \A p \in Orders \ {o} : Untouched(p)
    BY <1>2, <1>4, <1>5 DEF Untouched
  <2> QED BY <1>1, <1>2, <1>3, <1>5, <2>1, OwnCommitTasksInv
<1> QED BY <1>6, <1>7, <1>8 DEF IInv

\* fast_requeue's look at a PreOrder preserves the invariant.
LEMMA StepFastTrigger ==
    ASSUME IInv, NEW t \in Tasks, NEW o \in Orders, FastTrigger(t, o)
    PROVE  IInv'
<1>1. /\ task' = [task EXCEPT ![t] = Job("fastStart", o, NoId, NoId)]
      /\ UNCHANGED <<status, cost, attempt, remote, requested>> /\ lock' = lock
  BY DEF FastTrigger, Goto, database
<1>2. TypeOK /\ OrdersInv /\ TasksInv
  BY DEF IInv
<1>3. KnowsOf("fastStart", o, NoId, NoId)'
  BY DEF KnowsOf
<1>4. Arrives(t) /\ TypeOK'
  BY <1>1, <1>2, <1>3, ArrivesAt DEF TypeOK, Pcs, LockedPc, UnlockedPc
<1>5. OrdersInv'
  BY <1>1, <1>2, OrdersFrame
<1>6. TasksInv'
  BY <1>1, <1>2, <1>4, QuietStep, OneMoves
<1> QED BY <1>4, <1>5, <1>6 DEF IInv

\* Reading an attempt without a lock preserves the invariant.
LEMMA StepSyncRead ==
    ASSUME IInv, NEW t \in Tasks, NEW o \in Orders, NEW n \in Ids, SyncRead(t, o, n)
    PROVE  IInv'
<1>1. /\ task' = [task EXCEPT ![t] = Job("syncLock", o, n, NoId)]
      /\ attempt[o][n] # "none"
      /\ UNCHANGED <<status, cost, attempt, remote, requested>> /\ lock' = lock
  BY DEF SyncRead, Goto, database, IsActive
<1>2. TypeOK /\ OrdersInv /\ TasksInv
  BY DEF IInv
<1>3. KnowsOf("syncLock", o, n, NoId)'
  BY <1>1 DEF KnowsOf
<1>4. Arrives(t) /\ TypeOK'
  BY <1>1, <1>2, <1>3, ArrivesAt DEF TypeOK, Pcs, LockedPc, UnlockedPc
<1>5. OrdersInv'
  BY <1>1, <1>2, OrdersFrame
<1>6. TasksInv'
  BY <1>1, <1>2, <1>4, QuietStep, OneMoves
<1> QED BY <1>4, <1>5, <1>6 DEF IInv

\* _apply_synchronization preserves the orders' part of the invariant whatever was known of
\* the attempt when it was read: an attempt, once written, says why it may be written again.
LEMMA ApplyStep ==
    ASSUME TypeOK, OrdersInv, NEW o \in Orders, NEW n \in Ids, attempt[o][n] # "none",
           status[o] \notin {"completed", "force_closed"}, UNCHANGED <<remote, requested>>,
           ApplyCompleted(o, n) \/ ApplyCancelled(o, n) \/ ApplyActive(o, n)
    PROVE  /\ status' \in [Orders -> OrderStatus]
           /\ cost' \in [Orders -> Ids \cup {NoId}]
           /\ attempt' \in [Orders -> [Ids -> AttemptStatus]]
           /\ OrdersInv'
           /\ Monotone
           /\ \A p \in Orders \ {o} : Untouched(p)
<1>1. /\ status[o] # "draft"
      /\ \A m \in Ids : attempt[o][m] \notin {"completed", "force_closed"}
  BY DEF OrdersInv, HistoryMatchesStatus, FinishedIsSettled
<1>2. \A m \in Ids :
        /\ attempt[o][m] # "none" => remote[o][m] # "absent"
        /\ attempt[o][m] = "cancelled" => remote[o][m] = "cancelled"
  BY DEF OrdersInv, LocalMatchesRemote
<1>3. \A m, k \in Ids : attempt[o][m] = "active" /\ attempt[o][k] = "active" => m = k
  BY DEF OrdersInv, OneActiveAttempt, IsActive
<1>4. /\ status \in [Orders -> OrderStatus]
      /\ cost \in [Orders -> Ids \cup {NoId}]
      /\ attempt \in [Orders -> [Ids -> AttemptStatus]]
  BY DEF TypeOK
<1>5. CASE ApplyCompleted(o, n)
  <2>1. /\ attempt[o][n] = "active"
        /\ remote[o][n] = "completed"
    BY <1>1, <1>2, <1>4, <1>5 DEF ApplyCompleted, AttemptStatus
  <2>2. /\ status'[o] = "completed"
        /\ status' \in [Orders -> OrderStatus]
        /\ \A p \in Orders \ {o} : status'[p] = status[p]
    BY <1>5, StatusWrite DEF ApplyCompleted, OrderStatus
  <2>3. /\ attempt' \in [Orders -> [Ids -> AttemptStatus]]
        /\ attempt'[o][n] = "completed"
        /\ \A m \in Ids \ {n} : attempt'[o][m] = attempt[o][m]
        /\ \A p \in Orders \ {o} : attempt'[p] = attempt[p]
        /\ Monotone
    BY <1>5, AttemptWrite DEF ApplyCompleted, AttemptStatus
  <2>4. cost' \in [Orders -> Ids \cup {NoId}]
    BY <1>4, <1>5 DEF ApplyCompleted
  <2>5. OrdersInv'
    <3>1. \A m \in Ids : attempt'[o][m] # "active"
      BY <1>3, <2>1, <2>3
    <3>2. \A m \in Ids :
             /\ attempt'[o][m] # "none" => remote[o][m] # "absent"
             /\ attempt'[o][m] = "cancelled" => remote[o][m] = "cancelled"
             /\ attempt'[o][m] = "completed" => remote[o][m] = "completed"
             /\ attempt'[o][m] # "force_closed"
      BY <1>1, <1>2, <2>1, <2>3
    <3> QED BY <2>2, <2>3, <3>1, <3>2, CommitOrdersInv
  <2>6. \A p \in Orders \ {o} : Untouched(p)
    BY <2>2, <2>3 DEF Untouched
  <2> QED BY <2>2, <2>3, <2>4, <2>5, <2>6
<1>6. CASE ApplyCancelled(o, n)
  <2>1. remote[o][n] = "cancelled" /\ cost' = cost
    BY <1>6 DEF ApplyCancelled
  <2>2. /\ status'[o] = "preorder"
        /\ status' \in [Orders -> OrderStatus]
        /\ \A p \in Orders \ {o} : status'[p] = status[p]
    BY <1>6, StatusWrite DEF ApplyCancelled, OrderStatus
  <2>3. /\ attempt' \in [Orders -> [Ids -> AttemptStatus]]
        /\ attempt'[o][n] = "cancelled"
        /\ \A m \in Ids \ {n} : attempt'[o][m] = attempt[o][m]
        /\ \A p \in Orders \ {o} : attempt'[p] = attempt[p]
        /\ Monotone
    BY <1>6, AttemptWrite DEF ApplyCancelled, AttemptStatus
  <2>4. OrdersInv'
    <3>1. \A m, k \in Ids : attempt'[o][m] = "active" /\ attempt'[o][k] = "active" => m = k
      BY <1>3, <2>3
    <3>2. \A m \in Ids :
             /\ attempt'[o][m] # "none" => remote[o][m] # "absent"
             /\ attempt'[o][m] = "cancelled" => remote[o][m] = "cancelled"
             /\ attempt'[o][m] \notin {"completed", "force_closed"}
      BY <1>1, <1>2, <2>1, <2>3
    <3> QED BY <2>2, <2>3, <3>1, <3>2, CommitOrdersInv DEF Terminal
  <2>5. \A p \in Orders \ {o} : Untouched(p)
    BY <2>2, <2>3 DEF Untouched
  <2> QED BY <1>4, <2>1, <2>2, <2>3, <2>4, <2>5
<1>7. CASE ApplyActive(o, n)
  <2>1. /\ UNCHANGED <<status, attempt>>
        /\ cost' \in [Orders -> Ids \cup {NoId}]
    BY <1>4, <1>7 DEF ApplyActive
  <2> QED BY <1>4, <2>1, OrdersFrame, QuietStep
<1> QED BY <1>5, <1>6, <1>7

\* Applying a snapshot preserves the invariant, although the attempt was read before the
\* lock.
LEMMA StepSyncApply ==
    ASSUME IInv, NEW t \in Tasks, SyncApply(t)
    PROVE  IInv'
<1>1. PICK o \in Orders, n \in Ids :
         /\ task[t].order = o /\ task[t].id = n
         /\ attempt[o][n] # "none"
  BY TaskAt DEF SyncApply, Idle, KnowsOf, LockedPc
<1>2. /\ status[o] \notin {"completed", "force_closed"}
      /\ ApplyCompleted(o, n) \/ ApplyCancelled(o, n) \/ ApplyActive(o, n)
      /\ Finish(t) /\ lock[o] = NoTask
      /\ lock' = lock /\ UNCHANGED <<remote, requested>>
  BY <1>1 DEF SyncApply, Free
<1>3. TypeOK /\ OrdersInv /\ TasksInv
  BY DEF IInv
<1>4. /\ status' \in [Orders -> OrderStatus]
      /\ cost' \in [Orders -> Ids \cup {NoId}]
      /\ attempt' \in [Orders -> [Ids -> AttemptStatus]]
      /\ OrdersInv'
      /\ Monotone
      /\ \A p \in Orders \ {o} : Untouched(p)
  BY <1>1, <1>2, <1>3, ApplyStep
<1>5. TypeOK'
  BY <1>2, <1>3, <1>4, ArrivesIdle DEF TypeOK
<1>6. TasksInv'
  BY <1>2, <1>3, <1>4, FreeCommitTasksInv
<1> QED BY <1>4, <1>5, <1>6 DEF IInv

\* Applying the result a requeue found instead of replacing preserves the invariant.
LEMMA StepRequeueSettles ==
    ASSUME IInv, NEW t \in Tasks, NEW o \in Orders, RequeueSettles(t, o)
    PROVE  IInv'
<1>1. PICK n \in Ids : IsActive(o, n) /\ (ApplyCompleted(o, n) \/ ApplyCancelled(o, n))
  BY DEF RequeueSettles
<1>2. /\ status[o] = "purchasing" /\ attempt[o][n] # "none"
      /\ lock[o] = NoTask
      /\ UNCHANGED <<remote, requested, lock, task>>
  BY <1>1 DEF RequeueSettles, IsActive, Free
<1>3. TypeOK /\ OrdersInv /\ TasksInv
  BY DEF IInv
<1>4. /\ status' \in [Orders -> OrderStatus]
      /\ cost' \in [Orders -> Ids \cup {NoId}]
      /\ attempt' \in [Orders -> [Ids -> AttemptStatus]]
      /\ OrdersInv'
      /\ Monotone
      /\ \A p \in Orders \ {o} : Untouched(p)
  BY <1>1, <1>2, <1>3, ApplyStep
<1>5. TypeOK'
  BY <1>2, <1>3, <1>4 DEF TypeOK
<1>6. TasksInv'
  BY <1>2, <1>3, <1>4, NobodyMoves, NoTaskAssumption
<1> QED BY <1>4, <1>5, <1>6 DEF IInv

\* Locking an order to replace its attempt preserves the invariant.
LEMMA StepRequeueBegin ==
    ASSUME IInv, NEW t \in Tasks, NEW o \in Orders, RequeueBegin(t, o)
    PROVE  IInv'
<1>1. PICK n \in Ids : /\ IsActive(o, n)
                       /\ task' = [task EXCEPT ![t] = Job("requeueCancel", o, n, n)]
  BY DEF RequeueBegin, Goto
<1>2. /\ status[o] = "purchasing"
      /\ lock' = [lock EXCEPT ![o] = t] /\ lock[o] = NoTask
      /\ UNCHANGED <<status, cost, attempt, remote, requested>>
  BY DEF RequeueBegin, Acquire, Free, database
<1>3. TypeOK /\ OrdersInv /\ TasksInv
  BY DEF IInv
<1>4. KnowsOf("requeueCancel", o, n, n)'
  BY <1>1, <1>2 DEF KnowsOf, IsActive
<1>5. lock'[o] = t /\ lock' \in [Orders -> Tasks \cup {NoTask}]
  BY <1>2, <1>3 DEF TypeOK
<1>6. Arrives(t) /\ TypeOK'
  BY <1>1, <1>2, <1>3, <1>4, <1>5, ArrivesAt DEF TypeOK, Pcs, LockedPc
<1>7. OrdersInv'
  BY <1>2, <1>3, OrdersFrame
<1>8. TasksInv'
  <2>1. \A p \in Orders : lock[p] \in Tasks \ {t} => Untouched(p) /\ lock'[p] = lock[p]
    BY <1>2, <1>3, QuietStep, NoTaskAssumption DEF TypeOK
  <2> QED BY <1>1, <1>2, <1>3, <1>6, <2>1, QuietStep, OneMoves
<1> QED BY <1>6, <1>7, <1>8 DEF IInv

\* The confirmed cancellation of the attempt to replace, and the request for its
\* replacement, preserve the invariant: the attempt was the only purchase that may be live.
LEMMA StepRequeueCancelled ==
    ASSUME IInv, NEW t \in Tasks, RequeueCancelled(t)
    PROVE  IInv'
<1>1. PICK o \in Orders, old \in Ids :
         /\ task[t].order = o /\ task[t].old = old
         /\ lock[o] = t
         /\ status[o] = "purchasing"
         /\ IsActive(o, old)
  BY TaskAt DEF RequeueCancelled, Idle, KnowsOf, LockedPc
<1>2. PICK n \in Ids :
         /\ IsFresh(o, n) /\ Requests(o, n)
         /\ task' = [task EXCEPT ![t] = Job("requeueCreate", o, n, old)]
  BY <1>1 DEF RequeueCancelled, AskReplacement, Goto
<1>3. /\ RemoteCancels(o, old)
      /\ UNCHANGED <<status, cost, attempt>> /\ lock' = lock
  BY <1>1 DEF RequeueCancelled, database
<1>4. TypeOK /\ OrdersInv /\ TasksInv
  BY DEF IInv
<1>5. /\ remote' \in [Orders -> [Ids -> RemoteStatus]]
      /\ requested' \in [Orders -> SUBSET Ids]
      /\ remote'[o][old] = "cancelled"
      /\ n \in requested'[o]
      /\ OrdersInv'
      /\ Monotone
      /\ \A p \in Orders : Untouched(p)
  BY <1>2, <1>3, <1>4, ReplacementStep
<1>6. KnowsOf("requeueCreate", o, n, old)'
  BY <1>1, <1>3, <1>5 DEF KnowsOf, IsActive
<1>7. Arrives(t) /\ TypeOK'
  BY <1>1, <1>2, <1>3, <1>4, <1>5, <1>6, ArrivesAt DEF TypeOK, Pcs, LockedPc
<1>8. TasksInv'
  BY <1>2, <1>3, <1>4, <1>5, <1>7, OneMoves
<1> QED BY <1>5, <1>7, <1>8 DEF IInv

\* A cancellation that fails, or whose answer is lost, preserves the invariant.
LEMMA StepRequeueNotCancelled ==
    ASSUME IInv, NEW t \in Tasks, RequeueNotCancelled(t)
    PROVE  IInv'
<1>1. PICK o \in Orders, old \in Ids :
         /\ task[t].order = o /\ task[t].old = old
         /\ lock[o] = t
  BY TaskAt DEF RequeueNotCancelled, Idle, KnowsOf, LockedPc
<1>2. /\ Finish(t) /\ Release(o)
      /\ UNCHANGED <<status, cost, attempt, requested>>
  BY <1>1 DEF RequeueNotCancelled, RollBack, database
<1>3. TypeOK /\ OrdersInv /\ TasksInv
  BY DEF IInv
<1>4. /\ remote' \in [Orders -> [Ids -> RemoteStatus]]
      /\ OrdersInv'
      /\ Monotone
      /\ \A p \in Orders : Untouched(p)
  <2>1. CASE UNCHANGED remote
    BY <1>2, <1>3, <2>1, OrdersFrame, QuietStep DEF TypeOK
  <2>2. CASE RemoteCancels(o, old)
    BY <1>2, <1>3, <2>2, EndingStep DEF RemoteCancels
  <2> QED BY <1>1, <2>1, <2>2 DEF RequeueNotCancelled
<1>5. TypeOK'
  BY <1>2, <1>3, <1>4, ArrivesIdle DEF TypeOK, Release
<1>6. TasksInv'
  BY <1>1, <1>2, <1>3, <1>4, OwnCommitTasksInv
<1> QED BY <1>4, <1>5, <1>6 DEF IInv

\* RBXCrate accepting the replacement preserves the invariant: it was asked for.
LEMMA StepRequeueCreated ==
    ASSUME IInv, NEW t \in Tasks, RequeueCreated(t)
    PROVE  IInv'
<1>1. PICK o \in Orders, n \in Ids, old \in Ids :
         /\ task[t].order = o /\ task[t].id = n /\ task[t].old = old
         /\ lock[o] = t
         /\ status[o] = "purchasing" /\ IsActive(o, old) /\ remote[o][old] = "cancelled"
         /\ n \in requested[o]
  BY TaskAt DEF RequeueCreated, Idle, KnowsOf, LockedPc
<1>2. /\ RemoteCreates(o, n)
      /\ task' = [task EXCEPT ![t] = Job("requeueRecord", o, n, old)]
      /\ UNCHANGED <<status, cost, attempt, requested>> /\ lock' = lock
  BY <1>1 DEF RequeueCreated, Continue, Goto, database
<1>3. TypeOK /\ OrdersInv /\ TasksInv
  BY DEF IInv
<1>4. attempt[o][n] = "none"
  BY <1>2, <1>3 DEF OrdersInv, LocalMatchesRemote, RemoteCreates
<1>5. /\ remote' \in [Orders -> [Ids -> RemoteStatus]]
      /\ remote'[o][n] = "active"
      /\ OrdersInv'
      /\ Monotone
      /\ \A p \in Orders : Untouched(p)
  BY <1>1, <1>2, <1>3, CreationStep
<1>6. KnowsOf("requeueRecord", o, n, old)'
  BY <1>1, <1>2, <1>4, <1>5 DEF KnowsOf, IsActive, Monotone
<1>7. Arrives(t) /\ TypeOK'
  BY <1>1, <1>2, <1>3, <1>5, <1>6, ArrivesAt DEF TypeOK, Pcs, LockedPc
<1>8. TasksInv'
  BY <1>2, <1>3, <1>5, <1>7, OneMoves
<1> QED BY <1>5, <1>7, <1>8 DEF IInv

\* The commit of a requeue preserves the invariant: one attempt takes the place of
\* another.
LEMMA StepRequeueRecorded ==
    ASSUME IInv, NEW t \in Tasks, RequeueRecorded(t)
    PROVE  IInv'
<1>1. PICK o \in Orders, n \in Ids, old \in Ids :
         /\ task[t].order = o /\ task[t].id = n /\ task[t].old = old
         /\ lock[o] = t
         /\ status[o] = "purchasing" /\ attempt[o][old] = "active"
         /\ remote[o][old] = "cancelled"
         /\ attempt[o][n] = "none" /\ remote[o][n] # "absent"
  BY TaskAt DEF RequeueRecorded, Idle, KnowsOf, LockedPc, IsActive
<1>2. /\ attempt' = [attempt EXCEPT ![o][old] = "cancelled", ![o][n] = "active"]
      /\ Finish(t) /\ Release(o)
      /\ UNCHANGED <<status, cost, remote, requested>>
  BY <1>1 DEF RequeueRecorded
<1>3. TypeOK /\ OrdersInv /\ TasksInv
  BY DEF IInv
<1>4. /\ attempt' \in [Orders -> [Ids -> AttemptStatus]]
      /\ attempt'[o][n] = "active" /\ attempt'[o][old] = "cancelled"
      /\ \A m \in Ids \ {n, old} : attempt'[o][m] = attempt[o][m]
      /\ \A p \in Orders \ {o} : attempt'[p] = attempt[p]
  <2>1. attempt \in [Orders -> [Ids -> AttemptStatus]]
    BY <1>3 DEF TypeOK
  <2>2. attempt' = [attempt EXCEPT ![o] =
                      [attempt[o] EXCEPT ![old] = "cancelled", ![n] = "active"]]
    BY <1>1, <1>2, <2>1
  <2>3. attempt'[o] = [attempt[o] EXCEPT ![old] = "cancelled", ![n] = "active"]
    BY <2>1, <2>2
  <2>4. attempt'[o] \in [Ids -> AttemptStatus]
    BY <2>1, <2>3 DEF AttemptStatus
  <2> QED BY <1>1, <2>1, <2>2, <2>3, <2>4
<1>5. TypeOK'
  BY <1>2, <1>3, <1>4, ArrivesIdle DEF TypeOK, Release
<1>6. OrdersInv'
  <2>1. \A m, k \in Ids : attempt'[o][m] = "active" /\ attempt'[o][k] = "active" => m = k
    BY <1>1, <1>3, <1>4 DEF OrdersInv, OneActiveAttempt, IsActive
  <2>2. \A m \in Ids :
           /\ attempt'[o][m] # "none" => remote[o][m] # "absent"
           /\ attempt'[o][m] = "cancelled" => remote[o][m] = "cancelled"
           /\ attempt'[o][m] \notin {"completed", "force_closed"}
    BY <1>1, <1>3, <1>4 DEF OrdersInv, LocalMatchesRemote, FinishedIsSettled, HistoryMatchesStatus
  <2> QED BY <1>1, <1>2, <1>3, <1>4, <2>1, <2>2, CommitOrdersInv DEF Terminal
<1>7. TasksInv'
  <2>1. Monotone
    BY <1>1, <1>2, <1>4 DEF Monotone
  <2>2. \A p \in Orders \ {o} : Untouched(p)
    BY <1>2, <1>4 DEF Untouched
  <2> QED BY <1>1, <1>2, <1>3, <2>1, <2>2, OwnCommitTasksInv
<1> QED BY <1>5, <1>6, <1>7 DEF IInv

\* The first transaction of cancel_active_purchase preserves the invariant.
LEMMA StepCancelBegin ==
    ASSUME IInv, NEW t \in Tasks, NEW o \in Orders, CancelBegin(t, o)
    PROVE  IInv'
<1>1. PICK n \in Ids : /\ attempt[o][n] # "none"
                       /\ task' = [task EXCEPT ![t] = Job("cancelRemote", o, n, NoId)]
  BY DEF CancelBegin, Goto, IsActive
<1>2. UNCHANGED <<status, cost, attempt, remote, requested>> /\ lock' = lock
  BY DEF CancelBegin, database
<1>3. TypeOK /\ OrdersInv /\ TasksInv
  BY DEF IInv
<1>4. KnowsOf("cancelRemote", o, n, NoId)'
  BY <1>1, <1>2 DEF KnowsOf
<1>5. Arrives(t) /\ TypeOK'
  BY <1>1, <1>2, <1>3, <1>4, ArrivesAt DEF TypeOK, Pcs, LockedPc, UnlockedPc
<1>6. OrdersInv'
  BY <1>2, <1>3, OrdersFrame
<1>7. TasksInv'
  BY <1>1, <1>2, <1>3, <1>5, QuietStep, OneMoves
<1> QED BY <1>5, <1>6, <1>7 DEF IInv

\* Cancelling an order without an active attempt preserves the invariant.
LEMMA StepCancelLocally ==
    ASSUME IInv, NEW t \in Tasks, NEW o \in Orders, CancelLocally(t, o)
    PROVE  IInv'
<1>1. /\ \A m \in Ids : attempt[o][m] # "active"
      /\ CanMove(o, "cancelled") /\ lock[o] = NoTask
      /\ status' = [status EXCEPT ![o] = "cancelled"]
      /\ UNCHANGED <<cost, attempt, remote, requested, lock, task>>
  BY DEF CancelLocally, Free, HasActive, IsActive
<1>2. TypeOK /\ OrdersInv /\ TasksInv
  BY DEF IInv
<1>3. /\ status' \in [Orders -> OrderStatus]
      /\ status'[o] = "cancelled"
      /\ \A p \in Orders \ {o} : status'[p] = status[p]
  BY <1>1, <1>2, StatusWrite DEF OrderStatus
<1>4. TypeOK'
  BY <1>1, <1>2, <1>3 DEF TypeOK
<1>5. status[o] \notin {"completed", "force_closed"}
  BY <1>1, <1>2 DEF CanMove, ALLOWED_TRANSITIONS, TypeOK, OrderStatus
<1>6. OrdersInv'
  <2>1. \A m \in Ids :
           /\ attempt'[o][m] # "none" => remote[o][m] # "absent"
           /\ attempt'[o][m] = "cancelled" => remote[o][m] = "cancelled"
           /\ attempt'[o][m] \notin {"active", "completed", "force_closed"}
    BY <1>1, <1>2, <1>5
    DEF OrdersInv, LocalMatchesRemote, FinishedIsSettled, HistoryMatchesStatus
  <2> QED BY <1>1, <1>2, <1>3, <2>1, CommitOrdersInv
<1>7. TasksInv'
  <2>1. Monotone /\ \A p \in Orders \ {o} : Untouched(p)
    BY <1>1, <1>3 DEF Monotone, Untouched
  <2> QED BY <1>1, <1>2, <2>1, NobodyMoves, NoTaskAssumption
<1> QED BY <1>4, <1>6, <1>7 DEF IInv

\* The confirmed cancellation between the two transactions preserves the invariant.
LEMMA StepCancelConfirmed ==
    ASSUME IInv, NEW t \in Tasks, CancelConfirmed(t)
    PROVE  IInv'
<1>1. PICK o \in Orders, n \in Ids, old \in Ids \cup {NoId} :
         task[t].order = o /\ task[t].id = n /\ task[t].old = old
  BY TaskAt DEF CancelConfirmed, Idle, KnowsOf, LockedPc
<1>2. /\ remote[o][n] = "active"
      /\ remote' = [remote EXCEPT ![o][n] = "cancelled"]
      /\ task' = [task EXCEPT ![t] = Job("cancelRecord", o, n, old)]
      /\ UNCHANGED <<status, cost, attempt, requested>> /\ lock' = lock
  BY <1>1 DEF CancelConfirmed, RemoteCancels, Continue, Goto, database
<1>3. TypeOK /\ OrdersInv /\ TasksInv
  BY DEF IInv
<1>4. /\ remote' \in [Orders -> [Ids -> RemoteStatus]]
      /\ remote'[o][n] = "cancelled"
      /\ OrdersInv'
      /\ Monotone
      /\ \A p \in Orders : Untouched(p)
  BY <1>2, <1>3, EndingStep
<1>5. KnowsOf("cancelRecord", o, n, old)'
  BY <1>4 DEF KnowsOf
<1>6. Arrives(t) /\ TypeOK'
  BY <1>2, <1>3, <1>4, <1>5, ArrivesAt DEF TypeOK, Pcs, LockedPc, UnlockedPc
<1>7. TasksInv'
  BY <1>2, <1>3, <1>4, <1>6, OneMoves
<1> QED BY <1>4, <1>6, <1>7 DEF IInv

\* A cancellation whose answer is lost preserves the invariant.
LEMMA StepCancelUnconfirmed ==
    ASSUME IInv, NEW t \in Tasks, CancelUnconfirmed(t)
    PROVE  IInv'
<1>1. PICK o \in Orders, n \in Ids : task[t].order = o /\ task[t].id = n
  BY TaskAt DEF CancelUnconfirmed, Idle, KnowsOf, LockedPc
<1>2. /\ remote[o][n] = "active"
      /\ remote' = [remote EXCEPT ![o][n] = "cancelled"]
      /\ Finish(t)
      /\ UNCHANGED <<status, cost, attempt, requested>> /\ lock' = lock
  BY <1>1 DEF CancelUnconfirmed, RemoteCancels, database
<1>3. TypeOK /\ OrdersInv /\ TasksInv
  BY DEF IInv
<1>4. /\ remote' \in [Orders -> [Ids -> RemoteStatus]]
      /\ OrdersInv'
      /\ Monotone
      /\ \A p \in Orders : Untouched(p)
  BY <1>2, <1>3, EndingStep
<1>5. TypeOK'
  BY <1>2, <1>3, <1>4, ArrivesIdle DEF TypeOK
<1>6. TasksInv'
  BY <1>2, <1>3, <1>4, ArrivesIdle, OneMoves
<1> QED BY <1>4, <1>5, <1>6 DEF IInv

\* The second transaction of cancel_active_purchase preserves the invariant.
LEMMA StepCancelRecorded ==
    ASSUME IInv, NEW t \in Tasks, CancelRecorded(t)
    PROVE  IInv'
<1>1. PICK o \in Orders, n \in Ids :
         /\ task[t].order = o /\ task[t].id = n
         /\ remote[o][n] = "cancelled"
  BY TaskAt DEF CancelRecorded, Idle, KnowsOf, LockedPc
<1>2. /\ attempt[o][n] = "active" /\ lock[o] = NoTask
      /\ CanMove(o, "preorder")
      /\ status' = [status EXCEPT ![o] = "cancelled"]
      /\ attempt' = [attempt EXCEPT ![o][n] = "cancelled"]
      /\ Finish(t) /\ lock' = lock
      /\ UNCHANGED <<cost, remote, requested>>
  BY <1>1 DEF CancelRecorded, Free, IsActive
<1>3. TypeOK /\ OrdersInv /\ TasksInv
  BY DEF IInv
<1>4. /\ status' \in [Orders -> OrderStatus]
      /\ status'[o] = "cancelled"
      /\ \A p \in Orders \ {o} : status'[p] = status[p]
  BY <1>2, <1>3, StatusWrite DEF OrderStatus
<1>5. /\ attempt' \in [Orders -> [Ids -> AttemptStatus]]
      /\ attempt'[o][n] = "cancelled"
      /\ \A m \in Ids \ {n} : attempt'[o][m] = attempt[o][m]
      /\ \A p \in Orders \ {o} : attempt'[p] = attempt[p]
      /\ Monotone
  BY <1>2, <1>3, AttemptWrite DEF AttemptStatus
<1>6. status[o] \notin {"completed", "force_closed"}
  BY <1>2, <1>3 DEF CanMove, ALLOWED_TRANSITIONS, TypeOK, OrderStatus
<1>7. OrdersInv'
  <2>1. \A m \in Ids : attempt'[o][m] # "active"
    BY <1>2, <1>3, <1>5 DEF OrdersInv, OneActiveAttempt, IsActive
  <2>2. \A m \in Ids :
           /\ attempt'[o][m] # "none" => remote[o][m] # "absent"
           /\ attempt'[o][m] = "cancelled" => remote[o][m] = "cancelled"
           /\ attempt'[o][m] \notin {"completed", "force_closed"}
    BY <1>1, <1>3, <1>5, <1>6
    DEF OrdersInv, LocalMatchesRemote, FinishedIsSettled, HistoryMatchesStatus
  <2> QED BY <1>2, <1>3, <1>4, <1>5, <2>1, <2>2, CommitOrdersInv
<1>8. TypeOK'
  BY <1>2, <1>3, <1>4, <1>5, ArrivesIdle DEF TypeOK
<1>9. TasksInv'
  <2>1. \A p \in Orders \ {o} : Untouched(p)
    BY <1>2, <1>4, <1>5 DEF Untouched
  <2> QED BY <1>2, <1>3, <1>5, <2>1, FreeCommitTasksInv
<1> QED BY <1>7, <1>8, <1>9 DEF IInv

\* Force closing an order with its attempts preserves the invariant.
LEMMA StepForceClose ==
    ASSUME IInv, NEW o \in Orders, ForceClose(o)
    PROVE  IInv'
<1> DEFINE closed == [n \in Ids |-> IF attempt[o][n] = "active" THEN "force_closed"
                                                             ELSE attempt[o][n]]
<1>1. /\ CanMove(o, "force_closed") /\ lock[o] = NoTask
      /\ status' = [status EXCEPT ![o] = "force_closed"]
      /\ attempt' = [attempt EXCEPT ![o] = closed]
      /\ UNCHANGED <<cost, remote, requested, lock, task>>
  BY DEF ForceClose, Free, IInv, TypeOK
<1>2. TypeOK /\ OrdersInv /\ TasksInv
  BY DEF IInv
<1>3. /\ status' \in [Orders -> OrderStatus]
      /\ status'[o] = "force_closed"
      /\ \A p \in Orders \ {o} : status'[p] = status[p]
  BY <1>1, <1>2, StatusWrite DEF OrderStatus
<1>4. /\ attempt' \in [Orders -> [Ids -> AttemptStatus]]
      /\ \A m \in Ids : attempt[o][m] = "active" => attempt'[o][m] = "force_closed"
      /\ \A m \in Ids : attempt[o][m] # "active" => attempt'[o][m] = attempt[o][m]
      /\ \A p \in Orders \ {o} : attempt'[p] = attempt[p]
  <2>1. attempt \in [Orders -> [Ids -> AttemptStatus]]
    BY <1>2 DEF TypeOK
  <2>2. closed \in [Ids -> AttemptStatus]
    BY <2>1 DEF AttemptStatus
  <2> QED BY <1>1, <2>1, <2>2
<1>5. status[o] \notin {"completed", "force_closed"}
  BY <1>1, <1>2 DEF CanMove, ALLOWED_TRANSITIONS, TypeOK, OrderStatus
<1>6. OrdersInv'
  <2>1. \A m \in Ids :
           /\ attempt'[o][m] # "none" => remote[o][m] # "absent"
           /\ attempt'[o][m] = "cancelled" => remote[o][m] = "cancelled"
           /\ attempt'[o][m] \notin {"active", "completed"}
    BY <1>2, <1>4, <1>5 DEF OrdersInv, LocalMatchesRemote, FinishedIsSettled
  <2> QED BY <1>1, <1>2, <1>3, <1>4, <2>1, CommitOrdersInv
<1>7. TypeOK'
  BY <1>1, <1>2, <1>3, <1>4 DEF TypeOK
<1>8. TasksInv'
  <2>1. Monotone
    BY <1>1, <1>4 DEF Monotone
  <2>2. \A p \in Orders \ {o} : Untouched(p)
    BY <1>1, <1>3, <1>4 DEF Untouched
  <2> QED BY <1>1, <1>2, <2>1, <2>2, NobodyMoves, NoTaskAssumption
<1> QED BY <1>6, <1>7, <1>8 DEF IInv

\* Sending a Draft to the PreOrders preserves the invariant.
LEMMA StepSendToPreorder ==
    ASSUME IInv, NEW o \in Orders, SendToPreorder(o)
    PROVE  IInv'
<1>1. /\ status[o] = "draft" /\ lock[o] = NoTask
      /\ status' = [status EXCEPT ![o] = "preorder"]
      /\ UNCHANGED <<cost, attempt, remote, requested, lock, task>>
  BY DEF SendToPreorder, Free
<1>2. TypeOK /\ OrdersInv /\ TasksInv
  BY DEF IInv
<1>3. /\ status' \in [Orders -> OrderStatus]
      /\ status'[o] = "preorder"
      /\ \A p \in Orders \ {o} : status'[p] = status[p]
  BY <1>1, <1>2, StatusWrite DEF OrderStatus
<1>4. TypeOK'
  BY <1>1, <1>2, <1>3 DEF TypeOK
<1>5. OrdersInv'
  <2>1. \A n \in Ids : attempt'[o][n] = "none"
    BY <1>1, <1>2 DEF OrdersInv, HistoryMatchesStatus
  <2> QED BY <1>1, <1>2, <1>3, <2>1, CommitOrdersInv DEF Terminal
<1>6. TasksInv'
  <2>1. Monotone /\ \A p \in Orders \ {o} : Untouched(p)
    BY <1>1, <1>3 DEF Monotone, Untouched
  <2> QED BY <1>1, <1>2, <2>1, NobodyMoves, NoTaskAssumption
<1> QED BY <1>4, <1>5, <1>6 DEF IInv

\* Deleting a Draft preserves the invariant: it has no attempts.
LEMMA StepDeleteDraft ==
    ASSUME IInv, NEW o \in Orders, DeleteDraft(o)
    PROVE  IInv'
<1>1. /\ status[o] = "draft" /\ lock[o] = NoTask
      /\ status' = [status EXCEPT ![o] = "cancelled"]
      /\ UNCHANGED <<cost, attempt, remote, requested, lock, task>>
  BY DEF DeleteDraft, Free
<1>2. TypeOK /\ OrdersInv /\ TasksInv
  BY DEF IInv
<1>3. /\ status' \in [Orders -> OrderStatus]
      /\ status'[o] = "cancelled"
      /\ \A p \in Orders \ {o} : status'[p] = status[p]
  BY <1>1, <1>2, StatusWrite DEF OrderStatus
<1>4. TypeOK'
  BY <1>1, <1>2, <1>3 DEF TypeOK
<1>5. OrdersInv'
  <2>1. \A n \in Ids : attempt'[o][n] = "none"
    BY <1>1, <1>2 DEF OrdersInv, HistoryMatchesStatus
  <2> QED BY <1>1, <1>2, <1>3, <2>1, CommitOrdersInv
<1>6. TasksInv'
  <2>1. Monotone /\ \A p \in Orders \ {o} : Untouched(p)
    BY <1>1, <1>3 DEF Monotone, Untouched
  <2> QED BY <1>1, <1>2, <2>1, NobodyMoves, NoTaskAssumption
<1> QED BY <1>4, <1>5, <1>6 DEF IInv

\* An early return or a rollback preserves the invariant: only a lock is released.
LEMMA StepAbort ==
    ASSUME IInv, NEW t \in Tasks, Abort(t)
    PROVE  IInv'
<1>1. /\ Finish(t)
      /\ lock' = [o \in Orders |-> IF lock[o] = t THEN NoTask ELSE lock[o]]
      /\ UNCHANGED <<status, cost, attempt, remote, requested>>
  BY DEF Abort, database
<1>2. TypeOK /\ OrdersInv /\ TasksInv
  BY DEF IInv
<1>3. TypeOK'
  BY <1>1, <1>2, ArrivesIdle DEF TypeOK
<1>4. OrdersInv'
  BY <1>1, <1>2, OrdersFrame
<1>5. \A p \in Orders : lock[p] \in Tasks \ {t} => lock'[p] = lock[p]
  BY <1>1
<1>6. TasksInv'
  BY <1>1, <1>2, <1>5, ArrivesIdle, QuietStep, OneMoves
<1> QED BY <1>3, <1>4, <1>6 DEF IInv

\* A crash preserves the invariant: no coroutine is left to know anything.
LEMMA StepCrash ==
    ASSUME IInv, Crash
    PROVE  IInv'
<1>1. /\ task' = [t \in Tasks |-> Idle]
      /\ lock' = [o \in Orders |-> NoTask]
      /\ UNCHANGED <<status, cost, attempt, remote, requested>>
  BY DEF Crash, database
<1>2. TypeOK /\ OrdersInv
  BY DEF IInv
<1>3. TypeOK'
  BY <1>1, <1>2 DEF TypeOK
<1>4. OrdersInv'
  BY <1>1, <1>2, OrdersFrame
<1>5. TasksInv'
  BY <1>1 DEF TasksInv, HoldsLock, TaskKnows, Idle, LockedPc
<1> QED BY <1>3, <1>4, <1>5 DEF IInv

\* What RBXCrate does by itself preserves the invariant: it only ends what it is working
\* on.
LEMMA StepRemote ==
    ASSUME IInv, NEW o \in Orders, NEW n \in Ids, RemoteCompletes(o, n) \/ RemoteFails(o, n)
    PROVE  IInv'
<1>1. PICK s \in {"completed", "cancelled"} : remote' = [remote EXCEPT ![o][n] = s]
  BY DEF RemoteCompletes, RemoteFails, RemoteCancels
<1>2. /\ remote[o][n] = "active"
      /\ UNCHANGED <<status, cost, attempt, requested, lock, task>>
  BY DEF RemoteCompletes, RemoteFails, RemoteCancels, database
<1>3. TypeOK /\ OrdersInv /\ TasksInv
  BY DEF IInv
<1>4. /\ remote' \in [Orders -> [Ids -> RemoteStatus]]
      /\ OrdersInv'
      /\ Monotone
      /\ \A p \in Orders : Untouched(p)
  BY <1>1, <1>2, <1>3, EndingStep
<1>5. TypeOK'
  BY <1>2, <1>3, <1>4 DEF TypeOK
<1>6. TasksInv'
  BY <1>2, <1>3, <1>4, NobodyMoves
<1> QED BY <1>4, <1>5, <1>6 DEF IInv

\* A request executed without its caller learning of it, or long after it gave up, preserves
\* the invariant.
LEMMA StepRemoteExecutes ==
    ASSUME IInv, NEW o \in Orders, NEW n \in Ids, RemoteExecutes(o, n)
    PROVE  IInv'
<1>1. /\ n \in requested[o] /\ RemoteCreates(o, n)
      /\ UNCHANGED <<status, cost, attempt, requested, lock, task>>
  BY DEF RemoteExecutes, database
<1>2. TypeOK /\ OrdersInv /\ TasksInv
  BY DEF IInv
<1>3. /\ remote' \in [Orders -> [Ids -> RemoteStatus]]
      /\ OrdersInv'
      /\ Monotone
      /\ \A p \in Orders : Untouched(p)
  BY <1>1, <1>2, CreationStep
<1>4. TypeOK'
  BY <1>1, <1>2, <1>3 DEF TypeOK
<1>5. TasksInv'
  BY <1>1, <1>2, <1>3, NobodyMoves
<1> QED BY <1>3, <1>4, <1>5 DEF IInv

-----------------------------------------------------------------------------
(***************************************************************************)
(* The invariant, and what follows from it                                 *)
(***************************************************************************)

\* The invariant holds before the program has done anything.
THEOREM InitIInv == Init => IInv
<1> SUFFICES ASSUME Init PROVE IInv
  OBVIOUS
<1>1. TypeOK
  BY ZeroIsId DEF Init, TypeOK, OrderStatus, AttemptStatus, RemoteStatus
<1>2. OrdersInv
  BY ZeroIsId DEF Init, OrdersInv, OneActiveAttempt, PurchasingIsBacked, FinishedIsSettled,
     LocalMatchesRemote, OneMayBeLive, MayBeLive, HistoryMatchesStatus, OnlyRequested, FirstIdFirst,
     Terminal, IsActive, HasActive
<1>3. TasksInv
  BY DEF Init, TasksInv, HoldsLock, TaskKnows, Idle, LockedPc
<1> QED BY <1>1, <1>2, <1>3 DEF IInv

\* Every step preserves it: one case per action.
THEOREM NextIInv == IInv /\ [Next]_vars => IInv'
<1> SUFFICES ASSUME IInv, [Next]_vars PROVE IInv'
  OBVIOUS
<1>1. CASE UNCHANGED vars
  <2>1. TypeOK' /\ OrdersInv'
    BY <1>1, OrdersFrame DEF vars, IInv, TypeOK
  <2>2. TasksInv'
    BY <1>1, QuietStep, NobodyMoves DEF vars, IInv
  <2> QED BY <2>1, <2>2 DEF IInv
<1>2. ASSUME NEW t \in Tasks, StartStep(t) PROVE IInv'
  BY <1>2, StepStartPurchase, StepStartWithoutStock, StepFastTrigger, StepStartCreated,
     StepStartRecorded DEF StartStep
<1>3. ASSUME NEW t \in Tasks, SyncStep(t) PROVE IInv'
  BY <1>3, StepSyncRead, StepSyncApply DEF SyncStep
<1>4. ASSUME NEW t \in Tasks, RequeueStep(t) PROVE IInv'
  BY <1>4, StepRequeueSettles, StepRequeueBegin, StepRequeueCancelled, StepRequeueNotCancelled,
     StepRequeueCreated, StepRequeueRecorded DEF RequeueStep
<1>5. ASSUME NEW t \in Tasks, CancelStep(t) PROVE IInv'
  BY <1>5, StepCancelBegin, StepCancelLocally, StepCancelConfirmed, StepCancelUnconfirmed,
     StepCancelRecorded DEF CancelStep
<1>6. ASSUME NEW o \in Orders, ForceClose(o) \/ SendToPreorder(o) \/ DeleteDraft(o) PROVE IInv'
  BY <1>6, StepForceClose, StepSendToPreorder, StepDeleteDraft
<1>7. CASE RemoteStep
  BY <1>7, StepRemote, StepRemoteExecutes DEF RemoteStep
<1> QED BY <1>1, <1>2, <1>3, <1>4, <1>5, <1>6, <1>7, StepAbort, StepCrash DEF Next

\* The inductive invariant holds in every reachable state.
THEOREM InductiveInvariant == Spec => []IInv
BY InitIInv, NextIInv, PTL DEF Spec

\* Every variable keeps its type.
THEOREM TypeCorrect == Spec => []TypeOK
<1>1. IInv => TypeOK
  BY DEF IInv
<1> QED BY <1>1, InductiveInvariant, PTL

\* An order never has two active attempts, whatever start_purchase, the replacements and
\* the other operations do between their checks and their commits.
THEOREM OneActive == Spec => []OneActiveAttempt
<1>1. IInv => OneActiveAttempt
  BY DEF IInv, OrdersInv
<1> QED BY <1>1, InductiveInvariant, PTL

\* A Purchasing order always has an active attempt: recovery finds no orphan.
THEOREM Backed == Spec => []PurchasingIsBacked
<1>1. IInv => PurchasingIsBacked
  BY DEF IInv, OrdersInv
<1> QED BY <1>1, InductiveInvariant, PTL

\* A finished order has no active attempt, and is completed exactly when an attempt is.
THEOREM Settled == Spec => []FinishedIsSettled
<1>1. IInv => FinishedIsSettled
  BY DEF IInv, OrdersInv
<1> QED BY <1>1, InductiveInvariant, PTL

\* The outcome of an attempt in the database is the one RBXCrate gave it.
THEOREM Matches == Spec => []LocalMatchesRemote
<1>1. IInv => LocalMatchesRemote
  BY DEF IInv, OrdersInv
<1> QED BY <1>1, InductiveInvariant, PTL

\* RBXCrate never works on, or has delivered, two purchases of one order.
THEOREM OneLive == Spec => []OneLivePurchase
<1>1. IInv => OneLivePurchase
  BY DEF IInv, OrdersInv, OnlyRequested, OneMayBeLive, MayBeLive, OneLivePurchase
<1> QED BY <1>1, InductiveInvariant, PTL

\* A purchase RBXCrate accepted can be inserted: no unique index refuses it.
THEOREM Recordable == Spec => []CreationIsRecordable
<1>1. IInv => CreationIsRecordable
  <2> SUFFICES ASSUME IInv, NEW t \in Tasks,
                      task[t].pc \in {"startRecord", "requeueRecord"}
               PROVE  LET o == task[t].order
                      IN  /\ attempt[o][task[t].id] = "none"
                          /\ task[t].pc = "startRecord" => ~HasActive(o)
                          /\ task[t].pc = "requeueRecord" => IsActive(o, task[t].old)
    BY DEF CreationIsRecordable
  <2> QED BY TaskAt DEF Idle, KnowsOf, HasActive
<1> QED BY <1>1, InductiveInvariant, PTL

-----------------------------------------------------------------------------
(***************************************************************************)
(* What no step does                                                       *)
(***************************************************************************)

\* Of all the orders RBXCrate may create or cancel, one step concerns one.
LEMMA CreatesOne ==
    ASSUME TypeOK, NEW p \in Orders, NEW m \in Ids, RemoteCreates(p, m),
           NEW o \in Orders, NEW n \in Ids, remote[o][n] = "absent", remote'[o][n] # "absent"
    PROVE  o = p /\ n = m
BY DEF TypeOK, RemoteCreates

\* Whatever RBXCrate creates it was asked for before.
LEMMA NextCreatesRequested ==
    ASSUME IInv, [Next]_vars, NEW o \in Orders, NEW n \in Ids,
           remote[o][n] = "absent", remote'[o][n] # "absent"
    PROVE  n \in requested[o]
<1>1. TypeOK
  BY DEF IInv
<1>2. ASSUME NEW t \in Tasks, StartCreated(t) \/ RequeueCreated(t)
      PROVE  n \in requested[o]
  <2>1. PICK p \in Orders, m \in Ids : task[t].order = p /\ task[t].id = m /\ m \in requested[p]
    BY <1>2, TaskAt, ZeroIsId DEF StartCreated, RequeueCreated, Idle, KnowsOf
  <2>2. RemoteCreates(p, m)
    BY <1>2, <2>1 DEF StartCreated, RequeueCreated
  <2> QED BY <1>1, <2>1, <2>2, CreatesOne
<1>3. ASSUME NEW p, NEW m, RemoteCancels(p, m)
      PROVE  FALSE
  BY <1>1, <1>3 DEF RemoteCancels, TypeOK
<1>4. UNCHANGED remote => FALSE
  OBVIOUS
<1>5. ASSUME NEW t \in Tasks, StartStep(t) PROVE n \in requested[o]
  BY <1>2, <1>4, <1>5 DEF StartStep, StartPurchase, StartWithoutStock, FastTrigger, StartRecorded
<1>6. ASSUME NEW t \in Tasks, SyncStep(t) PROVE FALSE
  BY <1>4, <1>6 DEF SyncStep, SyncRead, SyncApply
<1>7. ASSUME NEW t \in Tasks, RequeueStep(t) PROVE n \in requested[o]
  BY <1>2, <1>3, <1>4, <1>7 DEF RequeueStep, RequeueSettles, RequeueBegin, RequeueCancelled,
     RequeueNotCancelled, RequeueRecorded
<1>8. ASSUME NEW t \in Tasks, CancelStep(t) PROVE FALSE
  BY <1>3, <1>4, <1>8 DEF CancelStep, CancelBegin, CancelLocally, CancelConfirmed,
     CancelUnconfirmed, CancelRecorded
<1>9. CASE RemoteStep
  <2>1. ASSUME NEW p \in Orders, NEW m \in Ids, RemoteExecutes(p, m) PROVE n \in requested[o]
    BY <1>1, <2>1, CreatesOne DEF RemoteExecutes
  <2>2. ASSUME NEW p \in Orders, NEW m \in Ids, RemoteCompletes(p, m) PROVE FALSE
    BY <1>1, <2>2 DEF RemoteCompletes, TypeOK
  <2> QED BY <1>3, <1>9, <2>1, <2>2 DEF RemoteStep, RemoteFails
<1>10. ASSUME \/ \E t \in Tasks : Abort(t)
              \/ \E p \in Orders : ForceClose(p) \/ SendToPreorder(p) \/ DeleteDraft(p)
              \/ Crash \/ UNCHANGED vars
       PROVE  FALSE
  BY <1>4, <1>10 DEF Abort, ForceClose, SendToPreorder, DeleteDraft, Crash, vars
<1> QED BY <1>5, <1>6, <1>7, <1>8, <1>9, <1>10 DEF Next

\* What is created for a finished order is not what anybody waits for, and the order was not
\* delivered: of a completed order no other purchase may become live.
THEOREM NextLateIsStray ==
    ASSUME IInv, [Next]_vars, NEW o \in Orders, NEW n \in Ids,
           remote[o][n] = "absent", remote'[o][n] # "absent", status[o] \in Terminal
    PROVE  status[o] # "completed" /\ \A t \in Tasks : ~AwaitsCreation(t, o, n)
<1>1. status[o] # "completed"
  <2> SUFFICES ASSUME status[o] = "completed" PROVE FALSE
    OBVIOUS
  <2>1. PICK m \in Ids : attempt[o][m] = "completed"
    BY DEF IInv, OrdersInv, FinishedIsSettled
  <2>2. remote[o][m] = "completed"
    BY <2>1 DEF IInv, OrdersInv, LocalMatchesRemote
  <2>3. n \in requested[o] /\ m \in requested[o]
    BY <2>2, NextCreatesRequested, PurchasesOf DEF IInv
  <2>4. n = m
    BY <2>2, <2>3, PurchasesOf DEF IInv
  <2> QED BY <2>2, <2>4
<1>2. ASSUME NEW t \in Tasks, AwaitsCreation(t, o, n) PROVE FALSE
  BY <1>2, TaskAt DEF AwaitsCreation, Idle, KnowsOf, Terminal
<1> QED BY <1>1, <1>2

\* What RBXCrate creates for a finished order is a request its caller gave up.
THEOREM LateIsStray == Spec => LatePurchasesAreStray
<1>1. IInv /\ [Next]_vars =>
        [\A o \in Orders, n \in Ids :
            remote[o][n] = "absent" /\ remote'[o][n] # "absent" /\ status[o] \in Terminal =>
                /\ status[o] # "completed"
                /\ \A t \in Tasks : ~AwaitsCreation(t, o, n)]_vars
  BY NextLateIsStray
<1> QED BY <1>1, InductiveInvariant, PTL DEF Spec, LatePurchasesAreStray

\* Finished orders and attempts are left as they are.
Kept ==
    \A o \in Orders :
        /\ status[o] \in Terminal => status'[o] = status[o] /\ cost'[o] = cost[o]
        /\ \A n \in Ids :
            attempt[o][n] \in Terminal => attempt'[o][n] = attempt[o][n]

\* Giving an unfinished order a new status changes nothing that is finished.
LEMMA StatusKept ==
    ASSUME TypeOK, NEW o \in Orders, NEW s, status[o] \notin Terminal,
           status' = [status EXCEPT ![o] = s], UNCHANGED <<cost, attempt>>
    PROVE  Kept
BY DEF TypeOK, Kept

\* A write to one unfinished order and to one attempt of it that is not finished, or is
\* so already with the status written, changes nothing that is finished.
LEMMA AttemptKept ==
    ASSUME TypeOK, NEW o \in Orders, NEW n \in Ids, NEW a, NEW s, status[o] \notin Terminal,
           attempt[o][n] \notin Terminal \/ attempt[o][n] = a,
           status' = [status EXCEPT ![o] = s],
           attempt' = [attempt EXCEPT ![o][n] = a],
           \A p \in Orders \ {o} : cost'[p] = cost[p]
    PROVE  Kept
BY DEF TypeOK, Kept

\* Applying a snapshot changes no finished order and no finished attempt.
LEMMA ApplyKept ==
    ASSUME TypeOK, OrdersInv, NEW o \in Orders, NEW n \in Ids,
           ApplyCompleted(o, n) \/ ApplyCancelled(o, n) \/ ApplyActive(o, n)
    PROVE  Kept
<1>1. attempt[o][n] = "cancelled" => remote[o][n] = "cancelled"
  BY DEF OrdersInv, LocalMatchesRemote
<1>2. /\ attempt[o][n] = "completed" => status[o] = "completed"
      /\ attempt[o][n] = "force_closed" => status[o] = "force_closed"
  BY DEF OrdersInv, FinishedIsSettled, HistoryMatchesStatus
<1>3. status[o] \in OrderStatus
  BY DEF TypeOK
<1>4. CASE ApplyCompleted(o, n)
  <2>1. status[o] \notin Terminal
    BY <1>3, <1>4 DEF ApplyCompleted, CanMove, ALLOWED_TRANSITIONS, OrderStatus, Terminal
  <2>2. attempt[o][n] \notin Terminal
    BY <1>1, <1>2, <1>4, <2>1 DEF ApplyCompleted, Terminal
  <2>3. \A p \in Orders \ {o} : cost'[p] = cost[p]
    BY <1>4 DEF ApplyCompleted, TypeOK
  <2> QED BY <1>4, <2>1, <2>2, <2>3, AttemptKept DEF ApplyCompleted
<1>5. CASE ApplyCancelled(o, n)
  <2>1. status[o] \notin Terminal
    BY <1>3, <1>5 DEF ApplyCancelled, CanMove, ALLOWED_TRANSITIONS, OrderStatus, Terminal
  <2>2. attempt[o][n] \notin Terminal \/ attempt[o][n] = "cancelled"
    BY <1>2, <2>1 DEF Terminal
  <2> QED BY <1>5, <2>1, <2>2, AttemptKept DEF ApplyCancelled
<1>6. CASE ApplyActive(o, n)
  BY <1>6 DEF ApplyActive, Kept, TypeOK, Terminal
<1> QED BY <1>4, <1>5, <1>6

\* No step changes a finished order or a finished attempt: the step form of
\* FinishedForGood.
THEOREM NextKept == IInv /\ [Next]_vars => Kept
<1> SUFFICES ASSUME IInv, [Next]_vars PROVE Kept
  OBVIOUS
<1>1. TypeOK /\ OrdersInv
  BY DEF IInv
<1>2. UNCHANGED database => Kept
  BY DEF database, Kept
<1>3. ASSUME NEW t \in Tasks, StartRecorded(t) PROVE Kept
  <2>1. PICK o \in Orders : task[t].order = o /\ task[t].id = 0 /\ status[o] \in {"draft", "preorder"}
    BY <1>3, TaskAt DEF StartRecorded, Idle, KnowsOf
  <2> QED BY <1>1, <1>3, <2>1, AttemptKept, ZeroIsId DEF StartRecorded, Terminal
<1>4. ASSUME NEW t \in Tasks, StartStep(t) PROVE Kept
  <2>1. ASSUME NEW o \in Orders, StartWithoutStock(t, o) PROVE Kept
    BY <1>1, <2>1, StatusKept DEF StartWithoutStock, Terminal
  <2> QED BY <1>2, <1>3, <1>4, <2>1 DEF StartStep, StartPurchase, FastTrigger, StartCreated
<1>5. ASSUME NEW t \in Tasks, SyncStep(t) PROVE Kept
  <2>1. ASSUME SyncApply(t) PROVE Kept
    <3>1. PICK o \in Orders, n \in Ids : task[t].order = o /\ task[t].id = n
      BY <2>1, TaskAt DEF SyncApply, Idle, KnowsOf
    <3> QED BY <1>1, <2>1, <3>1, ApplyKept DEF SyncApply
  <2> QED BY <1>2, <1>5, <2>1 DEF SyncStep, SyncRead
<1>6. ASSUME NEW t \in Tasks, RequeueStep(t) PROVE Kept
  <2>1. ASSUME NEW o \in Orders, RequeueSettles(t, o) PROVE Kept
    BY <1>1, <2>1, ApplyKept DEF RequeueSettles
  <2>2. ASSUME RequeueRecorded(t) PROVE Kept
    <3>1. PICK o \in Orders, n \in Ids, old \in Ids :
             /\ task[t].order = o /\ task[t].id = n /\ task[t].old = old
             /\ attempt[o][old] = "active" /\ attempt[o][n] = "none"
      BY <2>2, TaskAt DEF RequeueRecorded, Idle, KnowsOf, IsActive
    <3>2. /\ attempt' = [attempt EXCEPT ![o][old] = "cancelled", ![o][n] = "active"]
          /\ UNCHANGED <<status, cost>>
      BY <2>2, <3>1 DEF RequeueRecorded
    <3>3. attempt \in [Orders -> [Ids -> AttemptStatus]]
      BY <1>1 DEF TypeOK
    <3>4. \A p \in Orders, m \in Ids :
             (p = o => m \notin {n, old}) => attempt'[p][m] = attempt[p][m]
      BY <3>2, <3>3
    <3> QED BY <3>1, <3>2, <3>4 DEF Kept, Terminal
  <2> QED BY <1>2, <1>6, <2>1, <2>2 DEF RequeueStep, RequeueBegin, RequeueCancelled,
      RequeueNotCancelled, RequeueCreated, RollBack
<1>7. ASSUME NEW t \in Tasks, CancelStep(t) PROVE Kept
  <2>1. \A o \in Orders : /\ CanMove(o, "cancelled") => status[o] \notin Terminal
                          /\ CanMove(o, "preorder") => status[o] \notin Terminal
    BY <1>1 DEF TypeOK, CanMove, ALLOWED_TRANSITIONS, OrderStatus, Terminal
  <2>2. ASSUME NEW o \in Orders, CancelLocally(t, o) PROVE Kept
    BY <1>1, <2>1, <2>2, StatusKept DEF CancelLocally
  <2>3. ASSUME CancelRecorded(t) PROVE Kept
    <3>1. PICK o \in Orders, n \in Ids : task[t].order = o /\ task[t].id = n
      BY <2>3, TaskAt DEF CancelRecorded, Idle, KnowsOf
    <3> QED BY <1>1, <2>1, <2>3, <3>1, AttemptKept DEF CancelRecorded, IsActive, Terminal
  <2> QED BY <1>2, <1>7, <2>2, <2>3 DEF CancelStep, CancelBegin, CancelConfirmed, CancelUnconfirmed
<1>8. ASSUME NEW o \in Orders, ForceClose(o) PROVE Kept
  <2>1. status[o] \notin Terminal
    BY <1>1, <1>8 DEF ForceClose, TypeOK, CanMove, ALLOWED_TRANSITIONS, OrderStatus, Terminal
  <2> QED BY <1>1, <1>8, <2>1 DEF ForceClose, Kept, TypeOK, Terminal
<1>9. ASSUME NEW o \in Orders, SendToPreorder(o) \/ DeleteDraft(o) PROVE Kept
  BY <1>1, <1>9, StatusKept DEF SendToPreorder, DeleteDraft, Terminal
<1>10. ASSUME (\E t \in Tasks : Abort(t)) \/ Crash \/ RemoteStep \/ UNCHANGED vars
       PROVE  Kept
  BY <1>2, <1>10 DEF Abort, Crash, RemoteStep, RemoteCompletes, RemoteFails, RemoteExecutes,
     vars, database
<1> QED BY <1>4, <1>5, <1>6, <1>7, <1>8, <1>9, <1>10 DEF Next

\* A finished order or attempt never changes again.
THEOREM FinishedForGood == Spec => FinishedStaysFinished
<1>1. IInv /\ [Next]_vars => [Kept]_vars
  BY NextKept
<1> QED BY <1>1, InductiveInvariant, PTL DEF Spec, FinishedStaysFinished, Kept

-----------------------------------------------------------------------------
(***************************************************************************)
(* Refinement: every step is one step of the order life cycle, or none     *)
(***************************************************************************)

ActiveOf(o) == {n \in Ids : IsActive(o, n)}
CompletedOf(o) == {n \in Ids : attempt[o][n] = "completed"}

\* The part of the life cycle's state that an order's attempts make up.
LEMMA MappedWorking ==
    ASSUME NEW o \in Orders, NEW s, ActiveOf(o)' = s,
           \A p \in Orders \ {o} : attempt'[p] = attempt[p]
    PROVE  Lifecycle!SetWorking(o, s)
BY DEF Lifecycle!SetWorking, ActiveOf, IsActive

\* A write to one order's attempts changes what the life cycle calls delivered for that
\* order only.
LEMMA MappedDelivered ==
    ASSUME NEW o \in Orders, NEW s, CompletedOf(o)' = s,
           \A p \in Orders \ {o} : attempt'[p] = attempt[p]
    PROVE  [p \in Orders |-> CompletedOf(p)]' = [[p \in Orders |-> CompletedOf(p)] EXCEPT ![o] = s]
BY DEF CompletedOf

\* A step that completes no attempt leaves the life cycle's delivered as it was.
LEMMA NothingDelivered ==
    ASSUME \A p \in Orders : CompletedOf(p)' = CompletedOf(p)
    PROVE  [p \in Orders |-> CompletedOf(p)]' = [p \in Orders |-> CompletedOf(p)]
OBVIOUS

\* A step that writes neither status nor attempts is a stutter of the life cycle.
LEMMA MapsQuiet ==
    ASSUME UNCHANGED <<status, attempt>>
    PROVE  UNCHANGED Lifecycle!lifecycleVars
BY DEF Lifecycle!lifecycleVars, IsActive

\* A Draft becoming a PreOrder is the life cycle's Wait.
LEMMA MapsWait ==
    ASSUME NEW o \in Orders, status[o] = "draft",
           status' = [status EXCEPT ![o] = "preorder"], UNCHANGED attempt
    PROVE  Lifecycle!Wait(o)
BY DEF Lifecycle!Wait, Lifecycle!SetStatus, IsActive

\* The commit of start_purchase is the life cycle's Buy.
LEMMA MapsRecorded ==
    ASSUME IInv, NEW t \in Tasks, StartRecorded(t)
    PROVE  Lifecycle!Next
<1>1. PICK o \in Orders :
         /\ task[t].order = o /\ task[t].id = 0
         /\ status[o] \in {"draft", "preorder"}
         /\ \A m \in Ids : attempt[o][m] # "active"
         /\ attempt[o][0] = "none"
  BY TaskAt DEF StartRecorded, Idle, KnowsOf, IsActive
<1>2. /\ status' = [status EXCEPT ![o] = "purchasing"]
      /\ attempt' = [attempt EXCEPT ![o][0] = "active"]
      /\ UNCHANGED <<remote, requested>>
  BY <1>1 DEF StartRecorded
<1>3. /\ attempt'[o][0] = "active"
      /\ \A m \in Ids \ {0} : attempt'[o][m] = attempt[o][m]
      /\ \A p \in Orders \ {o} : attempt'[p] = attempt[p]
  BY <1>2, AttemptWrite, ZeroIsId DEF AttemptStatus, IInv
<1>4. ActiveOf(o) = {} /\ ActiveOf(o)' = {0}
  BY <1>1, <1>3, ZeroIsId DEF ActiveOf, IsActive
<1>5. Lifecycle!SetWorking(o, {0})
  BY <1>3, <1>4, MappedWorking
<1>6. \A p \in Orders : CompletedOf(p)' = CompletedOf(p)
  BY <1>1, <1>3 DEF CompletedOf
<1>7. Lifecycle!Buy(o)
  BY <1>1, <1>2, <1>4, <1>5, <1>6, NothingDelivered, ZeroIsId
  DEF Lifecycle!Buy, Lifecycle!SetStatus, ActiveOf, CompletedOf
<1> QED BY <1>7 DEF Lifecycle!Next

\* Applying a snapshot is Complete, GiveBack or Misplace, or a stutter.
LEMMA MapsApply ==
    ASSUME TypeOK, OrdersInv, NEW o \in Orders, NEW n \in Ids, attempt[o][n] # "none",
           UNCHANGED <<remote, requested>>,
           ApplyCompleted(o, n) \/ ApplyCancelled(o, n) \/ ApplyActive(o, n)
    PROVE  Lifecycle!Next \/ UNCHANGED Lifecycle!lifecycleVars
<1>1. /\ status[o] \in OrderStatus
      /\ attempt[o][n] \in AttemptStatus
  BY DEF TypeOK
<1>2. \A m, k \in Ids : attempt[o][m] = "active" /\ attempt[o][k] = "active" => m = k
  BY DEF OrdersInv, OneActiveAttempt, IsActive
<1>3. /\ attempt[o][n] = "cancelled" => remote[o][n] = "cancelled"
      /\ \A m \in Ids : attempt[o][m] = "completed" => status[o] = "completed"
      /\ attempt[o][n] = "force_closed" => status[o] = "force_closed"
      /\ status[o] # "draft"
  BY DEF OrdersInv, LocalMatchesRemote, FinishedIsSettled, HistoryMatchesStatus
<1>4. CASE ApplyCompleted(o, n)
  <2>1. status[o] \in {"preorder", "purchasing"} /\ attempt[o][n] = "active"
    BY <1>1, <1>3, <1>4
    DEF ApplyCompleted, CanMove, ALLOWED_TRANSITIONS, OrderStatus, AttemptStatus
  <2>2. /\ status' = [status EXCEPT ![o] = "completed"]
        /\ attempt' = [attempt EXCEPT ![o][n] = "completed"]
    BY <1>4 DEF ApplyCompleted
  <2>3. /\ attempt'[o][n] = "completed"
        /\ \A m \in Ids \ {n} : attempt'[o][m] = attempt[o][m]
        /\ \A p \in Orders \ {o} : attempt'[p] = attempt[p]
    BY <2>2, AttemptWrite DEF AttemptStatus
  <2>4. ActiveOf(o) = {n} /\ ActiveOf(o)' = {}
    BY <1>2, <2>1, <2>3 DEF ActiveOf, IsActive
  <2>5. CompletedOf(o) = {} /\ CompletedOf(o)' = {n}
    BY <1>3, <2>1, <2>3 DEF CompletedOf
  <2>6. Lifecycle!SetWorking(o, {})
    BY <2>3, <2>4, MappedWorking
  <2>7. [p \in Orders |-> CompletedOf(p)]' = [[p \in Orders |-> CompletedOf(p)] EXCEPT ![o] = {n}]
    BY <2>3, <2>5, MappedDelivered
  <2>8. Lifecycle!Complete(o)
    BY <2>1, <2>2, <2>4, <2>5, <2>6, <2>7
    DEF Lifecycle!Complete, Lifecycle!SetStatus, ActiveOf, CompletedOf
  <2> QED BY <2>8 DEF Lifecycle!Next
<1>5. CASE ApplyCancelled(o, n)
  <2>1. status[o] = "purchasing" /\ attempt[o][n] \in {"active", "cancelled"}
    BY <1>1, <1>3, <1>5
    DEF ApplyCancelled, CanMove, ALLOWED_TRANSITIONS, OrderStatus, AttemptStatus
  <2>2. /\ status' = [status EXCEPT ![o] = "preorder"]
        /\ attempt' = [attempt EXCEPT ![o][n] = "cancelled"]
    BY <1>5 DEF ApplyCancelled
  <2>3. /\ attempt'[o][n] = "cancelled"
        /\ \A m \in Ids \ {n} : attempt'[o][m] = attempt[o][m]
        /\ \A p \in Orders \ {o} : attempt'[p] = attempt[p]
    BY <2>2, AttemptWrite DEF AttemptStatus
  <2>4. \A p \in Orders : CompletedOf(p)' = CompletedOf(p)
    BY <2>1, <2>3 DEF CompletedOf
  <2>5. CASE attempt[o][n] = "active"
    <3>1. ActiveOf(o)' = {}
      BY <1>2, <2>3, <2>5 DEF ActiveOf, IsActive
    <3>2. Lifecycle!SetWorking(o, {})
      BY <2>3, <3>1, MappedWorking
    <3>3. Lifecycle!GiveBack(o)
      BY <2>1, <2>2, <2>4, <3>2, NothingDelivered
      DEF Lifecycle!GiveBack, Lifecycle!SetStatus, CompletedOf
    <3> QED BY <3>3 DEF Lifecycle!Next
  <2>6. CASE attempt[o][n] = "cancelled"
    <3>1. attempt' = attempt
      BY <2>2, <2>6 DEF TypeOK
    <3>2. Lifecycle!Misplace(o)
      BY <2>1, <2>2, <3>1 DEF Lifecycle!Misplace, Lifecycle!SetStatus, IsActive
    <3> QED BY <3>2 DEF Lifecycle!Next
  <2> QED BY <2>1, <2>5, <2>6
<1>6. CASE ApplyActive(o, n)
  BY <1>6, MapsQuiet DEF ApplyActive
<1> QED BY <1>4, <1>5, <1>6

\* The commit of a requeue is the life cycle's Replace.
LEMMA MapsReplace ==
    ASSUME IInv, NEW t \in Tasks, RequeueRecorded(t)
    PROVE  Lifecycle!Next
<1>1. PICK o \in Orders, n \in Ids, old \in Ids :
         /\ task[t].order = o /\ task[t].id = n /\ task[t].old = old
         /\ status[o] = "purchasing"
         /\ attempt[o][old] = "active" /\ attempt[o][n] = "none"
  BY TaskAt DEF RequeueRecorded, Idle, KnowsOf, IsActive
<1>2. /\ attempt' = [attempt EXCEPT ![o][old] = "cancelled", ![o][n] = "active"]
      /\ UNCHANGED status
  BY <1>1 DEF RequeueRecorded
<1>3. attempt \in [Orders -> [Ids -> AttemptStatus]]
  BY DEF IInv, TypeOK
<1>4. \A m, k \in Ids : attempt[o][m] = "active" /\ attempt[o][k] = "active" => m = k
  BY DEF IInv, OrdersInv, OneActiveAttempt, IsActive
<1>5. /\ attempt'[o][n] = "active" /\ attempt'[o][old] = "cancelled"
      /\ \A m \in Ids \ {n, old} : attempt'[o][m] = attempt[o][m]
      /\ \A p \in Orders \ {o} : attempt'[p] = attempt[p]
  BY <1>1, <1>2, <1>3
<1>6. ActiveOf(o) = {old} /\ ActiveOf(o)' = {n} /\ old # n
  BY <1>1, <1>4, <1>5 DEF ActiveOf, IsActive
<1>7. Lifecycle!SetWorking(o, {n})
  BY <1>5, <1>6, MappedWorking
<1>8. \A p \in Orders : CompletedOf(p)' = CompletedOf(p)
  BY <1>1, <1>5 DEF CompletedOf
<1>9. Lifecycle!Replace(o)
  BY <1>1, <1>2, <1>6, <1>7, <1>8, NothingDelivered
  DEF Lifecycle!Replace, ActiveOf, CompletedOf
<1> QED BY <1>9 DEF Lifecycle!Next

\* The three ways in which an operator ends an order.
LEMMA MapsCancel ==
    ASSUME IInv, NEW o \in Orders, status[o] \in {"draft", "preorder", "purchasing"},
           status' = [status EXCEPT ![o] = "cancelled"],
           \A p \in Orders \ {o} : attempt'[p] = attempt[p],
           \A n \in Ids : /\ attempt'[o][n] # "active"
                          /\ attempt'[o][n] = "completed" <=> attempt[o][n] = "completed"
    PROVE  Lifecycle!Next
<1>1. ActiveOf(o)' = {}
  BY DEF ActiveOf, IsActive
<1>2. \A p \in Orders : CompletedOf(p)' = CompletedOf(p)
  BY DEF CompletedOf
<1>3. Lifecycle!SetWorking(o, {})
  BY <1>1, MappedWorking
<1>4. Lifecycle!Cancel(o)
  BY <1>2, <1>3, NothingDelivered DEF Lifecycle!Cancel, Lifecycle!SetStatus, CompletedOf
<1> QED BY <1>4 DEF Lifecycle!Next

\* The second transaction of cancel_active_purchase is the life cycle's Cancel.
LEMMA MapsCancelRecorded ==
    ASSUME IInv, NEW t \in Tasks, CancelRecorded(t)
    PROVE  Lifecycle!Next
<1>1. PICK o \in Orders, n \in Ids : task[t].order = o /\ task[t].id = n
  BY TaskAt DEF CancelRecorded, Idle, KnowsOf
<1>2. /\ attempt[o][n] = "active" /\ CanMove(o, "preorder")
      /\ status' = [status EXCEPT ![o] = "cancelled"]
      /\ attempt' = [attempt EXCEPT ![o][n] = "cancelled"]
      /\ UNCHANGED <<remote, requested>>
  BY <1>1 DEF CancelRecorded, IsActive
<1>3. status[o] \in {"draft", "preorder", "purchasing"}
  BY <1>2 DEF IInv, TypeOK, CanMove, ALLOWED_TRANSITIONS, OrderStatus
<1>4. /\ attempt'[o][n] = "cancelled"
      /\ \A m \in Ids \ {n} : attempt'[o][m] = attempt[o][m]
      /\ \A p \in Orders \ {o} : attempt'[p] = attempt[p]
  BY <1>2, AttemptWrite DEF AttemptStatus, IInv
<1>5. \A m \in Ids : attempt[o][m] = "active" => m = n
  BY <1>2 DEF IInv, OrdersInv, OneActiveAttempt, IsActive
<1> QED BY <1>2, <1>3, <1>4, <1>5, MapsCancel

\* Force closing is the life cycle's ForceClose.
LEMMA MapsForceClose ==
    ASSUME IInv, NEW o \in Orders, ForceClose(o)
    PROVE  Lifecycle!Next
<1>1. attempt \in [Orders -> [Ids -> AttemptStatus]] /\ status[o] \in OrderStatus
  BY DEF IInv, TypeOK
<1>2. /\ \A m \in Ids : attempt'[o][m] # "active"
      /\ \A m \in Ids : attempt'[o][m] = "completed" <=> attempt[o][m] = "completed"
      /\ \A p \in Orders \ {o} : attempt'[p] = attempt[p]
  BY <1>1 DEF ForceClose
<1>3. ActiveOf(o)' = {}
  BY <1>2 DEF ActiveOf, IsActive
<1>4. \A p \in Orders : CompletedOf(p)' = CompletedOf(p)
  BY <1>2 DEF CompletedOf
<1>5. Lifecycle!SetWorking(o, {})
  BY <1>2, <1>3, MappedWorking
<1>6. status[o] \in {"preorder", "purchasing"}
  BY <1>1 DEF ForceClose, CanMove, ALLOWED_TRANSITIONS, OrderStatus
<1>7. Lifecycle!ForceClose(o)
  BY <1>4, <1>5, <1>6, NothingDelivered
  DEF ForceClose, Lifecycle!ForceClose, Lifecycle!SetStatus, CompletedOf
<1> QED BY <1>7 DEF Lifecycle!Next

\* The initial states are initial states of the life cycle.
LEMMA MapsInit == Init => Lifecycle!Init
BY DEF Init, Lifecycle!Init, IsActive

\* Every step maps to a step of the life cycle or to a stutter: one case per action.
THEOREM NextMaps == IInv /\ [Next]_vars => Lifecycle!Next \/ UNCHANGED Lifecycle!lifecycleVars
<1> DEFINE Maps == Lifecycle!Next \/ UNCHANGED Lifecycle!lifecycleVars
<1> SUFFICES ASSUME IInv, [Next]_vars PROVE Maps
  OBVIOUS
<1> HIDE DEF Maps
<1>1. TypeOK /\ OrdersInv
  BY DEF IInv
<1>2. UNCHANGED database => Maps
  BY MapsQuiet DEF database, Maps
<1>3. Lifecycle!Next => Maps
  BY DEF Maps
<1>4. ASSUME NEW o \in Orders, Lifecycle!Wait(o) PROVE Maps
  BY <1>4 DEF Lifecycle!Next, Maps
<1>5. ASSUME NEW t \in Tasks, StartStep(t) PROVE Maps
  <2>1. ASSUME NEW o \in Orders, StartWithoutStock(t, o) PROVE Maps
    BY <1>4, <2>1, MapsWait DEF StartWithoutStock
  <2> QED BY <1>2, <1>3, <1>5, <2>1, MapsRecorded DEF StartStep, StartPurchase, FastTrigger,
      StartCreated
<1>6. ASSUME NEW t \in Tasks, SyncStep(t) PROVE Maps
  <2>1. ASSUME SyncApply(t) PROVE Maps
    <3>1. PICK o \in Orders, n \in Ids :
             task[t].order = o /\ task[t].id = n /\ attempt[o][n] # "none"
      BY <2>1, TaskAt DEF SyncApply, Idle, KnowsOf
    <3> QED BY <1>1, <2>1, <3>1, MapsApply DEF SyncApply, Maps
  <2> QED BY <1>2, <1>6, <2>1 DEF SyncStep, SyncRead
<1>7. ASSUME NEW t \in Tasks, RequeueStep(t) PROVE Maps
  <2>1. ASSUME NEW o \in Orders, RequeueSettles(t, o) PROVE Maps
    <3>1. PICK n \in Ids : IsActive(o, n) /\ (ApplyCompleted(o, n) \/ ApplyCancelled(o, n))
      BY <2>1 DEF RequeueSettles
    <3>2. attempt[o][n] # "none" /\ UNCHANGED <<remote, requested>>
      BY <2>1, <3>1 DEF RequeueSettles, IsActive
    <3> QED BY <1>1, <3>1, <3>2, MapsApply DEF Maps
  <2> QED BY <1>2, <1>3, <1>7, <2>1, MapsReplace DEF RequeueStep, RequeueBegin, RequeueCancelled,
      RequeueNotCancelled, RequeueCreated, RollBack
<1>8. ASSUME NEW t \in Tasks, CancelStep(t) PROVE Maps
  <2>1. ASSUME NEW o \in Orders, CancelLocally(t, o) PROVE Maps
    <3>1. status[o] \in {"draft", "preorder", "purchasing"}
      BY <1>1, <2>1 DEF CancelLocally, CanMove, ALLOWED_TRANSITIONS, TypeOK, OrderStatus
    <3> QED BY <1>3, <2>1, <3>1, MapsCancel DEF CancelLocally, HasActive, IsActive
  <2> QED BY <1>2, <1>3, <1>8, <2>1, MapsCancelRecorded DEF CancelStep, CancelBegin,
      CancelConfirmed, CancelUnconfirmed
<1>9. ASSUME NEW o \in Orders, ForceClose(o) \/ SendToPreorder(o) \/ DeleteDraft(o) PROVE Maps
  <2>1. CASE SendToPreorder(o)
    BY <1>4, <2>1, MapsWait DEF SendToPreorder
  <2>2. CASE DeleteDraft(o)
    <3>1. \A n \in Ids : attempt[o][n] = "none"
      BY <1>1, <2>2 DEF DeleteDraft, OrdersInv, HistoryMatchesStatus
    <3> QED BY <1>3, <2>2, <3>1, MapsCancel DEF DeleteDraft
  <2> QED BY <1>3, <1>9, <2>1, <2>2, MapsForceClose
<1>10. ASSUME (\E t \in Tasks : Abort(t)) \/ Crash \/ RemoteStep \/ UNCHANGED vars
       PROVE  Maps
  BY <1>2, <1>10 DEF Abort, Crash, RemoteStep, RemoteCompletes, RemoteFails, RemoteExecutes,
     vars, database
<1> QED BY <1>5, <1>6, <1>7, <1>8, <1>9, <1>10 DEF Next

\* The workflows, with their locks, calls and failures, implement the order life cycle.
THEOREM Refinement == Spec => ImplementsLifecycle
<1>1. IInv /\ [Next]_vars => [Lifecycle!Next]_Lifecycle!lifecycleVars
  BY NextMaps
<1> QED BY <1>1, MapsInit, InductiveInvariant, PTL DEF Spec, ImplementsLifecycle, Lifecycle!Spec

=============================================================================
