------------------------------ MODULE OrderIntake ------------------------------
(***************************************************************************)
(* How Client Orders come into being (sensflow/application/services.py):   *)
(* create_order with the check for a similar order, the Customer it finds  *)
(* or inserts and the place it remembers, and repeat_order; with the       *)
(* operations on orders that make them similar to others or no longer so,  *)
(* and those on customers that race it: update_place_id, refresh_customer. *)
(*                                                                         *)
(* The requests are for one place and one amount: orders differ in whose   *)
(* they are.  A request carries the Roblox User ID if it was looked up, and *)
(* no identity otherwise.  Transactions see what others committed, wait    *)
(* for rows others locked, and fail at a unique index another one filled   *)
(* meanwhile.  A Roblox user keeps its name; the archive flag is left out. *)
(***************************************************************************)
EXTENDS Naturals, Sequences, FiniteSets

CONSTANTS
    Tasks,      \* coroutines that serve the operator's updates
    Names,      \* Roblox usernames
    Requests,   \* what create_order may be asked for: a name, an identity, a permission
    Place,      \* the Place ID the requests are for
    Places,     \* those the operator may type for a customer, or Roblox report
    MaxCreated, \* bound on the calls of create_order
    MaxCopies,  \* bound on the calls of repeat_order
    MaxMoves,   \* bound on the Place IDs a customer leaves behind
    NoUid,      \* a customer without a verified Roblox User ID
    NoTask      \* "not locked"

ASSUME RequestsAssumption == \A r \in Requests : r.name \in Names /\ r.allow \in BOOLEAN
ASSUME IdentitiesAssumption ==
    \A q, r \in Requests : NoUid \notin {q.uid, r.uid} => (q.uid = r.uid <=> q.name = r.name)
ASSUME BoundAssumption == {MaxCreated, MaxCopies, MaxMoves} \subseteq Nat
ASSUME TasksAssumption == NoTask \notin Tasks

VARIABLES
    customers,  \* the customers rows, in the order they were inserted
    orders,     \* the client_orders rows
    held,       \* every Place ID each customers row ever had, in order
    cache,      \* the usernames in user_place_cache
    rowLock,    \* holder of each customers row
    cacheLock,  \* holder of each user_place_cache row
    task        \* program counter and locals of each coroutine

vars == <<customers, orders, held, cache, rowLock, cacheLock, task>>

Idle == [pc |-> "idle"]
NoRow == 0

\* The orders that find_similar_active counts.
Waiting == {"preorder", "purchasing"}
Statuses == {"draft", "completed", "cancelled", "force_closed"} \cup Waiting

Init ==
    /\ customers = << >>
    /\ orders = << >>
    /\ held = << >>
    /\ cache = {}
    /\ rowLock = << >>
    /\ cacheLock = [n \in Names |-> NoTask]
    /\ task = [t \in Tasks |-> Idle]

CanCreate ==
    Cardinality({o \in DOMAIN orders : ~orders[o].repeated})
    + Cardinality({t \in Tasks : task[t].pc \in {"check", "commit", "again"}}) < MaxCreated
CanRepeat ==
    Cardinality({o \in DOMAIN orders : orders[o].repeated})
    + Cardinality({t \in Tasks : task[t].pc = "repeat"}) < MaxCopies

\* The rows create_order looks for: the customer of the identity, else one of the name.
Matching(r) ==
    LET same == {c \in DOMAIN customers : r.uid # NoUid /\ customers[c].uid = r.uid}
    IN  IF same # {} THEN same ELSE {c \in DOMAIN customers : customers[c].name = r.name}

\* The transaction ends and releases its locks.
Release(t) ==
    /\ rowLock' = [c \in DOMAIN rowLock |-> IF rowLock[c] = t THEN NoTask ELSE rowLock[c]]
    /\ cacheLock' = [n \in Names |-> IF cacheLock[n] = t THEN NoTask ELSE cacheLock[n]]

Goto(t, job) == task' = [task EXCEPT ![t] = job]

\* An error to the operator: the transaction is rolled back.
Refuse(t) == Goto(t, Idle) /\ Release(t) /\ UNCHANGED <<customers, orders, held, cache>>

-----------------------------------------------------------------------------
(***************************************************************************)
(* Defective variants, to see each property fail.                          *)
(***************************************************************************)
\* customers has no unique index on the identity.
ConflictOfPlaces(t) == ~task[t].remembered /\ task[t].request.name \in cache

\* The second try goes on with what the first one found.
RetryAsBefore(t) ==
    /\ IF task[t].tries = 0
       THEN Goto(t, [task[t] EXCEPT !.pc = "commit", !.tries = 1])
       ELSE Goto(t, Idle)
    /\ Release(t)
    /\ UNCHANGED <<customers, orders, held, cache>>

\* A purchase is started without locking its customer.
StartPurchaseUnlocked(o) ==
    /\ \/ orders[o].status \in {"draft", "preorder"} /\ orders' = [orders EXCEPT ![o].status = "purchasing"]
       \/ orders[o].status = "draft" /\ orders' = [orders EXCEPT ![o].status = "preorder"]
    /\ UNCHANGED <<customers, held, cache, rowLock, cacheLock, task>>

\* An order is repeated without locking its customer.
RepeatCheckUnlocked(t, o) ==
    /\ task[t] = Idle /\ CanRepeat
    /\ orders[o].status = "cancelled"
    /\ \A u \in Tasks : task[u].pc = "repeat" => task[u].source # o
    /\ \A p \in DOMAIN orders :
         (orders[p].recent /\ orders[p].status \in Waiting \cup {"completed"}) =>
             customers[orders[p].customer].name # customers[orders[o].customer].name
    /\ Goto(t, [pc |-> "repeat", source |-> o])
    /\ UNCHANGED <<customers, orders, held, cache, rowLock, cacheLock>>

\* A customer is moved without locking its row.
BeginMoveUnlocked(t, c) ==
    /\ task[t] = Idle
    /\ Len(customers[c].past) < MaxMoves
    /\ Goto(t, [pc |-> "move", row |-> c, seen |-> customers[c].place])
    /\ UNCHANGED <<customers, orders, held, cache, rowLock, cacheLock>>

-----------------------------------------------------------------------------
(***************************************************************************)
(* create_order                                                            *)
(***************************************************************************)
\* A customer is found, or none is.  Customers may share a name: the SELECT ... FOR UPDATE by name
\* locks every one of them and the transaction goes on with the first.
FindCustomer(t, r, tries) ==
    /\ \/ /\ Matching(r) = {}
          /\ Goto(t, [pc |-> "check", request |-> r, row |-> NoRow, tries |-> tries])
          /\ UNCHANGED rowLock
       \/ \E c \in Matching(r) :
            /\ \A d \in Matching(r) : rowLock[d] = NoTask
            /\ rowLock' = [d \in DOMAIN rowLock |-> IF d \in Matching(r) THEN t ELSE rowLock[d]]
            /\ Goto(t, [pc |-> "check", request |-> r, row |-> c, tries |-> tries])
    /\ UNCHANGED <<customers, orders, held, cache, cacheLock>>

CreateOrder(t, r) == task[t] = Idle /\ CanCreate /\ FindCustomer(t, r, 0)
CreateAgain(t) == task[t].pc = "again" /\ FindCustomer(t, task[t].request, 1)

\* refresh_identity: a verified identity that is not the customer's.
IsImpostor(t) ==
    LET r == task[t].request
    IN  /\ task[t].row # NoRow /\ r.uid # NoUid
        /\ customers[task[t].row].uid \notin {NoUid, r.uid}

\* find_similar_active; the customer of this transaction has the name it was asked for.
Similar(t) ==
    LET r == task[t].request
    IN  {o \in DOMAIN orders :
            /\ orders[o].status \in Waiting
            /\ \/ orders[o].customer = task[t].row
               \/ customers[orders[o].customer].name = r.name}

CreateRefused(t) ==
    /\ task[t].pc = "check"
    /\ IsImpostor(t) \/ (~task[t].request.allow /\ Similar(t) # {})
    /\ Refuse(t)

\* No similar order: the remembered place is found and locked, or none is.
CreateChecked(t) ==
    LET n == task[t].request.name
    IN  /\ task[t].pc = "check"
        /\ ~IsImpostor(t)
        /\ task[t].request.allow \/ Similar(t) = {}
        /\ n \in cache => cacheLock[n] = NoTask
        /\ cacheLock' = [cacheLock EXCEPT ![n] = IF n \in cache THEN t ELSE @]
        /\ Goto(t, [pc |-> "commit", request |-> task[t].request, row |-> task[t].row,
                    tries |-> task[t].tries, remembered |-> n \in cache])
        /\ UNCHANGED <<customers, orders, held, cache, rowLock>>

\* A unique index refuses what the transaction inserted: an identity or a remembered place.
Conflict(t) ==
    LET r == task[t].request
    IN  \/ /\ r.uid # NoUid
           /\ \E c \in DOMAIN customers \ {task[t].row} : customers[c].uid = r.uid
        \/ ~task[t].remembered /\ r.name \in cache

\* IntegrityError: one more try, from the start.
Retry(t) ==
    /\ IF task[t].tries = 0
       THEN Goto(t, [pc |-> "again", request |-> task[t].request])
       ELSE Goto(t, Idle)
    /\ Release(t)
    /\ UNCHANGED <<customers, orders, held, cache>>

CreateConflict(t) == task[t].pc = "commit" /\ Conflict(t) /\ Retry(t)

\* update_place_id: the Place ID the transaction read goes to the history, unless it is the new one.
Moved(c, seen, place) ==
    IF place = seen THEN c ELSE [c EXCEPT !.place = place, !.past = Append(@, seen)]
Hold(c, place) ==
    held' = [held EXCEPT ![c] = IF place = customers[c].place THEN @ ELSE Append(@, place)]

\* The customer a transaction leaves behind.
Kept(r, c) == [Moved(c, c.place, Place) EXCEPT
                 !.name = IF r.uid = NoUid THEN @ ELSE r.name,
                 !.uid  = IF r.uid = NoUid THEN @ ELSE r.uid]

\* The customer is inserted or refreshed, the Draft inserted, the place remembered.
CreateCommit(t) ==
    LET r == task[t].request
        row == task[t].row
        who == IF row = NoRow THEN Len(customers) + 1 ELSE row
    IN  /\ task[t].pc = "commit"
        /\ ~Conflict(t)
        /\ customers' = IF row = NoRow
                        THEN Append(customers, [name |-> r.name, uid |-> r.uid,
                                                place |-> Place, past |-> << >>])
                        ELSE [customers EXCEPT ![row] = Kept(r, @)]
        /\ IF row = NoRow THEN held' = Append(held, <<Place>>) ELSE Hold(row, Place)
        /\ orders' = Append(orders, [customer |-> who, status |-> "draft", recent |-> TRUE,
                                     repeated |-> FALSE])
        /\ cache' = cache \cup {r.name}
        /\ Goto(t, Idle)
        /\ rowLock' = [c \in DOMAIN customers' |->
                          IF c \in DOMAIN rowLock /\ rowLock[c] # t THEN rowLock[c] ELSE NoTask]
        /\ cacheLock' = [n \in Names |-> IF cacheLock[n] = t THEN NoTask ELSE cacheLock[n]]

-----------------------------------------------------------------------------
(***************************************************************************)
(* repeat_order                                                            *)
(***************************************************************************)
\* The cancelled order and its customer are locked; no recent order is like it.
RepeatCheck(t, o) ==
    LET c == orders[o].customer
    IN  /\ task[t] = Idle /\ CanRepeat
        /\ orders[o].status = "cancelled"
        /\ \A u \in Tasks : task[u].pc = "repeat" => task[u].source # o
        /\ rowLock[c] = NoTask
        /\ \A p \in DOMAIN orders :
             (orders[p].recent /\ orders[p].status \in Waiting \cup {"completed"}) =>
                 customers[orders[p].customer].name # customers[c].name
        /\ rowLock' = [rowLock EXCEPT ![c] = t]
        /\ Goto(t, [pc |-> "repeat", source |-> o])
        /\ UNCHANGED <<customers, orders, held, cache, cacheLock>>

\* The copy is inserted as a PreOrder; StartPurchase follows, in a transaction of its own.
RepeatCommit(t) ==
    /\ task[t].pc = "repeat"
    /\ orders' = Append(orders, [customer |-> orders[task[t].source].customer,
                                 status |-> "preorder", recent |-> TRUE,
                                 repeated |-> TRUE])
    /\ Goto(t, Idle)
    /\ Release(t)
    /\ UNCHANGED <<customers, held, cache>>

-----------------------------------------------------------------------------
(***************************************************************************)
(* update_place_id and refresh_customer: the row stays locked while Roblox *)
(* is asked.                                                               *)
(***************************************************************************)
BeginMove(t, c) ==
    /\ task[t] = Idle
    /\ Len(customers[c].past) < MaxMoves
    /\ rowLock[c] = NoTask
    /\ rowLock' = [rowLock EXCEPT ![c] = t]
    /\ Goto(t, [pc |-> "move", row |-> c, seen |-> customers[c].place])
    /\ UNCHANGED <<customers, orders, held, cache, cacheLock>>

\* A refresh also verifies a customer without an identity; the unique index may refuse that.
MoveCommit(t) ==
    LET c == task[t].row
    IN  /\ task[t].pc = "move"
        /\ \E place \in Places, r \in Requests :
             /\ r.name = customers[c].name
             /\ LET uid == IF customers[c].uid = NoUid THEN r.uid ELSE customers[c].uid
                IN  /\ uid # NoUid => \A d \in DOMAIN customers \ {c} : customers[d].uid # uid
                    /\ customers' = [customers EXCEPT
                                       ![c] = [Moved(@, task[t].seen, place) EXCEPT !.uid = uid]]
             /\ Hold(c, place)
        /\ Goto(t, Idle)
        /\ Release(t)
        /\ UNCHANGED <<orders, cache>>

\* Roblox cannot be reached, or the identity is another one's.
MoveFails(t) == task[t].pc = "move" /\ Refuse(t)

-----------------------------------------------------------------------------
(***************************************************************************)
(* What happens to an order afterwards: the wizard that created it, the    *)
(* operator or automation.  Each is a transaction that holds its order's   *)
(* row; only start_purchase locks the customer as well.                    *)
(***************************************************************************)
Become(o, status) ==
    /\ orders' = [orders EXCEPT ![o].status = status]
    /\ UNCHANGED <<customers, held, cache, rowLock, cacheLock, task>>

StartPurchase(o) ==
    /\ rowLock[orders[o].customer] = NoTask
    /\ \/ orders[o].status \in {"draft", "preorder"} /\ Become(o, "purchasing")
       \/ orders[o].status = "draft" /\ Become(o, "preorder")

SendToPreorder(o) == orders[o].status = "draft" /\ Become(o, "preorder")

\* The attempt ended: RBXCrate completed or cancelled it.
Complete(o) == orders[o].status = "purchasing" /\ Become(o, "completed")
ReturnToPreorder(o) == orders[o].status = "purchasing" /\ Become(o, "preorder")

Cancel(o) == orders[o].status \in {"draft"} \cup Waiting /\ Become(o, "cancelled")
ForceClose(o) == orders[o].status \in Waiting /\ Become(o, "force_closed")

\* Ten minutes pass after the order was created.
Age(o) ==
    /\ orders[o].recent
    /\ orders' = [orders EXCEPT ![o].recent = FALSE]
    /\ UNCHANGED <<customers, held, cache, rowLock, cacheLock, task>>

Next ==
    \/ \E t \in Tasks :
        \/ \E r \in Requests : CreateOrder(t, r)
        \/ CreateRefused(t) \/ CreateChecked(t) \/ CreateConflict(t) \/ CreateAgain(t)
        \/ CreateCommit(t)
        \/ \E o \in DOMAIN orders : RepeatCheck(t, o)
        \/ RepeatCommit(t)
        \/ \E c \in DOMAIN customers : BeginMove(t, c)
        \/ MoveCommit(t) \/ MoveFails(t)
    \/ \E o \in DOMAIN orders :
        \/ StartPurchase(o) \/ SendToPreorder(o) \/ Complete(o) \/ ReturnToPreorder(o)
        \/ Cancel(o) \/ ForceClose(o) \/ Age(o)

Spec == Init /\ [][Next]_vars

-----------------------------------------------------------------------------
\* "Duplicate Customers cannot exist": of the customers of a name, one is verified at most.
\* Transactions that find none do not exclude each other, and customers has no unique index
\* on the name; the one on the identity and the retry make up for it.  Nothing makes up for it when
\* one of the two requests carries no identity.
OneCustomerPerName ==
    \A c, d \in DOMAIN customers :
        /\ customers[c].name = customers[d].name
        /\ NoUid \notin {customers[c].uid, customers[d].uid}
        => c = d

\* The second try of create_order meets another IntegrityError only if it found a customer without
\* an identity, beside which a third transaction, that had found none, inserts the verified one.
OneRetryIsEnough ==
    \A t \in Tasks :
        task[t].pc = "commit" /\ task[t].tries = 1 /\ Conflict(t) =>
            task[t].row # NoRow /\ customers[task[t].row].uid = NoUid

\* Repeating orders never leaves a customer with two recent copies to be bought, whichever
\* orders are repeated and however often at once.
RepeatNeverDuplicates ==
    LET Copies == {o \in DOMAIN orders :
                      orders[o].repeated /\ orders[o].recent /\ orders[o].status \in Waiting}
    IN  \A o, p \in Copies : orders[o].customer = orders[p].customer => o = p

\* The order is of the customer whom create_order is for: the one it locked, or one that was
\* inserted with the request's identity since it found none.
IsForSameCustomer(o, t) ==
    \/ orders[o].customer = task[t].row
    \/ task[t].request.uid # NoUid /\ customers[orders[o].customer].uid = task[t].request.uid

\* A Draft is not created beside a similar order of its customer that is being purchased, unless the
\* operator asked for a duplicate: no purchase starts between the check and the commit.
NoDraftBesidePurchase ==
    [][\A t \in Tasks :
        /\ task[t].pc = "commit" /\ Len(orders') > Len(orders)
        /\ task'[t] = Idle
        /\ ~task[t].request.allow
        => \A o \in DOMAIN orders : IsForSameCustomer(o, t) => orders[o].status # "purchasing"]_vars

\* "Changing Current Place ID SHALL automatically move the previous value into Place ID History": no
\* value is lost or entered twice by orders, edits and refreshes that overlap, some waiting for Roblox.
PlaceHistoryIsComplete ==
    \A c \in DOMAIN customers : held[c] = Append(customers[c].past, customers[c].place)

=============================================================================
