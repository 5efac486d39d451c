----------------------------- MODULE StockPlanning -----------------------------
(***************************************************************************)
(* One stock pass over the waiting PreOrders: the greedy plan over one     *)
(* stock snapshot (_select_preorders_by_order_limit), then fast_requeue of *)
(* each planned order, which selects a tier of that same snapshot again    *)
(* (_select_stock), with the rate its order accepts by then.               *)
(*                                                                         *)
(* An order accepts its preferred rate until that expires, its rate limit  *)
(* afterwards (effective_purchase_rate).  Expiry may come at any step.     *)
(***************************************************************************)
EXTENDS Naturals, Sequences, FiniteSetsExt

CONSTANTS
    Orders,    \* the PreOrders, numbered by their identifiers
    Sizes,     \* values of requested_robux
    Stocks,    \* stock snapshots: sequences of tiers
    Rates,     \* values of preferred_rate and marketplace_rate_limit
    MinRate    \* minimum_purchase_rate

ASSUME OrdersAssumption == Orders \subseteq Nat /\ IsFiniteSet(Orders)
ASSUME NumbersAssumption == Sizes \subseteq Nat \ {0} /\ Rates \subseteq Nat /\ MinRate \in Nat
ASSUME StocksAssumption == Stocks \subseteq Seq([rate : Nat, instant : Nat, total : Nat])

VARIABLES
    stock,      \* the snapshot: rate, max_instant_order, total_robux_amount of each tier
    robux,      \* requested_robux of each order
    preferred,  \* its preferred_rate
    limit,      \* its marketplace_rate_limit
    expired,    \* the orders whose preferred_expires_at has passed
    trigger,    \* the rate each candidate was planned with
    todo,       \* candidates the plan has not considered
    remaining,  \* what the plan leaves of each tier
    placed,     \* the tier that fits each selected order
    bought      \* the rate each started order was bought at

vars == <<stock, robux, preferred, limit, expired, trigger, todo, remaining, placed, bought>>
inputs == <<stock, robux, preferred, limit>>

Tiers == DOMAIN stock

\* effective_purchase_rate
EffectiveRate(o) == IF o \in expired THEN limit[o] ELSE Min({preferred[o], limit[o]})

\* The tiers that can deliver n Robux at once, at a rate up to r, from what is left.
Eligible(n, r, left) ==
    {i \in Tiers : /\ MinRate <= stock[i].rate /\ stock[i].rate <= r
                   /\ stock[i].instant >= n
                   /\ left[i] >= n}

\* The cheapest of some tiers, of these the one with most left, of these the first.
Cheapest(tiers, left) ==
    CHOOSE i \in tiers : \A j \in tiers :
        \/ stock[i].rate < stock[j].rate
        \/ stock[i].rate = stock[j].rate /\ left[i] > left[j]
        \/ stock[i].rate = stock[j].rate /\ left[i] = left[j] /\ i <= j

Totals == [i \in Tiers |-> stock[i].total]

Init ==
    /\ stock \in Stocks
    /\ robux \in [Orders -> Sizes]
    /\ limit \in [Orders -> Rates]
    /\ preferred \in {p \in [Orders -> Rates] : \A o \in Orders : p[o] <= limit[o]}
    /\ expired = {}
    /\ trigger = [o \in Orders |-> preferred[o]]
    /\ todo = Orders
    /\ remaining = Totals
    /\ placed = << >>
    /\ bought = << >>

\* An order's preferred rate expires.
Expire(o) ==
    /\ o \notin expired
    /\ expired' = expired \cup {o}
    /\ UNCHANGED <<inputs, trigger, todo, remaining, placed, bought>>

-----------------------------------------------------------------------------
(***************************************************************************)
(* Defective variants, to see each property fail.                          *)
(***************************************************************************)
\* The largest order is considered first.
LargestIsNext(o) ==
    o \in todo /\ \A p \in todo \ {o} : robux[o] > robux[p] \/ (robux[o] = robux[p] /\ o < p)

\* The first order that does not fit ends the plan.
SkipAll(o) ==
    /\ Eligible(robux[o], trigger[o], remaining) = {}
    /\ todo' = {}
    /\ UNCHANGED <<inputs, expired, trigger, remaining, placed, bought>>

\* The tier with most left is taken, whatever it costs.
SelectStockLargest(o) ==
    LET tiers == Eligible(robux[o], EffectiveRate(o), Totals)
    IN  IF tiers = {} THEN {}
        ELSE {CHOOSE i \in tiers : \A j \in tiers : stock[i].total >= stock[j].total}

-----------------------------------------------------------------------------
\* The candidates are sorted by requested Robux, then by identifier.
IsNext(o) ==
    o \in todo /\ \A p \in todo \ {o} : robux[o] < robux[p] \/ (robux[o] = robux[p] /\ o < p)

\* The next order fits: it is planned to take the cheapest tier.
Place(o) ==
    LET tiers == Eligible(robux[o], trigger[o], remaining)
        i == Cheapest(tiers, remaining)
    IN  /\ tiers # {}
        /\ placed' = [p \in DOMAIN placed \cup {o} |-> IF p = o THEN i ELSE placed[p]]
        /\ remaining' = [remaining EXCEPT ![i] = @ - robux[o]]
        /\ todo' = todo \ {o}
        /\ UNCHANGED <<inputs, expired, trigger, bought>>

\* The next order does not fit: later ones may.
Skip(o) ==
    /\ Eligible(robux[o], trigger[o], remaining) = {}
    /\ todo' = todo \ {o}
    /\ UNCHANGED <<inputs, expired, trigger, remaining, placed, bought>>

\* _select_stock over the snapshot: the tier an order would be started with, if any.
SelectStock(o) ==
    LET tiers == Eligible(robux[o], EffectiveRate(o), Totals)
    IN  IF tiers = {} THEN {} ELSE {Cheapest(tiers, Totals)}

Planned == todo = {}

\* fast_requeue and start_purchase of a planned order.
Start(o) ==
    /\ Planned
    /\ o \in DOMAIN placed \ DOMAIN bought
    /\ \E i \in SelectStock(o) :
         bought' = [p \in DOMAIN bought \cup {o} |-> IF p = o THEN stock[i].rate ELSE bought[p]]
    /\ UNCHANGED <<inputs, expired, trigger, todo, remaining, placed>>

Consider(o) == IsNext(o) /\ (Place(o) \/ Skip(o))

Next == \E o \in Orders : Expire(o) \/ Consider(o) \/ Start(o)

Spec == Init /\ [][Next]_vars

-----------------------------------------------------------------------------
\* The Robux some orders ask for together, counted one by one.
Demand(orders) == Cardinality(UNION {{o} \X (1 .. robux[o]) : o \in orders})

\* The assignments of orders to tiers that are within the stock, 0 for none.
Assignments ==
    {f \in [Orders -> Tiers \cup {0}] :
        \A i \in Tiers :
            LET on == {o \in Orders : f[o] = i}
            IN  /\ Demand(on) <= stock[i].total
                /\ \A o \in on : i \in Eligible(robux[o], trigger[o], Totals)}

\* The plan promises no more Robux of a tier than the snapshot showed, to no order whose rate or
\* size rules the tier out; and no order it leaves waiting would fit into what it leaves.
PlanIsMaximal ==
    Planned =>
        /\ [o \in Orders |-> IF o \in DOMAIN placed THEN placed[o] ELSE 0] \in Assignments
        /\ \A o \in Orders \ DOMAIN placed : Eligible(robux[o], trigger[o], remaining) = {}

Customers(f) == Cardinality({o \in Orders : f[o] # 0})

\* When one tier is on offer, no selection serves more customers than the plan.
OneTierIsOptimal ==
    Planned /\ Len(stock) = 1 =>
        \A f \in Assignments : Customers(f) <= Cardinality(DOMAIN placed)

\* Selecting a tier of the snapshot again when a planned order is started neither holds it
\* up nor makes it dearer than planned, also when its preferred rate has expired meanwhile.
PlanCarriesOver ==
    \A o \in DOMAIN placed :
        IF o \in DOMAIN bought THEN bought[o] <= stock[placed[o]].rate ELSE SelectStock(o) # {}

=============================================================================
