------------------------- MODULE AutomationLoop_proofs -------------------------
(***************************************************************************)
(* Proofs about the automation loop: that its passes run on open           *)
(* connections (Application), and what its stock pass plans and buys       *)
(* (StockPlanning), for any number of failing passes, any orders, rates    *)
(* and stock snapshots.                                                    *)
(***************************************************************************)
EXTENDS Application, StockPlanning, FiniteSetTheorems, TLAPS

-----------------------------------------------------------------------------
(***************************************************************************)
(* The process.                                                            *)
(***************************************************************************)
\* The parts of the state the invariant reads, each by its name.
LEMMA Names ==
    /\ Passes = {"sync", "fallback", "balance", "stock"}
    /\ \A pc, ready : Loop(pc, ready).pc = pc
BY DEF Passes, Timers, Loop

\* At the beginning nothing runs and nothing is closed.
LEMMA InitIInv == ProcessInit => IInv
BY Names DEF ProcessInit, IInv, LoopDone, ClientsAreClosed

\* A step of the loop leaves the main task and the connections alone, and a loop that is
\* done, or was never started, takes none.
LEMMA LoopIInv ==
    ASSUME IInv, LoopStep
    PROVE  IInv'
<1>1. UNCHANGED <<main, open>>
  BY DEF LoopStep
<1>2. loop.pc \in {"top", "sleep", "retry"} \cup Passes
  BY DEF LoopStep, Iterate, Wake, PassSucceeds, PassFails
<1>3. main \notin {"verify", "recover", "close", "ended"}
  BY <1>2, Names DEF IInv, LoopDone
<1>4. loop'.pc \in {"none", "top", "sleep", "retry", "done"} \cup Passes
  <2>1. CASE Iterate
    BY <2>1, Names DEF Iterate
  <2>2. CASE Wake
    BY <2>2, Names DEF Wake
  <2>3. ASSUME NEW p \in Passes, PassSucceeds(p)
        PROVE  loop'.pc \in {"none", "top", "sleep", "retry", "done"} \cup Passes
    <3>1. After[p] \in {"sleep"} \cup Passes
      BY Names DEF After
    <3> QED BY <2>3, <3>1, Names DEF PassSucceeds
  <2>4. ASSUME NEW p \in Passes, PassFails(p)
        PROVE  loop'.pc \in {"none", "top", "sleep", "retry", "done"} \cup Passes
    BY <2>4, Names DEF PassFails
  <2> QED BY <2>1, <2>2, <2>3, <2>4 DEF LoopStep
<1> QED BY <1>1, <1>3, <1>4 DEF IInv, ClientsAreClosed

\* The main task closes connections once the loop is done, and ends with the last of them.
LEMMA MainIInv ==
    ASSUME IInv, MainStep
    PROVE  IInv'
<1> USE DEF IInv, ClientsAreClosed, LoopDone
<1>1. CASE Verify
  BY <1>1 DEF Verify, loopVars
<1>2. CASE Recovered
  <2>1. loop'.pc = "top" /\ main = "recover" /\ main' = "serve" /\ UNCHANGED open
    BY <1>2, Names DEF Recovered
  <2> QED BY <2>1
<1>3. CASE RecoveryFails
  BY <1>3 DEF RecoveryFails, loopVars
<1>4. CASE Stop
  BY <1>4 DEF Stop, loopVars
<1>5. CASE StopPolling
  BY <1>5 DEF StopPolling, loopVars
<1>6. CASE JoinPolling
  BY <1>6 DEF JoinPolling, loopVars
<1>7. CASE StopAutomation
  BY <1>7 DEF StopAutomation, loopVars
<1>8. CASE JoinAutomation
  BY <1>8 DEF JoinAutomation, loopVars
<1>9. CASE Close
  <2>1. UNCHANGED loop /\ main = "close" /\ open' \subseteq open
    BY <1>9 DEF Close, loopVars
  <2>2. main' \in {"close", "ended"}
    BY <1>9 DEF Close
  <2>3. main' = "ended" => open' \subseteq {"engine"}
    <3>1. PICK i \in 1 .. 4 :
            /\ \A j \in 1 .. i - 1 : Closing[j] \notin open
            /\ open' = open \ {Closing[i]}
            /\ main' = "ended" => open' = {} \/ Closing[i] = "bot"
      BY <1>9 DEF Close, Closing
    <3>2. Closing[i] = "bot" => i = 3
      BY DEF Closing
    <3>3. i = 3 => open' \subseteq {"engine"}
      BY <3>1 DEF Closing, Connections
    <3> QED BY <3>1, <3>2, <3>3
  <2> QED BY <2>1, <2>2, <2>3
<1> QED BY <1>1, <1>2, <1>3, <1>4, <1>5, <1>6, <1>7, <1>8, <1>9 DEF MainStep

\* The steps of polling, of signals and of time change nothing the invariant is about.
LEMMA NextIInv == IInv /\ [ProcessNext]_processVars => IInv'
<1> SUFFICES ASSUME IInv, [ProcessNext]_processVars PROVE IInv'
  OBVIOUS
<1>1. ASSUME UNCHANGED <<main, loop, open>> PROVE IInv'
  BY <1>1 DEF IInv, ClientsAreClosed, LoopDone
<1>2. CASE MainStep
  BY <1>2, MainIInv
<1>3. CASE LoopStep
  BY <1>3, LoopIInv
<1>4. CASE RequestShutdown
  BY <1>1, <1>4 DEF RequestShutdown, loopVars
<1>5. CASE PollingStarts
  BY <1>1, <1>5 DEF PollingStarts, loopVars
<1>6. CASE PollingEnds
  BY <1>1, <1>6 DEF PollingEnds, loopVars
<1>7. ASSUME NEW timer \in AllTimers, Elapse(timer) PROVE IInv'
  BY <1>1, <1>7 DEF Elapse
<1>8. CASE UNCHANGED processVars
  BY <1>1, <1>8 DEF processVars
<1> QED
  BY <1>2, <1>3, <1>4, <1>5, <1>6, <1>7, <1>8 DEF ProcessNext

-----------------------------------------------------------------------------
\* The invariant holds for any number of failing passes.
THEOREM ProcessInvariant == ProcessSpec => []IInv
BY InitIInv, NextIInv, PTL DEF ProcessSpec

\* No pass of the automation loop, and no recovery, ever runs on a closed connection.
THEOREM Connected == ProcessSpec => []AutomationIsConnected
<1>1. IInv => AutomationIsConnected
  BY Names DEF IInv, AutomationIsConnected, LoopDone
<1> QED BY <1>1, ProcessInvariant, PTL

\* When the process ends its HTTP clients are closed, whatever raised on the way.
THEOREM Closed == ProcessSpec => []ClientsAreClosed
<1>1. IInv => ClientsAreClosed
  BY DEF IInv
<1> QED BY <1>1, ProcessInvariant, PTL

-----------------------------------------------------------------------------
(***************************************************************************)
(* Sums as cardinalities: one unit for each Robux an order asks for.       *)
(***************************************************************************)
Units(sizes, orders) == UNION {{o} \X (1 .. sizes[o]) : o \in orders}

LEMMA UnitIn ==
  ASSUME NEW sizes, NEW S, NEW u
  PROVE  u \in Units(sizes, S) <=> \E o \in S : \E n \in 1 .. sizes[o] : u = <<o, n>>
BY DEF Units

LEMMA UnitsOfOne ==
  ASSUME NEW sizes, NEW o, sizes[o] \in Nat
  PROVE  IsFiniteSet({o} \X (1 .. sizes[o])) /\ Cardinality({o} \X (1 .. sizes[o])) = sizes[o]
<1>1. IsFiniteSet({o}) /\ Cardinality({o}) = 1
  BY FS_Singleton
<1>2. IsFiniteSet(1 .. sizes[o]) /\ Cardinality(1 .. sizes[o]) = sizes[o]
  <2>1. IsFiniteSet(1 .. sizes[o]) /\ Cardinality(1 .. sizes[o]) = IF 1 > sizes[o] THEN 0 ELSE sizes[o] - 1 + 1
    BY FS_Interval
  <2>2. QED
    BY <2>1
<1>3. /\ IsFiniteSet({o} \X (1 .. sizes[o]))
      /\ Cardinality({o} \X (1 .. sizes[o])) = Cardinality({o}) * Cardinality(1 .. sizes[o])
  BY <1>1, <1>2, FS_Product
<1>4. QED
  BY <1>1, <1>2, <1>3

LEMMA UnitsFinite ==
  ASSUME NEW S, IsFiniteSet(S), NEW sizes \in [S -> Nat]
  PROVE  IsFiniteSet(Units(sizes, S)) /\ Cardinality(Units(sizes, S)) \in Nat
<1> DEFINE T == {{o} \X (1 .. sizes[o]) : o \in S}
           f == [o \in S |-> {o} \X (1 .. sizes[o])]
<1>1. f \in Surjection(S, T)
  BY DEF Surjection
<1>2. IsFiniteSet(T)
  <2> HIDE DEF f, T
  <2>1. QED
    BY <1>1, FS_Surjection
<1>3. \A U \in T : IsFiniteSet(U)
  BY UnitsOfOne
<1>4. IsFiniteSet(UNION T)
  <2> HIDE DEF f, T
  <2>1. QED
    BY <1>2, <1>3, FS_UNION
<1>5. QED
  BY <1>4, FS_CardinalityType DEF Units

LEMMA UnitsAdd ==
  ASSUME NEW S, IsFiniteSet(S), NEW o, o \notin S, NEW sizes, \A p \in S \cup {o} : sizes[p] \in Nat
  PROVE  /\ Cardinality(Units(sizes, S \cup {o})) = Cardinality(Units(sizes, S)) + sizes[o]
         /\ Cardinality(Units(sizes, S)) \in Nat
<1> DEFINE A == Units(sizes, S)
           B == {o} \X (1 .. sizes[o])
<1>1. IsFiniteSet(A) /\ Cardinality(A) \in Nat
  <2> DEFINE g == [p \in S |-> sizes[p]]
  <2>1. g \in [S -> Nat] /\ Units(g, S) = A
    BY DEF Units
  <2> HIDE DEF g, A
  <2>2. QED
    BY <2>1, UnitsFinite
<1>2. IsFiniteSet(B) /\ Cardinality(B) = sizes[o]
  BY UnitsOfOne
<1>3. A \cup B = Units(sizes, S \cup {o}) /\ A \cap B = {}
  BY DEF Units
<1> HIDE DEF A, B
<1>4. Cardinality(A \cup B) = Cardinality(A) + Cardinality(B) - Cardinality(A \cap B)
  BY <1>1, <1>2, FS_Union
<1>5. Cardinality(A \cap B) = 0
  BY <1>3, FS_EmptySet
<1>6. sizes[o] \in Nat
  OBVIOUS
<1>7. Cardinality(A \cup B) = Cardinality(A) + sizes[o]
  BY <1>1, <1>2, <1>4, <1>5, <1>6
<1>8. QED
  BY <1>1, <1>3, <1>7 DEF A

\* Orders that can be paired with larger ones ask for no more together.
LEMMA UnitsPaired ==
  ASSUME NEW S, NEW T, IsFiniteSet(T), NEW f \in Injection(S, T),
         NEW sizes, \A p \in S \cup T : sizes[p] \in Nat, \A p \in S : sizes[p] <= sizes[f[p]]
  PROVE  Cardinality(Units(sizes, S)) <= Cardinality(Units(sizes, T))
<1> DEFINE A == Units(sizes, S)
           B == Units(sizes, T)
           g == [u \in A |-> <<f[u[1]], u[2]>>]
<1>1. f \in [S -> T] /\ \A p, q \in S : f[p] = f[q] => p = q
  BY DEF Injection, IsInjective
<1>2. \A u \in A : u = <<u[1], u[2]>> /\ u[1] \in S /\ u[2] \in 1 .. sizes[u[1]]
  BY UnitIn
<1>3. ASSUME NEW u \in A PROVE g[u] \in B
  <2>1. u[1] \in S /\ u[2] \in 1 .. sizes[u[1]] /\ f[u[1]] \in T
    BY <1>1, <1>2
  <2>2. u[2] \in 1 .. sizes[f[u[1]]]
    BY <2>1
  <2>3. g[u] = <<f[u[1]], u[2]>>
    OBVIOUS
  <2>4. QED
    BY <2>1, <2>2, <2>3, UnitIn
<1>4. ASSUME NEW u \in A, NEW v \in A, g[u] = g[v] PROVE u = v
  <2>1. f[u[1]] = f[v[1]] /\ u[2] = v[2]
    BY <1>4
  <2>2. u[1] = v[1]
    BY <1>1, <1>2, <2>1
  <2>3. QED
    BY <1>2, <2>1, <2>2
<1>5. g \in Injection(A, B)
  <2>1. g \in [A -> B]
    BY <1>3
  <2>2. \A u, v \in A : g[u] = g[v] => u = v
    BY <1>4
  <2> HIDE DEF g, A, B
  <2>3. QED
    BY <2>1, <2>2 DEF Injection, IsInjective
<1>6. IsFiniteSet(B)
  <2> DEFINE h == [p \in T |-> sizes[p]]
  <2>1. h \in [T -> Nat] /\ Units(h, T) = B
    BY DEF Units
  <2> HIDE DEF h, B
  <2>2. QED
    BY <2>1, UnitsFinite
<1> HIDE DEF g, A, B
<1>7. Cardinality(A) <= Cardinality(B)
  BY <1>5, <1>6, FS_Injection
<1>8. QED
  BY <1>7 DEF A, B

\* The smaller of two finite sets can be embedded in the other.
LEMMA Embedding ==
  ASSUME NEW S, NEW T, IsFiniteSet(S), IsFiniteSet(T), Cardinality(S) <= Cardinality(T)
  PROVE  \E f : f \in Injection(S, T)
<1> DEFINE m == Cardinality(S)
           n == Cardinality(T)
<1>1. m \in Nat /\ n \in Nat /\ m <= n
  BY FS_CardinalityType
<1>2. PICK g : g \in Bijection(1 .. m, S)
  BY FS_CardinalityType DEF ExistsBijection
<1>3. PICK h : h \in Bijection(1 .. n, T)
  BY FS_CardinalityType DEF ExistsBijection
<1> HIDE DEF m, n
<1>4. g \in [1 .. m -> S] /\ \A s \in S : \E i \in 1 .. m : g[i] = s
  BY <1>2 DEF Bijection, Surjection
<1>5. h \in [1 .. n -> T] /\ \A i, j \in 1 .. n : h[i] = h[j] => i = j
  BY <1>3 DEF Bijection, Injection, IsInjective
<1> DEFINE c(s) == CHOOSE i \in 1 .. m : g[i] = s
           f == [s \in S |-> h[c(s)]]
<1>6. \A s \in S : c(s) \in 1 .. m /\ g[c(s)] = s
  BY <1>4
<1> HIDE DEF c
<1>7. \A s \in S : c(s) \in 1 .. n
  BY <1>1, <1>6
<1>8. f \in [S -> T]
  BY <1>5, <1>7
<1>9. ASSUME NEW s \in S, NEW t \in S, f[s] = f[t] PROVE s = t
  <2>1. h[c(s)] = h[c(t)]
    BY <1>9
  <2>2. c(s) = c(t)
    BY <2>1, <1>5, <1>7
  <2>3. QED
    BY <2>2, <1>6
<1>10. f \in Injection(S, T)
  <2> HIDE DEF f
  <2>1. QED
    BY <1>8, <1>9 DEF Injection, IsInjective
<1>11. QED
  BY <1>10

-----------------------------------------------------------------------------
(***************************************************************************)
(* The choice of a tier: among finitely many there is a first in the order *)
(* Cheapest goes by.  Whatever precedes nothing else precedes all.         *)
(***************************************************************************)
Before(st, left, i, j) ==
    \/ st[i].rate < st[j].rate
    \/ st[i].rate = st[j].rate /\ left[i] > left[j]
    \/ st[i].rate = st[j].rate /\ left[i] = left[j] /\ i < j

LEMMA BeforeIsOrder ==
  ASSUME NEW st, NEW left, NEW T, \A i \in T : st[i].rate \in Nat /\ left[i] \in Nat /\ i \in Nat,
         NEW i \in T, NEW j \in T, NEW k \in T
  PROVE  /\ ~ Before(st, left, i, i)
         /\ Before(st, left, i, j) /\ Before(st, left, j, k) => Before(st, left, i, k)
         /\ i = j \/ Before(st, left, i, j) \/ Before(st, left, j, i)
<1>1. /\ st[i].rate \in Nat /\ left[i] \in Nat /\ i \in Nat
      /\ st[j].rate \in Nat /\ left[j] \in Nat /\ j \in Nat
      /\ st[k].rate \in Nat /\ left[k] \in Nat /\ k \in Nat
  OBVIOUS
<1>2. QED
  BY <1>1 DEF Before

LEMMA Element ==
  ASSUME NEW S, NEW st \in Seq(S), NEW i \in DOMAIN st
  PROVE  i \in Nat \ {0} /\ st[i] \in S
<1>1. DOMAIN st = 1 .. Len(st) /\ Len(st) \in Nat
  OBVIOUS
<1>2. QED
  BY <1>1

LEMMA TierTypes ==
  ASSUME NEW st \in Seq([rate : Nat, instant : Nat, total : Nat]), NEW i \in DOMAIN st
  PROVE  /\ i \in Nat \ {0}
         /\ st[i].rate \in Nat /\ st[i].instant \in Nat /\ st[i].total \in Nat
<1> DEFINE S == [rate : Nat, instant : Nat, total : Nat]
<1>1. st \in Seq(S)
  OBVIOUS
<1> HIDE DEF S
<1>2. i \in Nat \ {0} /\ st[i] \in S
  BY <1>1, Element
<1>3. QED
  BY <1>2 DEF S

LEMMA FirstTier ==
  ASSUME NEW st \in Seq([rate : Nat, instant : Nat, total : Nat]), NEW left \in [DOMAIN st -> Nat],
         NEW T \in SUBSET DOMAIN st, T # {}
  PROVE  \E i \in T : \A j \in T : i = j \/ Before(st, left, i, j)
<1> DEFINE U(i) == {j \in T : Before(st, left, j, i)}
           C == {U(i) : i \in T}
           R == StrictSubsetOrdering(DOMAIN st)
           F == FiniteSubsetsOf(DOMAIN st)
<1>1. IsFiniteSet(DOMAIN st)
  <2>1. DOMAIN st = 1 .. Len(st) /\ Len(st) \in Nat
    OBVIOUS
  <2>2. QED
    BY <2>1, FS_Interval
<1>2. \A i \in T : st[i].rate \in Nat /\ left[i] \in Nat /\ i \in Nat
  BY TierTypes
<1>3. ASSUME NEW i \in T PROVE U(i) \in F
  <2>1. U(i) \in SUBSET DOMAIN st
    OBVIOUS
  <2>2. IsFiniteSet(U(i))
    BY <1>1, <2>1, FS_Subset
  <2>3. QED
    BY <2>1, <2>2 DEF FiniteSubsetsOf
<1>4. C \subseteq F /\ C # {}
  BY <1>3
<1>5. \E X \in C : \A Y \in C : ~ (<<Y, X>> \in R)
  <2> HIDE DEF C, R, F
  <2>1. IsWellFoundedOn(R, F)
    BY FS_StrictSubsetOrderingWellFounded DEF R, F
  <2>2. QED
    BY <1>4, <2>1, WFMin
<1>6. PICK i \in T : \A j \in T : ~ (<<U(j), U(i)>> \in R)
  BY <1>5
<1>7. ASSUME NEW j \in T PROVE ~ Before(st, left, j, i)
  <2> SUFFICES ASSUME Before(st, left, j, i) PROVE FALSE
    OBVIOUS
  <2>1. j \in U(i) /\ j \notin U(j)
    BY <1>2, BeforeIsOrder
  <2>2. \A k \in T : Before(st, left, k, j) => Before(st, left, k, i)
    BY <1>2, BeforeIsOrder
  <2>3. U(j) \subseteq U(i)
    BY <2>2
  <2>4. <<U(j), U(i)>> \in R
    BY <2>1, <2>3 DEF StrictSubsetOrdering
  <2>5. QED
    BY <1>6, <2>4
<1>8. \A j \in T : i = j \/ Before(st, left, i, j)
  BY <1>2, <1>7, BeforeIsOrder
<1>9. QED
  BY <1>8

StocksOK == stock \in Seq([rate : Nat, instant : Nat, total : Nat])

LEMMA CheapestTier ==
  ASSUME StocksOK, NEW left \in [Tiers -> Nat], NEW T \in SUBSET Tiers, T # {}
  PROVE  Cheapest(T, left) \in T /\ \A j \in T : stock[Cheapest(T, left)].rate <= stock[j].rate
<1>1. \A i \in T : stock[i].rate \in Nat /\ left[i] \in Nat /\ i \in Nat
  BY TierTypes DEF StocksOK, Tiers
<1>2. \E i \in T : \A j \in T : i = j \/ Before(stock, left, i, j)
  BY FirstTier DEF StocksOK, Tiers
<1>3. \E i \in T : \A j \in T :
        \/ stock[i].rate < stock[j].rate
        \/ stock[i].rate = stock[j].rate /\ left[i] > left[j]
        \/ stock[i].rate = stock[j].rate /\ left[i] = left[j] /\ i <= j
  BY <1>1, <1>2 DEF Before
<1> DEFINE c == Cheapest(T, left)
<1>4. c \in T /\ \A j \in T : stock[c].rate < stock[j].rate \/ stock[c].rate = stock[j].rate
  BY <1>3 DEF Cheapest
<1> HIDE DEF c
<1>5. \A j \in T : stock[c].rate <= stock[j].rate
  BY <1>1, <1>4
<1>6. QED
  BY <1>4, <1>5 DEF c

-----------------------------------------------------------------------------
(***************************************************************************)
(* The inductive invariant of the plan.  Candidates are considered from    *)
(* small to large; a tier's total is what is left of it and what the       *)
(* orders placed on it ask for; an order that was passed over would not    *)
(* fit into what is left, and wherever it might have fitted no larger      *)
(* order was placed.                                                       *)
(***************************************************************************)
On(i) == {o \in DOMAIN placed : placed[o] = i}

InputsOK ==
    /\ StocksOK
    /\ robux \in [Orders -> Nat \ {0}]
    /\ preferred \in [Orders -> Nat] /\ limit \in [Orders -> Nat]
    /\ \A o \in Orders : preferred[o] <= limit[o] /\ trigger[o] = preferred[o]

PlacedOK ==
    /\ todo \subseteq Orders
    /\ DOMAIN placed \subseteq Orders \ todo
    /\ remaining \in [Tiers -> Nat]
    /\ \A i \in Tiers : remaining[i] + Demand(On(i)) = stock[i].total
    /\ \A o \in DOMAIN placed : placed[o] \in Eligible(robux[o], trigger[o], Totals)

SortedOK == \A o \in Orders \ todo, p \in todo : robux[o] <= robux[p]

SkippedOK ==
    \A o \in Orders \ (todo \cup DOMAIN placed) :
        /\ Eligible(robux[o], trigger[o], remaining) = {}
        /\ \A i \in Eligible(robux[o], trigger[o], Totals) : \A p \in On(i) : robux[p] <= robux[o]

BoughtOK ==
    /\ DOMAIN bought \subseteq DOMAIN placed
    /\ \A o \in DOMAIN bought : bought[o] <= stock[placed[o]].rate

PlanInv == InputsOK /\ PlacedOK /\ SortedOK /\ SkippedOK /\ BoughtOK

LEMMA EligibleMore ==
  ASSUME StocksOK, NEW n \in Nat, NEW r \in Nat, NEW q \in Nat, r <= q,
         NEW left \in [Tiers -> Nat], NEW more \in [Tiers -> Nat], \A i \in Tiers : left[i] <= more[i]
  PROVE  Eligible(n, r, left) \subseteq Eligible(n, q, more)
<1> SUFFICES ASSUME NEW i \in Eligible(n, r, left) PROVE i \in Eligible(n, q, more)
  OBVIOUS
<1>1. i \in Tiers /\ stock[i].rate \in Nat /\ left[i] \in Nat /\ more[i] \in Nat /\ left[i] <= more[i]
  BY TierTypes DEF StocksOK, Tiers, Eligible
<1>2. QED
  BY <1>1 DEF Eligible

LEMMA TotalsType ==
  ASSUME StocksOK
  PROVE  Totals \in [Tiers -> Nat] /\ \A i \in Tiers : Totals[i] = stock[i].total
BY TierTypes DEF StocksOK, Tiers, Totals

LEMMA DemandType ==
  ASSUME InputsOK, NEW S \in SUBSET Orders
  PROVE  IsFiniteSet(S) /\ Demand(S) = Cardinality(Units(robux, S)) /\ Demand(S) \in Nat
<1>1. IsFiniteSet(S)
  BY OrdersAssumption, FS_Subset
<1>2. Demand(S) = Cardinality(Units(robux, S))
  BY DEF Demand, Units
<1> DEFINE g == [o \in S |-> robux[o]]
<1>3. g \in [S -> Nat] /\ Units(g, S) = Units(robux, S)
  BY DEF Units, InputsOK
<1> HIDE DEF g
<1>4. Cardinality(Units(robux, S)) \in Nat
  BY <1>1, <1>3, UnitsFinite
<1>5. QED
  BY <1>1, <1>2, <1>4

\* The plan leaves of a tier no more than the snapshot showed.
LEMMA LeftIsLess ==
  ASSUME InputsOK, PlacedOK
  PROVE  \A i \in Tiers : remaining[i] <= Totals[i]
<1> SUFFICES ASSUME NEW i \in Tiers PROVE remaining[i] <= Totals[i]
  OBVIOUS
<1>1. On(i) \in SUBSET Orders
  BY DEF On, PlacedOK
<1>2. Demand(On(i)) \in Nat
  BY <1>1, DemandType
<1>3. remaining[i] \in Nat /\ remaining[i] + Demand(On(i)) = stock[i].total
  BY DEF PlacedOK
<1>4. Totals[i] = stock[i].total
  BY TotalsType DEF InputsOK
<1>5. QED
  BY <1>2, <1>3, <1>4

LEMMA InitPlan == Init => PlanInv
<1> SUFFICES ASSUME Init PROVE PlanInv
  OBVIOUS
<1>1. InputsOK
  <2>1. stock \in Seq([rate : Nat, instant : Nat, total : Nat])
    BY StocksAssumption DEF Init
  <2>2. robux \in [Orders -> Nat \ {0}] /\ preferred \in [Orders -> Nat] /\ limit \in [Orders -> Nat]
    BY NumbersAssumption DEF Init
  <2>3. \A o \in Orders : preferred[o] <= limit[o] /\ trigger[o] = preferred[o]
    BY DEF Init
  <2>4. QED
    BY <2>1, <2>2, <2>3 DEF InputsOK, StocksOK
<1>2. DOMAIN placed = {} /\ DOMAIN bought = {} /\ todo = Orders
  BY DEF Init
<1>3. \A i \in Tiers : remaining[i] + Demand(On(i)) = stock[i].total
  <2> TAKE i \in Tiers
  <2>1. On(i) = {}
    BY <1>2 DEF On
  <2>2. Demand(On(i)) = 0
    BY <2>1, FS_EmptySet DEF Demand
  <2>3. remaining[i] = stock[i].total /\ remaining[i] \in Nat
    BY <1>1, TotalsType DEF Init, InputsOK
  <2>4. QED
    BY <2>2, <2>3
<1>4. remaining \in [Tiers -> Nat]
  BY <1>1, TotalsType DEF Init, InputsOK
<1>5. PlacedOK
  BY <1>2, <1>3, <1>4 DEF PlacedOK
<1>6. QED
  BY <1>1, <1>2, <1>5 DEF PlanInv, SortedOK, SkippedOK, BoughtOK

LEMMA InputsKept == InputsOK /\ UNCHANGED <<inputs, trigger>> => InputsOK'
BY DEF InputsOK, StocksOK, inputs

\* Taking the next candidate leaves the others behind it.
LEMMA NextIsSmallest ==
  ASSUME InputsOK, SortedOK, PlacedOK, NEW o \in Orders, IsNext(o),
         UNCHANGED robux, todo' = todo \ {o}
  PROVE  SortedOK'
<1> SUFFICES ASSUME NEW p \in Orders \ todo', NEW q \in todo' PROVE robux[p] <= robux[q]
  BY DEF SortedOK
<1>1. q \in todo /\ q # o /\ q \in Orders
  BY DEF PlacedOK
<1>2. robux[o] \in Nat /\ robux[q] \in Nat
  BY <1>1 DEF InputsOK
<1>3. CASE p = o
  BY <1>1, <1>2, <1>3 DEF IsNext
<1>4. CASE p # o
  BY <1>1, <1>4 DEF SortedOK
<1>5. QED
  BY <1>3, <1>4

LEMMA PlacementsKept ==
  ASSUME PlacedOK, UNCHANGED <<inputs, trigger, remaining, placed>>, todo' \subseteq todo
  PROVE  PlacedOK'
<1>1. UNCHANGED <<stock, robux>> /\ Tiers' = Tiers /\ Totals' = Totals
  BY DEF inputs, Tiers, Totals
<1>2. ASSUME NEW i \in Tiers PROVE (remaining[i] + Demand(On(i)) = stock[i].total)'
  <2>1. Demand(On(i))' = Demand(On(i))
    BY <1>1 DEF Demand, On
  <2>2. QED
    BY <1>1, <2>1 DEF PlacedOK
<1>3. \A o \in DOMAIN placed' : placed'[o] \in Eligible(robux[o], trigger[o], Totals)'
  BY <1>1 DEF PlacedOK, Eligible
<1>4. QED
  BY <1>1, <1>2, <1>3 DEF PlacedOK

LEMMA StepPlace ==
  ASSUME PlanInv, NEW o \in Orders, IsNext(o), Place(o)
  PROVE  PlanInv'
<1> DEFINE tiers == Eligible(robux[o], trigger[o], remaining)
<1>0. InputsOK /\ PlacedOK /\ SortedOK /\ SkippedOK /\ BoughtOK /\ StocksOK
  BY DEF PlanInv, InputsOK
<1>1. PICK i : i = Cheapest(tiers, remaining)
  OBVIOUS
<1>2. /\ tiers # {} /\ tiers \in SUBSET Tiers
      /\ placed' = [p \in DOMAIN placed \cup {o} |-> IF p = o THEN i ELSE placed[p]]
      /\ remaining' = [remaining EXCEPT ![i] = @ - robux[o]]
      /\ todo' = todo \ {o}
      /\ UNCHANGED <<inputs, trigger, bought, stock, robux>>
  BY <1>1 DEF Place, Eligible, inputs
<1>3. o \in todo /\ o \notin DOMAIN placed /\ robux[o] \in Nat \ {0} /\ trigger[o] \in Nat
  BY <1>0 DEF IsNext, PlacedOK, InputsOK
<1>4. i \in Tiers /\ remaining[i] >= robux[o] /\ i \in Eligible(robux[o], trigger[o], remaining)
  <2>1. i \in tiers
    BY <1>0, <1>2, <1>1, CheapestTier DEF PlacedOK
  <2>2. QED
    BY <2>1 DEF Eligible
<1>5. Tiers' = Tiers /\ Totals' = Totals
  BY <1>2 DEF Tiers, Totals
<1> HIDE DEF tiers
<1>6. /\ remaining' \in [Tiers -> Nat] /\ \A j \in Tiers : remaining'[j] <= remaining[j]
      /\ remaining'[i] = remaining[i] - robux[o] /\ \A j \in Tiers \ {i} : remaining'[j] = remaining[j]
  BY <1>0, <1>2, <1>3, <1>4 DEF PlacedOK
<1>7. /\ DOMAIN placed' = DOMAIN placed \cup {o} /\ placed'[o] = i
      /\ \A p \in DOMAIN placed : placed'[p] = placed[p]
  BY <1>2, <1>3
<1>8. On(i)' = On(i) \cup {o} /\ o \notin On(i) /\ \A j \in Tiers \ {i} : On(j)' = On(j)
  BY <1>3, <1>7 DEF On
<1>9. \A j \in Tiers : On(j) \in SUBSET Orders
  BY <1>0 DEF On, PlacedOK
<1>10. \A j \in Tiers : Demand(On(j))' = Cardinality(Units(robux, On(j)'))
  BY <1>2 DEF Demand, Units
<1>11. Cardinality(Units(robux, On(i)')) = Demand(On(i)) + robux[o]
  <2>1. IsFiniteSet(On(i)) /\ Demand(On(i)) = Cardinality(Units(robux, On(i)))
    BY <1>0, <1>4, <1>9, DemandType
  <2>2. \A p \in On(i) \cup {o} : robux[p] \in Nat
    BY <1>0, <1>4, <1>9 DEF InputsOK
  <2> DEFINE S == On(i)
  <2>3. o \notin S /\ On(i)' = S \cup {o}
    BY <1>8
  <2> HIDE DEF S
  <2>4. Cardinality(Units(robux, S \cup {o})) = Cardinality(Units(robux, S)) + robux[o]
    BY <2>1, <2>2, <2>3, UnitsAdd DEF S
  <2>5. QED
    BY <2>1, <2>3, <2>4 DEF S
<1>12. ASSUME NEW j \in Tiers PROVE remaining'[j] + Demand(On(j))' = stock[j].total
  <2>1. Demand(On(j)) \in Nat /\ remaining[j] \in Nat /\ remaining[j] + Demand(On(j)) = stock[j].total
    BY <1>0, <1>9, DemandType DEF PlacedOK
  <2>2. CASE j = i
    BY <1>3, <1>6, <1>10, <1>11, <2>1, <2>2
  <2>3. CASE j # i
    <3>1. Demand(On(j))' = Demand(On(j))
      BY <1>0, <1>8, <1>9, <1>10, <2>3, DemandType
    <3>2. QED
      BY <1>6, <2>1, <2>3, <3>1
  <2>4. QED
    BY <2>2, <2>3
<1>13. i \in Eligible(robux[o], trigger[o], Totals)
  <2>1. \A j \in Tiers : remaining[j] <= Totals[j]
    BY <1>0, LeftIsLess
  <2>2. Totals \in [Tiers -> Nat] /\ remaining \in [Tiers -> Nat]
    BY <1>0, TotalsType DEF PlacedOK
  <2>3. QED
    BY <1>0, <1>3, <1>4, <2>1, <2>2, EligibleMore
<1>14. \A n, r, left : Eligible(n, r, left)' = Eligible(n, r, left)
  BY <1>2, <1>5 DEF Eligible
<1>15. InputsOK'
  BY <1>0, <1>2, InputsKept
<1>16. PlacedOK'
  <2>1. todo' \subseteq Orders /\ DOMAIN placed' \subseteq Orders \ todo'
    BY <1>0, <1>2, <1>7 DEF PlacedOK
  <2>2. \A p \in DOMAIN placed' : placed'[p] \in Eligible(robux[p], trigger[p], Totals)
    BY <1>0, <1>7, <1>13 DEF PlacedOK
  <2>3. \A p \in DOMAIN placed' : placed'[p] \in Eligible(robux[p], trigger[p], Totals)'
    BY <2>2, <1>2, <1>5 DEF Eligible
  <2>4. QED
    BY <1>2, <1>5, <1>6, <1>12, <2>1, <2>3 DEF PlacedOK
<1>17. SortedOK'
  BY <1>0, <1>2, NextIsSmallest
<1>18. SkippedOK'
  <2> SUFFICES ASSUME NEW p \in Orders \ (todo' \cup DOMAIN placed')
               PROVE  /\ Eligible(robux[p], trigger[p], remaining)' = {}
                      /\ \A j \in Eligible(robux[p], trigger[p], Totals)' :
                           \A q \in On(j)' : robux[q] <= robux[p]
    BY <1>2 DEF SkippedOK
  <2>1. p \in Orders \ (todo \cup DOMAIN placed) /\ p # o
    BY <1>2, <1>7
  <2>2. Eligible(robux[p], trigger[p], remaining) = {}
    BY <1>0, <2>1 DEF SkippedOK
  <2>3. robux[p] \in Nat /\ trigger[p] \in Nat /\ remaining \in [Tiers -> Nat]
    BY <1>0, <2>1 DEF InputsOK, PlacedOK
  <2>4. Eligible(robux[p], trigger[p], remaining') = {}
    BY <1>0, <1>6, <2>2, <2>3, EligibleMore
  <2>5. Eligible(robux[p], trigger[p], remaining)' = {}
    BY <2>4, <1>2, <1>5 DEF Eligible
  <2>6. ASSUME NEW j \in Eligible(robux[p], trigger[p], Totals), NEW q \in On(j)' PROVE robux[q] <= robux[p]
    <3>1. CASE q # o
      <4>1. q \in On(j)
        BY <3>1, <1>7 DEF On
      <4>2. QED
        BY <1>0, <2>1, <4>1 DEF SkippedOK
    <3>2. CASE q = o
      <4>1. j = i
        BY <3>2, <1>7 DEF On
      <4>2. robux[p] <= robux[o]
        BY <1>0, <1>3, <2>1 DEF SortedOK
      <4>3. remaining[i] >= robux[p] /\ remaining[i] \in Nat
        BY <1>3, <1>4, <2>3, <4>2
      <4>4. i \in Eligible(robux[p], trigger[p], remaining)
        BY <2>6, <4>1, <4>3 DEF Eligible
      <4>5. QED
        BY <2>2, <4>4
    <3>3. QED
      BY <3>1, <3>2
  <2>7. Eligible(robux[p], trigger[p], Totals)' = Eligible(robux[p], trigger[p], Totals)
    BY <1>2, <1>5 DEF Eligible
  <2>8. QED
    BY <1>2, <2>5, <2>6, <2>7
<1>19. BoughtOK'
  BY <1>0, <1>2, <1>7 DEF BoughtOK
<1>20. QED
  BY <1>15, <1>16, <1>17, <1>18, <1>19 DEF PlanInv

LEMMA StepSkip ==
  ASSUME PlanInv, NEW o \in Orders, IsNext(o), Skip(o)
  PROVE  PlanInv'
<1>0. InputsOK /\ PlacedOK /\ SortedOK /\ SkippedOK /\ BoughtOK
  BY DEF PlanInv
<1>1. /\ Eligible(robux[o], trigger[o], remaining) = {}
      /\ todo' = todo \ {o} /\ o \in todo
      /\ UNCHANGED <<inputs, trigger, stock, robux, remaining, placed, bought>>
  BY DEF Skip, inputs, IsNext
<1>2. InputsOK'
  BY <1>0, <1>1, InputsKept
<1>3. PlacedOK'
  BY <1>0, <1>1, PlacementsKept
<1>4. SortedOK'
  BY <1>0, <1>1, NextIsSmallest
<1>5. SkippedOK'
  <2>1. ASSUME NEW i \in Tiers, NEW p \in On(i) PROVE robux[p] <= robux[o]
    BY <1>0, <1>1 DEF On, PlacedOK, SortedOK
  <2>2. ASSUME NEW p \in Orders \ (todo' \cup DOMAIN placed)
        PROVE  /\ Eligible(robux[p], trigger[p], remaining) = {}
               /\ \A i \in Eligible(robux[p], trigger[p], Totals) : \A q \in On(i) : robux[q] <= robux[p]
    <3>1. CASE p = o
      BY <1>1, <2>1, <3>1 DEF Eligible
    <3>2. CASE p # o
      BY <1>0, <1>1, <3>2 DEF SkippedOK
    <3>3. QED
      BY <3>1, <3>2
  <2>3. QED
    BY <1>1, <2>2 DEF SkippedOK, Eligible, On, Tiers, Totals
<1>6. BoughtOK'
  BY <1>0, <1>1 DEF BoughtOK
<1>7. QED
  BY <1>2, <1>3, <1>4, <1>5, <1>6 DEF PlanInv

\* The rate an order accepts is never below the one it was planned with.
LEMMA RateIsEnough ==
  ASSUME InputsOK, NEW o \in Orders
  PROVE  EffectiveRate(o) \in Nat /\ trigger[o] \in Nat /\ trigger[o] <= EffectiveRate(o)
<1> DEFINE p == preferred[o]
           l == limit[o]
<1>1. p \in Nat /\ l \in Nat /\ p <= l /\ trigger[o] = p
  BY DEF InputsOK
<1> HIDE DEF p, l
<1>2. Min({p, l}) = p
  <2>1. \E x \in {p, l} : \A y \in {p, l} : x <= y
    BY <1>1
  <2>2. Min({p, l}) \in {p, l} /\ \A y \in {p, l} : Min({p, l}) <= y
    BY <2>1 DEF Min
  <2>3. QED
    BY <1>1, <2>2
<1>3. EffectiveRate(o) = IF o \in expired THEN l ELSE p
  BY <1>2 DEF EffectiveRate, p, l
<1>4. QED
  BY <1>1, <1>3

\* A planned order finds its tier again, or a cheaper one.
LEMMA TierIsFoundAgain ==
  ASSUME InputsOK, PlacedOK, NEW o \in DOMAIN placed
  PROVE  \E i \in Tiers : SelectStock(o) = {i} /\ stock[i].rate <= stock[placed[o]].rate
<1> DEFINE tiers == Eligible(robux[o], EffectiveRate(o), Totals)
<1>1. o \in Orders /\ robux[o] \in Nat
  BY DEF PlacedOK, InputsOK
<1>2. StocksOK /\ Totals \in [Tiers -> Nat]
  BY TotalsType DEF InputsOK
<1>3. EffectiveRate(o) \in Nat /\ trigger[o] \in Nat /\ trigger[o] <= EffectiveRate(o)
  BY <1>1, RateIsEnough
<1>4. Eligible(robux[o], trigger[o], Totals) \subseteq Eligible(robux[o], EffectiveRate(o), Totals)
  <2>1. \A i \in Tiers : Totals[i] <= Totals[i]
    BY <1>2
  <2>2. QED
    BY <1>1, <1>2, <1>3, <2>1, EligibleMore
<1>5. placed[o] \in tiers /\ tiers \in SUBSET Tiers
  BY <1>4 DEF PlacedOK, Eligible
<1>6. SelectStock(o) = {Cheapest(tiers, Totals)}
  BY <1>5 DEF SelectStock
<1> HIDE DEF tiers
<1>7. Cheapest(tiers, Totals) \in tiers /\ stock[Cheapest(tiers, Totals)].rate <= stock[placed[o]].rate
  BY <1>2, <1>5, CheapestTier
<1>8. QED
  BY <1>5, <1>6, <1>7

LEMMA StepStart ==
  ASSUME PlanInv, NEW o \in Orders, Start(o)
  PROVE  PlanInv'
<1>0. InputsOK /\ PlacedOK /\ SortedOK /\ SkippedOK /\ BoughtOK
  BY DEF PlanInv
<1>1. /\ o \in DOMAIN placed
      /\ UNCHANGED <<inputs, stock, robux, trigger, todo, remaining, placed>>
  BY DEF Start, inputs
<1>2. PICK i \in SelectStock(o) :
        bought' = [p \in DOMAIN bought \cup {o} |-> IF p = o THEN stock[i].rate ELSE bought[p]]
  BY DEF Start
<1>3. stock[i].rate <= stock[placed[o]].rate
  BY <1>0, <1>1, TierIsFoundAgain
<1>4. BoughtOK'
  BY <1>0, <1>1, <1>2, <1>3 DEF BoughtOK
<1>5. InputsOK'
  BY <1>0, <1>1, InputsKept
<1>6. PlacedOK'
  BY <1>0, <1>1, PlacementsKept
<1>8. SortedOK' /\ SkippedOK'
  BY <1>0, <1>1 DEF SortedOK, SkippedOK, Tiers, On, Eligible, Totals
<1>7. QED
  BY <1>4, <1>5, <1>6, <1>8 DEF PlanInv

LEMMA StepPlan == PlanInv /\ [Next]_vars => PlanInv'
<1> SUFFICES ASSUME PlanInv, [Next]_vars PROVE PlanInv'
  OBVIOUS
<1>1. ASSUME UNCHANGED <<inputs, trigger, todo, remaining, placed, bought>> PROVE PlanInv'
  <2>1. InputsOK'
    BY <1>1, InputsKept DEF PlanInv
  <2>2. PlacedOK'
    BY <1>1, PlacementsKept DEF PlanInv
  <2>3. SortedOK' /\ SkippedOK' /\ BoughtOK'
    BY <1>1 DEF PlanInv, inputs, SortedOK, SkippedOK, BoughtOK, Tiers, On, Eligible, Totals
  <2>4. QED
    BY <2>1, <2>2, <2>3 DEF PlanInv
<1>2. ASSUME NEW o \in Orders, Expire(o) PROVE PlanInv'
  BY <1>1, <1>2 DEF Expire
<1>3. CASE UNCHANGED vars
  BY <1>1, <1>3 DEF vars, inputs
<1>4. QED
  BY <1>2, <1>3, StepPlace, StepSkip, StepStart DEF Next, Consider

\* The invariant holds in every pass, over any orders, snapshots and rates.
THEOREM PlanInvariant == Spec => []PlanInv
BY InitPlan, StepPlan, PTL DEF Spec

\* Carrying out the plan finds each planned order a tier, at no more than its planned rate.
THEOREM PlannedOrdersAreBought == Spec => []PlanCarriesOver
<1>1. PlanInv => PlanCarriesOver
  BY TierIsFoundAgain DEF PlanInv, BoughtOK, PlanCarriesOver
<1>2. QED
  BY <1>1, PlanInvariant, PTL

\* The plan stays within the snapshot and within what each order accepts, and leaves no order
\* waiting that would fit into what it leaves.
THEOREM PlanIsWithinStock == Spec => []PlanIsMaximal
<1>1. PlanInv => PlanIsMaximal
  <2> SUFFICES ASSUME PlanInv, Planned PROVE PlanIsMaximal
    BY DEF PlanIsMaximal
  <2> DEFINE f == [o \in Orders |-> IF o \in DOMAIN placed THEN placed[o] ELSE 0]
  <2>1. InputsOK /\ PlacedOK /\ SkippedOK /\ todo = {} /\ DOMAIN placed \subseteq Orders
    BY DEF PlanInv, PlacedOK, Planned
  <2>2. \A i \in Tiers : i # 0
    BY <2>1, TierTypes DEF InputsOK, StocksOK, Tiers
  <2>3. \A o \in DOMAIN placed : placed[o] \in Tiers /\ placed[o] \in Eligible(robux[o], trigger[o], Totals)
    BY <2>1 DEF PlacedOK, Eligible
  <2>4. f \in [Orders -> Tiers \cup {0}]
    BY <2>3
  <2>5. ASSUME NEW i \in Tiers PROVE {o \in Orders : f[o] = i} = On(i)
    BY <2>1, <2>2 DEF On
  <2>6. ASSUME NEW i \in Tiers PROVE Demand(On(i)) <= stock[i].total
    <3>1. On(i) \in SUBSET Orders
      BY <2>1 DEF On
    <3>2. Demand(On(i)) \in Nat
      BY <2>1, <3>1, DemandType
    <3>3. remaining[i] \in Nat /\ remaining[i] + Demand(On(i)) = stock[i].total
      BY <2>1 DEF PlacedOK
    <3>4. QED
      BY <3>2, <3>3
  <2>7. ASSUME NEW i \in Tiers, NEW o \in On(i) PROVE i \in Eligible(robux[o], trigger[o], Totals)
    BY <2>3 DEF On
  <2> HIDE DEF f
  <2>8. f \in Assignments
    BY <2>4, <2>5, <2>6, <2>7 DEF Assignments
  <2>9. \A o \in Orders \ DOMAIN placed : Eligible(robux[o], trigger[o], remaining) = {}
    BY <2>1 DEF SkippedOK
  <2>10. QED
    BY <2>8, <2>9 DEF PlanIsMaximal, f
<1>2. QED
  BY <1>1, PlanInvariant, PTL

-----------------------------------------------------------------------------
(***************************************************************************)
(* One tier.  Suppose another selection F served more customers than the   *)
(* plan P.  It serves one, o, that the plan passed over.  The customers    *)
(* only P has can be paired with customers only F has, o not among them,   *)
(* and those the plan passed over ask for no less: so P and o together ask *)
(* for no more than F, and o would have fitted.                            *)
(***************************************************************************)
LEMMA PairingOff ==
  ASSUME InputsOK, NEW P \in SUBSET Orders, NEW F \in SUBSET Orders, Cardinality(P) < Cardinality(F),
         \A p \in P \ F, q \in F \ P : robux[p] <= robux[q],
         NEW o \in F \ P
  PROVE  Demand(P) + robux[o] <= Demand(F)
<1> DEFINE G == F \ {o}
           D == P \ F
           E == (F \ P) \ {o}
<1>1. IsFiniteSet(P) /\ IsFiniteSet(F) /\ Cardinality(P) \in Nat /\ Cardinality(F) \in Nat
  BY OrdersAssumption, FS_Subset, FS_CardinalityType
<1>2. /\ IsFiniteSet(D) /\ Cardinality(D) = Cardinality(P) - Cardinality(P \cap F)
      /\ IsFiniteSet(F \ P) /\ Cardinality(F \ P) = Cardinality(F) - Cardinality(F \cap P)
  BY <1>1, FS_Difference
<1>3. F \cap P = P \cap F /\ Cardinality(P \cap F) \in Nat
  BY <1>1, FS_Intersection, FS_CardinalityType
<1>4. IsFiniteSet(E) /\ Cardinality(E) = Cardinality(F \ P) - 1
  <2> DEFINE H == F \ P
  <2>1. IsFiniteSet(H) /\ o \in H
    BY <1>2
  <2> HIDE DEF H
  <2>2. IsFiniteSet(H \ {o}) /\ Cardinality(H \ {o}) = Cardinality(H) - 1
    BY <2>1, FS_RemoveElement
  <2>3. QED
    BY <2>2 DEF H
<1>5. Cardinality(D) <= Cardinality(E)
  BY <1>1, <1>2, <1>3, <1>4
<1>6. PICK h : h \in Injection(D, E)
  <2> HIDE DEF D, E
  <2>1. QED
    BY <1>2, <1>4, <1>5, Embedding
<1>7. h \in [D -> E] /\ \A p, q \in D : h[p] = h[q] => p = q
  BY <1>6 DEF Injection, IsInjective
<1> DEFINE g == [p \in P |-> IF p \in F THEN p ELSE h[p]]
<1>8. g \in Injection(P, G)
  <2>1. \A p \in P : g[p] \in G
    BY <1>7
  <2>2. \A p, q \in P : g[p] = g[q] => p = q
    BY <1>7
  <2>3. g \in [P -> G]
    BY <2>1
  <2> HIDE DEF g, G
  <2>4. QED
    BY <2>2, <2>3 DEF Injection, IsInjective
<1>9. \A p \in P \cup F : robux[p] \in Nat
  BY DEF InputsOK
<1>10. \A p \in P : robux[p] <= robux[g[p]]
  BY <1>7, <1>9
<1>11. IsFiniteSet(G) /\ G \in SUBSET Orders /\ o \notin G /\ F = G \cup {o}
  BY <1>1, FS_RemoveElement
<1>12. \A p \in P \cup G : robux[p] \in Nat
  BY <1>9
<1>13. \A p \in G \cup {o} : robux[p] \in Nat
  BY <1>9
<1> HIDE DEF g, G
<1>14. Cardinality(Units(robux, P)) <= Cardinality(Units(robux, G))
  BY <1>8, <1>10, <1>11, <1>12, UnitsPaired
<1>15. Cardinality(Units(robux, F)) = Cardinality(Units(robux, G)) + robux[o]
  BY <1>11, <1>13, UnitsAdd
<1>16. /\ Demand(P) = Cardinality(Units(robux, P)) /\ Demand(P) \in Nat
       /\ Demand(F) = Cardinality(Units(robux, F)) /\ Demand(F) \in Nat
  BY DemandType
<1>17. Cardinality(Units(robux, G)) \in Nat /\ robux[o] \in Nat
  BY <1>11, <1>9, DemandType
<1>18. QED
  BY <1>14, <1>15, <1>16, <1>17

LEMMA OneTier ==
  ASSUME PlanInv, Planned, Len(stock) = 1, NEW f \in Assignments
  PROVE  Customers(f) <= Cardinality(DOMAIN placed)
<1> DEFINE P == DOMAIN placed
           F == {o \in Orders : f[o] # 0}
<1>1. InputsOK /\ PlacedOK /\ SkippedOK /\ todo = {} /\ P \in SUBSET Orders /\ F \in SUBSET Orders
  BY DEF PlanInv, PlacedOK, Planned
<1>2. Tiers = {1}
  BY <1>1 DEF InputsOK, StocksOK, Tiers
<1>3. F = {o \in Orders : f[o] = 1}
  BY <1>2 DEF Assignments
<1>4. Demand(F) <= stock[1].total /\ \A o \in F : 1 \in Eligible(robux[o], trigger[o], Totals)
  BY <1>2, <1>3 DEF Assignments
<1>5. P = On(1)
  BY <1>1, <1>2 DEF On, PlacedOK, Eligible
<1>6. remaining[1] \in Nat /\ remaining[1] + Demand(P) = stock[1].total
  BY <1>1, <1>2, <1>5 DEF PlacedOK
<1>7. \A o \in F \ P : remaining[1] < robux[o] /\ \A p \in P : robux[p] <= robux[o]
  <2> TAKE o \in F \ P
  <2>1. /\ Eligible(robux[o], trigger[o], remaining) = {}
        /\ \A i \in Eligible(robux[o], trigger[o], Totals) : \A p \in On(i) : robux[p] <= robux[o]
    BY <1>1 DEF SkippedOK
  <2>2. 1 \in Eligible(robux[o], trigger[o], Totals) /\ robux[o] \in Nat
    BY <1>1, <1>4 DEF InputsOK
  <2>3. ~ (remaining[1] >= robux[o])
    BY <2>1, <2>2 DEF Eligible
  <2>4. QED
    BY <1>5, <1>6, <2>1, <2>2, <2>3
<1>8. IsFiniteSet(P) /\ IsFiniteSet(F) /\ Cardinality(P) \in Nat /\ Cardinality(F) \in Nat
  BY <1>1, OrdersAssumption, FS_Subset, FS_CardinalityType
<1>9. Demand(P) \in Nat /\ Demand(F) \in Nat /\ stock[1].total \in Nat
  BY <1>1, <1>2, DemandType, TierTypes DEF InputsOK, StocksOK, Tiers
<1>10. Customers(f) = Cardinality(F)
  BY DEF Customers
<1> HIDE DEF P, F
<1>11. CASE Cardinality(F) <= Cardinality(P)
  BY <1>10, <1>11 DEF P
<1>12. CASE Cardinality(P) < Cardinality(F)
  <2>1. PICK o \in F : o \notin P
    <3> SUFFICES ASSUME F \in SUBSET P PROVE FALSE
      OBVIOUS
    <3>1. Cardinality(F) <= Cardinality(P)
      BY <1>8, FS_Subset
    <3>2. QED
      BY <1>8, <1>12, <3>1
  <2>2. Demand(P) + robux[o] <= Demand(F)
    BY <1>1, <1>7, <1>12, <2>1, PairingOff
  <2>3. remaining[1] < robux[o] /\ robux[o] \in Nat
    BY <1>1, <1>7, <2>1 DEF InputsOK
  <2>4. QED
    BY <1>4, <1>6, <1>9, <2>2, <2>3
<1>13. QED
  BY <1>8, <1>11, <1>12

\* When one tier is on offer, no selection within it serves more customers than the plan.
THEOREM OneTierServesMost == Spec => []OneTierIsOptimal
<1>1. PlanInv => OneTierIsOptimal
  BY OneTier DEF OneTierIsOptimal
<1>2. QED
  BY <1>1, PlanInvariant, PTL

=============================================================================
