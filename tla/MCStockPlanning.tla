---------------------------- MODULE MCStockPlanning ----------------------------
(***************************************************************************)
(* Instances of StockPlanning for TLC: three orders of one to three Robux, *)
(* and snapshots of one tier or of two.                                    *)
(***************************************************************************)
EXTENDS StockPlanning

Tier(r, m, n) == [rate |-> r, instant |-> m, total |-> n]

MCStocks ==
    {<<Tier(1, m, n)>> : m \in 1 .. 3, n \in 1 .. 5} \cup
    {<<Tier(r, m, n), Tier(2, 3, k)>> : r \in 0 .. 2, m \in {1, 3}, n \in 1 .. 3, k \in 1 .. 3}

=============================================================================
