------------------------------ MODULE MCPurchase ------------------------------
(***************************************************************************)
(* Instances of PurchaseWorkflows for TLC.  One Client Order: every        *)
(* operation reads and writes one order, under that order's lock.  Two     *)
(* coroutines give every pairwise race; PurchaseWorkflows_proofs covers    *)
(* any number of either.                                                   *)
(***************************************************************************)
EXTENDS PurchaseInvariant

CONSTANTS o1, t1, t2

=============================================================================
