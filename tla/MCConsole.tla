------------------------------ MODULE MCConsole ------------------------------
(***************************************************************************)
(* Console for TLC: every order has amounts of its own.                    *)
(***************************************************************************)
EXTENDS Console, TLC

CONSTANTS o1, o2, a1, a2

MCAmounts == (o1 :> {100, 110}) @@ (o2 :> {200})
MCSymmetry == Permutations(Tasks) \cup Permutations(Ids)

=============================================================================
