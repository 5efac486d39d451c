--------------------------- MODULE MCRbxcrateCalls ---------------------------
(* Instances of RbxcrateCalls for TLC. *)
EXTENDS RbxcrateCalls, TLC

CONSTANTS c1, c2, c3

\* The calls are alike.
MCSymmetry == Permutations(Calls)

=============================================================================
