----------------------------- MODULE MCOrderIntake -----------------------------
(***************************************************************************)
(* Instances of OrderIntake for TLC: one Roblox user, entered by hand or   *)
(* with the verified identity.                                             *)
(***************************************************************************)
EXTENDS OrderIntake, TLC

CONSTANTS t1, t2, u1

MCRequests == [name : Names, uid : {NoUid, u1}, allow : BOOLEAN]
MCSymmetry == Permutations(Tasks)

=============================================================================
