---------------------------- MODULE MCRequeueTiming ----------------------------
(***************************************************************************)
(* Instances of RequeueTiming for TLC: two orders of one customer, whose   *)
(* purchases are two of the three attempts a window allows, so that one    *)
(* automatic replacement is allowed and a second is too many.              *)
(***************************************************************************)
EXTENDS RequeueTiming, TLC

CONSTANTS o1, o2, automation, operator

MCBackoff == <<1, 2>>
MCDelayTiers == << <<2, 1>>, <<3, 2>> >>
MCSymmetry == Permutations(Orders)

=============================================================================
