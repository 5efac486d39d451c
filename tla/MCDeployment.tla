---------------------------- MODULE MCDeployment ----------------------------
(***************************************************************************)
(* Deployment for TLC.                                                     *)
(***************************************************************************)
EXTENDS Deployment

CONSTANTS o1, t1, t2

MCDefaults == [maximum |-> 50, preferred |-> 40, low |-> 10, critical |-> 5, commission |-> 3000,
               interval |-> 300, categories |-> EmptyBag, mode |-> TRUE]

\* Each is valid by itself, and invalid after the other.
MCEdits == {<<"maximum", 40>>, <<"preferred", 50>>}

=============================================================================
