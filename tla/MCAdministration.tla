---------------------------- MODULE MCAdministration ----------------------------
(***************************************************************************)
(* A small instance of every part.  The accounts' users are symmetric, and *)
(* only safety is checked.                                                 *)
(***************************************************************************)
EXTENDS Administration, TLC

CONSTANTS u1, u2, u3

MCThreeUsers == {u1, u2, u3}
MCSymmetry == Permutations(MCThreeUsers)
=============================================================================
