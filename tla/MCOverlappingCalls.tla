------------------------- MODULE MCOverlappingCalls -------------------------
(***************************************************************************)
(* OverlappingCalls with a few calls.                                      *)
(***************************************************************************)
EXTENDS OverlappingCalls, TLC

CallSymmetry == Permutations(Calls)
=============================================================================
