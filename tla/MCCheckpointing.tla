-------------------------- MODULE MCCheckpointing --------------------------
(***************************************************************************)
(* Checkpointing on small instances.                                       *)
(***************************************************************************)
EXTENDS Checkpointing, TLC

NodeSymmetry == Permutations(Nodes)
=============================================================================
