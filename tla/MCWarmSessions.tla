--------------------------- MODULE MCWarmSessions ---------------------------
(***************************************************************************)
(* WarmSessions on small instances.                                        *)
(***************************************************************************)
EXTENDS WarmSessions, TLC

EngineSymmetry == Permutations(Engines)
=============================================================================
