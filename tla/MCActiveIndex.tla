--------------------------- MODULE MCActiveIndex ---------------------------
(***************************************************************************)
(* ActiveIndex on a small bucket.                                          *)
(***************************************************************************)
EXTENDS ActiveIndex

TwoInstances == 1 .. 2
=============================================================================
