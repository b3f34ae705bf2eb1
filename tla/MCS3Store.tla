----------------------------- MODULE MCS3Store -----------------------------
(***************************************************************************)
(* S3Store on a small bucket.                                              *)
(***************************************************************************)
EXTENDS S3Store, TLC

ClientSymmetry == Permutations(Clients)
=============================================================================
