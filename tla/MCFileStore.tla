---------------------------- MODULE MCFileStore ----------------------------
(***************************************************************************)
(* FileStore on a small directory.                                         *)
(***************************************************************************)
EXTENDS FileStore, TLC

ClientSymmetry == Permutations(Clients)
=============================================================================
