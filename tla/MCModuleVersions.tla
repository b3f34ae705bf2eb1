-------------------------- MODULE MCModuleVersions --------------------------
(***************************************************************************)
(* ModuleVersions while a new module is rolled out: one engine has the old *)
(* one, one the new one.                                                   *)
(***************************************************************************)
EXTENDS ModuleVersions

CONSTANTS old, new, a, b

RollOut == [e \in {a, b} |-> IF e = a THEN old ELSE new]
=============================================================================
