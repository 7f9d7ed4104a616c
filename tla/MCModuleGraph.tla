---------------------------- MODULE MCModuleGraph ----------------------------
(***************************************************************************)
(* The instance of ModuleGraph that TLC checks: every graph on up to three *)
(* modules, self-dependencies and cycles included.                         *)
(***************************************************************************)
EXTENDS ModuleGraph

MCIds == 1 .. 3
=============================================================================
