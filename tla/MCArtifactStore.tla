--------------------------- MODULE MCArtifactStore ---------------------------
(***************************************************************************)
(* The instances of ArtifactStore that TLC checks: two builds of a module  *)
(* with two artifacts.                                                     *)
(***************************************************************************)
EXTENDS ArtifactStore

CONSTANTS b1, b2

MCBuilders == {b1, b2}
=============================================================================
