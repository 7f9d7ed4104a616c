---------------------------- MODULE MCBuildDriver ----------------------------
(***************************************************************************)
(* The instances of BuildDriver that TLC checks: a chain of three modules, *)
(* the first of which publishes an exact ABI, and a module with Java       *)
(* sources.  Versions 1 and 2 differ in bodies only, version 4 is broken.  *)
(***************************************************************************)
EXTENDS BuildDriver

MCDeps == <<{}, {}, {2}, {3}>>
MCJava == {1}
MCExact == {2}
MCVersions == 1 .. 4
MCBroken == {4}
MCSig == <<1, 1, 2, 2>>
=============================================================================
