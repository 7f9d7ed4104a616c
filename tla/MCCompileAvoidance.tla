------------------------ MODULE MCCompileAvoidance --------------------------
(***************************************************************************)
(* The instances of CompileAvoidance that TLC checks: five versions of the *)
(* project.  The first two use KSP, the first of them with a resource      *)
(* directory; the next two have only Kotlin sources, the last only         *)
(* resources.                                                              *)
(***************************************************************************)
EXTENDS CompileAvoidance

MCVersions == 1 .. 5
MCWithSources == 1 .. 4
MCWithResources == {1, 5}
MCWithKsp == {1, 2}
=============================================================================
