--------------------------- MODULE MCAnalysisEngine ---------------------------
(***************************************************************************)
(* The instances of AnalysisEngine that TLC checks: a workspace of one or  *)
(* two files, of which the first is near the open document.                *)
(***************************************************************************)
EXTENDS AnalysisEngine

MCFiles == <<"near", "far">>
MCOneFile == <<"near">>
MCNeighbors == {"near"}
=============================================================================
