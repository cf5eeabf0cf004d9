-------------------------- MODULE MCAnalysisWorkers --------------------------
(* Instances of AnalysisWorkers for TLC.                                   *)
EXTENDS AnalysisWorkers, TLC

Workers_symmetry == Permutations(Workers)
=============================================================================
