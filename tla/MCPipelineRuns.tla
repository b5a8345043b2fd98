--------------------------- MODULE MCPipelineRuns ---------------------------
(* Instances of PipelineRuns for TLC. *)
EXTENDS PipelineRuns

CONSTANTS g1, g2, s1, w1
=============================================================================
