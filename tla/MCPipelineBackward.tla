------------------------- MODULE MCPipelineBackward -------------------------
(* Instances of PipelineBackward for TLC, and mutants of its definitions. *)
EXTENDS PipelineBackward
=============================================================================
