------------------------- MODULE MCPipelineManager -------------------------
(* PipelineManager for TLC: the constants are in the configurations.        *)
EXTENDS PipelineManager

=============================================================================
