--------------------------- MODULE MCPipelineThreads ---------------------------
(* PipelineThreads with room for one live source thread beside one         *)
(* abandoned one, and two external sources beside the built-in generator.  *)
EXTENDS PipelineThreads
===============================================================================
