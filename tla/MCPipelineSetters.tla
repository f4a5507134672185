-------------------------- MODULE MCPipelineSetters --------------------------
(* Two threads calling the setters of one verbatim and one clamped         *)
(* parameter, at most two commands queued at a time.                       *)
EXTENDS PipelineSetters
===============================================================================
