--------------------------- MODULE MCPipelineWorker ---------------------------
(* Small instances of PipelineWorker: one fallible type, one that always   *)
(* succeeds and the one extraction publishes.                              *)
EXTENDS PipelineWorker

MCTypes == {Extraction, Processed}
=============================================================================
