----------------------------- MODULE MCHistory -----------------------------
(***************************************************************************)
(* A recorded run over the bundled policy.                                 *)
(***************************************************************************)
EXTENDS MCPipeline, PipelineHistory

=============================================================================
