----------------------------- MODULE MCPipeline -----------------------------
(* Model-checking instances of Pipeline: the .cfg files give the bounds.    *)
EXTENDS Pipeline, TLC

=============================================================================
