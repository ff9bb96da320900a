----------------------------- MODULE MCPipeline -----------------------------
(***************************************************************************)
(* Three requests on one event of two versions, two attempts per run.      *)
(***************************************************************************)
EXTENDS Pipeline, TLC

Symmetric == Permutations(Requests)
=============================================================================
