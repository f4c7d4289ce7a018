-------------------------- MODULE MCRenderPipeline --------------------------
(* Small instances of RenderPipeline for TLC.  No symmetry: it would not   *)
(* be sound for the liveness properties.                                   *)
EXTENDS RenderPipeline
=============================================================================
