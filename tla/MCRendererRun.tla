--------------------------- MODULE MCRendererRun ---------------------------
(***************************************************************************)
(* Instances of RendererRun for TLC.                                       *)
(***************************************************************************)
EXTENDS RendererRun

=============================================================================
