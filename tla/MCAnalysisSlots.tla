-------------------------- MODULE MCAnalysisSlots --------------------------
(***************************************************************************)
(* Instances of AnalysisSlots for TLC.                                     *)
(***************************************************************************)
EXTENDS AnalysisSlots

=============================================================================
