----------------------------- MODULE MCWebPage -----------------------------
(***************************************************************************)
(* Instances of WebPage for TLC.                                           *)
(***************************************************************************)
EXTENDS WebPage

=============================================================================
