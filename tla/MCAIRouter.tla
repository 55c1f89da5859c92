----------------------------- MODULE MCAIRouter -----------------------------
(* Instances of AIRouter for TLC.                                           *)
EXTENDS AIRouter
=============================================================================
