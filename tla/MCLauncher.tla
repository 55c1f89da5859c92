------------------------------ MODULE MCLauncher ------------------------------
(* Instances of Launcher for TLC.                                           *)
EXTENDS Launcher
=============================================================================
