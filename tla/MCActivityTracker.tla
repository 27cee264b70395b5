-------------------------- MODULE MCActivityTracker --------------------------
(* An instance of ActivityTracker for TLC.                                 *)
EXTENDS ActivityTracker
=============================================================================
