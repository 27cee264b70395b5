---------------------------- MODULE MCDeviceCodes ----------------------------
(* Instances of DeviceCodes for TLC.                                       *)
EXTENDS DeviceCodes, TLC
=============================================================================
