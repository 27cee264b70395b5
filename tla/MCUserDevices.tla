---------------------------- MODULE MCUserDevices ----------------------------
(* Instances of UserDevices for TLC.                                       *)
EXTENDS UserDevices, TLC

\* A compatibility, an OAuth 2.0 and a personal session ask for the same device.
DeviceOfSession == "c1" :> "d1" @@ "o1" :> "d1" @@ "p1" :> "d1"
=============================================================================
