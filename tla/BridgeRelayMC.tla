--------------------------- MODULE BridgeRelayMC ---------------------------
(* Instances of BridgeRelay for TLC. *)
EXTENDS BridgeRelay, TLC

CONSTANTS c1, c2

\* Machines without a device identity.
MCDeviceOf == c1 :> NoDevice @@ c2 :> NoDevice
=============================================================================
