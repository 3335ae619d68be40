--------------------------- MODULE BridgeNodesMC ---------------------------
(* Instances of BridgeNodes for TLC. *)
EXTENDS BridgeNodes, TLC

CONSTANTS c1, c2, d1

\* One machine with a device identity and one without.
MCDeviceOf == c1 :> d1 @@ c2 :> NoDevice

\* The same device presented under two client ids.
MCSharedDevice == c1 :> d1 @@ c2 :> d1

\* One machine only.
MCOneDevice == c1 :> d1

MCNodesSymmetry == Permutations(NodeIds) \cup Permutations(Sockets)
=============================================================================
