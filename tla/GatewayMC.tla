----------------------------- MODULE GatewayMC -----------------------------
(***************************************************************************)
(* Instances of the agent gateway's traces and of the client of the        *)
(* OpenClaw gateway.  They share nothing, so a run lets one of them move.  *)
(***************************************************************************)
EXTENDS GatewayTrace, GatewayClient, TLC

CONSTANTS a1, a2, k1, k2

VARIABLE side  \* the component that moves

gatewayVars == <<side, vars, clientVars>>

\* A component that rests has one initial state.
InitGateway ==
  /\ side \in {"traces", "client"}
  /\ Init /\ InitClient
  /\ side = "traces" => deadline = {}
  /\ side = "client" => mode = "single"

NextGateway ==
  \/ side = "traces" /\ Next /\ UNCHANGED <<side, clientVars>>
  \/ side = "client" /\ NextClient /\ UNCHANGED <<side, vars>>

SpecGateway == InitGateway /\ [][NextGateway]_gatewayVars /\ ExecutorsProceed /\ ClientTimers

\* Every variable of the two components has its type.
GatewayTypeOK == TypeOK /\ ClientTypeOK

MCTwo == <<a1, a2>>

\* What is paused can be resumed, and whatever is written or deleted can meet a cancel.
MCOpsOf == k1 :> {"pause", "update", "delete"} @@ k2 :> {"resume", "cancel"}
=============================================================================
