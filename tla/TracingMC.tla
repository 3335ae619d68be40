----------------------------- MODULE TracingMC -----------------------------
(***************************************************************************)
(* Instances of five components that share no table and no handler: nodes  *)
(* of the bridge, the proxy and ingestion, the API of traces, the costs of *)
(* an organisation, and the registry of agents.  A run lets one of them    *)
(* move.                                                                   *)
(***************************************************************************)
EXTENDS BridgeNodesMC, Proxy, Traces, OrgCosts, Registry

CONSTANTS h1, h2, b1, b2, i1, i2, a1, a2, a3

VARIABLE floor  \* the component that moves

tracingVars == <<floor, nodeVars, proxyVars, tracesVars, orgVars, registryVars>>

\* Proxy.  Dollars for a million tokens, in tenths; one answer has all kinds of tokens, and
\* the other nothing that goes out.
MCPrice == [in |-> 30, cached |-> 3, out |-> 150]

MCUsages == {[in |-> 100, cached |-> 20, written |-> 10, out |-> 50], [in |-> 30, cached |-> 40, written |-> 0, out |-> 0]}

\* Two imports that name the same agents the other way round.
MCNamesOf == i1 :> <<a1, a2>> @@ i2 :> <<a2, a1>>

\* Traces.  An event that costs something, and one that completes the trace.
MCContents == {[in |-> 1, tokens |-> 1, ends |-> FALSE], [in |-> 2, tokens |-> 0, ends |-> TRUE]}

\* Bound: of the traces to start with, one is watched.
MCWatched == watch.at = "unopened" \/ (tracked[2].agent = a1 /\ tracked[2].status = "running")

\* Costs.  Each agent has a maker.
MCMakerOf == b1 :> h1 @@ b2 :> h2

\* Registry.  A name outside the file with a slug of a name in it.
MCSlugOf == a1 :> a1 @@ a2 :> a2 @@ a3 :> a1

MCFile == <<a1, a2>>

\* A component that rests has one initial state.  A trace has two sessions, one delegated by
\* the other; the agent that fails is one that both have.
InitTracing ==
  /\ floor \in {"nodes", "proxy", "traces", "costs", "registry"}
  /\ InitNodes /\ InitProxy /\ InitTraces /\ InitOrg /\ InitRegistry
  /\ floor # "nodes" => client = [s \in Sockets |-> c1]
  /\ floor # "proxy" => userKey
  /\ floor # "registry" => registry = <<>>
  /\ tracked[1].agent = a1 /\ tracked[1].status = "running" /\ tracked[1].parent = NoSession
  /\ tracked[2].parent = 1 /\ (tracked[2].agent = a1 \/ tracked[2].status = "running")
  /\ floor # "traces" => watch.of = "gateway" /\ tracked[2] = [tracked[1] EXCEPT !.parent = 1]

NextTracing ==
  \/ floor = "nodes" /\ NextNodes /\ UNCHANGED <<floor, proxyVars, tracesVars, orgVars, registryVars>>
  \/ floor = "proxy" /\ NextProxy /\ UNCHANGED <<floor, nodeVars, tracesVars, orgVars, registryVars>>
  \/ floor = "traces" /\ NextTraces /\ MCWatched'
     /\ UNCHANGED <<floor, nodeVars, proxyVars, orgVars, registryVars>>
  \/ floor = "costs" /\ NextOrg /\ UNCHANGED <<floor, nodeVars, proxyVars, tracesVars, registryVars>>
  \/ floor = "registry" /\ NextRegistry /\ UNCHANGED <<floor, nodeVars, proxyVars, tracesVars, orgVars>>

SpecTracing == InitTracing /\ [][NextTracing]_tracingVars

\* Every variable of the five components has its type.
TracingTypeOK == TypeOK /\ ProxyTypeOK /\ TracesTypeOK /\ OrgTypeOK /\ RegistryTypeOK

\* Sockets, posts and callers differ in nothing but their identity, and so do the rows of
\* nodes; the components share the names.
MCTracingSymmetry == Permutations(NodeIds) \cup Permutations(Sockets)
=============================================================================
