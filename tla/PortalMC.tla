------------------------------ MODULE PortalMC ------------------------------
(***************************************************************************)
(* Instances of six components, no two of which share a row: chat and      *)
(* sharing, delegation, the agent portal, credentials and requests,        *)
(* personnel, and the reports of costs.  A run lets one of them move.      *)
(***************************************************************************)
EXTENDS Chat, Delegation, AgentPortal, Access, Personnel, CostReports, TLC

CONSTANTS q1, q2, d1, d2, w1, u1, a1, a2, t1, m1, m2, p1, p2

VARIABLE wing  \* the component that moves

workspaceVars == <<wing, chatVars, delegationVars, portalVars, accessVars, personnelVars, reportVars>>

\* Chat.  A share with a limit that its column rounds to 0, and one to look only.
MCTerms == {[permission |-> "control", mode |-> "transfer", limit |-> 0],
            [permission |-> "view", mode |-> "route", limit |-> None]}

MCAskedBy == q1 :> Guest @@ q2 :> Owner

\* Bound: two messages and other requests that are in flight together.
MCTwoAtOnce ==
  Cardinality(InFlight) + Cardinality({k \in Callers : call[k].at \notin {"idle", "done", "failed"}}) <= 2

\* Delegation.  One answer that names two helpers and one that names one.
MCDelegations == d1 :> 2 @@ d2 :> 1

\* Portal.  A change of each kind, with one of those that are also of another.
MCWanted == {updateSystemPrompt, updateAgent("version", Nil), updateAgent("critical", TRUE),
             toggleAgent(TRUE), assignAgent(w1), removeAgent(w1)}

\* Reports.  Two agents of one user, one of them in a team, and another user asks one of them.
MCMakerOf == a1 :> p1 @@ a2 :> p1
MCTeamOf == a1 :> t1 @@ a2 :> Absent
MCModelOf == a1 :> m1 @@ a2 :> m2
MCUses == {<<a1, p2>>, <<a2, p1>>}
MCRanges == {<<Absent, Absent>>, <<2, Absent>>, <<Absent, 1>>, <<2, 2>>}

\* Bound: one session or relay that is not finished, and one relay.
MCOneOpen ==
  /\ Cardinality({i \in Rows : booked[i].at # "end"}) + Cardinality({b \in Bridges : bridged[b].at # "billed"}) <= 1
  /\ Cardinality(Bridges) <= 1

\* A component that rests has one initial state.  The names of units are interchangeable.
InitWorkspace ==
  /\ wing \in {"chat", "delegation", "portal", "access", "personnel", "reports"}
  /\ InitChat /\ InitDelegation /\ InitPortal /\ InitAccess /\ InitPersonnel /\ InitReports
  /\ wing # "chat" => Cardinality(Shares) = 1
  /\ \A s \in Shares : share[s].terms.permission = "control" \/ (wing = "chat" /\ Cardinality(Shares) = 2)
  /\ wing # "access" => account.exists
  /\ \A n \in Units : unit[n].name = u1

NextWorkspace ==
  \/ wing = "chat" /\ NextChat /\ MCTwoAtOnce'
     /\ UNCHANGED <<wing, delegationVars, portalVars, accessVars, personnelVars, reportVars>>
  \/ wing = "delegation" /\ NextDelegation
     /\ UNCHANGED <<wing, chatVars, portalVars, accessVars, personnelVars, reportVars>>
  \/ wing = "portal" /\ NextPortal
     /\ UNCHANGED <<wing, chatVars, delegationVars, accessVars, personnelVars, reportVars>>
  \/ wing = "access" /\ NextAccess
     /\ UNCHANGED <<wing, chatVars, delegationVars, portalVars, personnelVars, reportVars>>
  \/ wing = "personnel" /\ NextPersonnel
     /\ UNCHANGED <<wing, chatVars, delegationVars, portalVars, accessVars, reportVars>>
  \/ wing = "reports" /\ NextReports /\ MCOneOpen'
     /\ UNCHANGED <<wing, chatVars, delegationVars, portalVars, accessVars, personnelVars>>

SpecWorkspace == InitWorkspace /\ [][NextWorkspace]_workspaceVars

\* Every variable of the six components has its type.
WorkspaceTypeOK == /\ ChatTypeOK /\ DelegationTypeOK /\ PortalTypeOK /\ AccessTypeOK
                   /\ PersonnelTypeOK /\ ReportsTypeOK

\* The reports agree (see CostReports); where another component moves there is nothing to report.
MCReportsAgree == wing = "reports" => ReportsAgree

\* Two requests differ in nothing but their identity; the components share the names, so
\* that a permutation is of the one that moves.
MCWorkspaceSymmetry == Permutations(Callers)
=============================================================================
