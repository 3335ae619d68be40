------------------------------ MODULE OrgCosts ------------------------------
(***************************************************************************)
(* What agents cost, seen from the people who made them: the overview adds *)
(* the costs of everybody below a manager to the manager's own.  An        *)
(* overview reads employees, agents and costs with a query each and then   *)
(* works without an await, so while it climbs from one employee to the top *)
(* nothing else in the process moves.  Administrators give employees       *)
(* managers meanwhile, and agents run up costs.  One number stands for a   *)
(* cost; agents that are active are added up in the same way.              *)
(***************************************************************************)
EXTENDS Naturals, FiniteSets, Functions

CONSTANTS
  Heads,      \* employees
  Bots,       \* agents
  MakerOf,    \* the employee whose user made an agent, or Nobody
  Clerks,     \* requests that change the manager of an employee
  MaxMoves,   \* bound: such requests
  MaxBot,     \* bound: the cost of an agent
  MaxHops,    \* bound: managers an overview passes
  Nobody      \* no manager, no employee

ASSUME OrgAssumption ==
  /\ IsFiniteSet(Heads) /\ IsFiniteSet(Bots)
  /\ MakerOf \in [Bots -> Heads \cup {Nobody}] /\ Nobody \notin Heads
  /\ MaxMoves \in Nat /\ MaxBot \in Nat /\ MaxHops \in Nat

VARIABLES
  manager,   \* of each employee, or Nobody
  botCost,   \* cost of the sessions of each agent
  move,      \* what each clerk is in the middle of
  moves,
  overview   \* the overview: stage, what was read, own and team costs, whom it has done and where it is

orgVars == <<manager, botCost, move, moves, overview>>

Resting == [at |-> "idle", chart |-> <<>>, own |-> <<>>, team |-> <<>>, left |-> {},
            from |-> Nobody, to |-> Nobody, hops |-> 0]

InitOrg ==
  /\ manager = [h \in Heads |-> Nobody]
  /\ botCost = [b \in Bots |-> 0]
  /\ move = [k \in Clerks |-> [at |-> "idle", of |-> Nobody, to |-> Nobody]]
  /\ moves = 0
  /\ overview = Resting

Climbing == overview.at = "climb"

\* Sessions of an agent cost something.
Spend(b) ==
  /\ ~Climbing /\ botCost[b] < MaxBot
  /\ botCost' = [botCost EXCEPT ![b] = @ + 1]
  /\ UNCHANGED <<manager, move, moves, overview>>

----------------------------------------------------------------------------
(* updateEmployee, when it is given a manager: both are there, and nothing *)
(* is asked about how they stand to each other.                            *)

FindManager(k, h, m) ==
  /\ ~Climbing /\ move[k].at = "idle" /\ moves < MaxMoves
  /\ moves' = moves + 1
  /\ move' = [move EXCEPT ![k] = [at |-> "write", of |-> h, to |-> m]]
  /\ UNCHANGED <<manager, botCost, overview>>

WriteManager(k) ==
  /\ ~Climbing /\ move[k].at = "write"
  /\ manager' = [manager EXCEPT ![move[k].of] = move[k].to]
  /\ move' = [move EXCEPT ![k].at = "idle"]
  /\ UNCHANGED <<botCost, moves, overview>>

----------------------------------------------------------------------------
(* getOrgCostRollup.                                                       *)

\* What getEmployeeCostSummary answers, too.
CostOf(h) == SumFunctionOnSet(botCost, {b \in Bots : MakerOf[b] = h})

OrgRests == UNCHANGED <<manager, botCost, move, moves>>

ReadEmployees ==
  /\ overview.at = "idle"
  /\ overview' = [Resting EXCEPT !.at = "read", !.chart = manager]
  /\ OrgRests

\* Agents, which do not change here, and then costs are read; the climb from the first
\* employee begins.
ReadCosts ==
  LET own == [h \in Heads |-> CostOf(h)] IN
  /\ overview.at = "read"
  /\ overview' = [overview EXCEPT !.at = "climb", !.own = own, !.team = own, !.left = Heads]
  /\ OrgRests

NextEmployee(h) ==
  /\ Climbing /\ overview.to = Nobody /\ h \in overview.left
  /\ overview' = [overview EXCEPT !.left = @ \ {h}, !.from = h, !.to = overview.chart[h]]
  /\ OrgRests

\* A manager is given what the employee has cost.
\* Mutant: what the team of the employee has cost.
Passed_Team(h) == overview.team[h]

Passed(h) == overview.own[h]

\* There is no bound on the climb but the top.
Climb ==
  LET m == overview.to IN
  /\ Climbing /\ m # Nobody /\ overview.hops < MaxHops
  /\ overview' = [overview EXCEPT !.team[m] = @ + Passed(overview.from), !.to = overview.chart[m],
                                  !.hops = @ + 1]
  /\ OrgRests

Reply ==
  /\ Climbing /\ overview.to = Nobody /\ overview.left = {}
  /\ overview' = [overview EXCEPT !.at = "answered"]
  /\ OrgRests

AskAgain ==
  /\ overview.at = "answered"
  /\ overview' = Resting
  /\ OrgRests

----------------------------------------------------------------------------
NextOrg ==
  \/ \E b \in Bots : Spend(b)
  \/ \E k \in Clerks : WriteManager(k) \/ \E h \in Heads, m \in Heads \cup {Nobody} : FindManager(k, h, m)
  \/ ReadEmployees \/ ReadCosts \/ Climb \/ Reply \/ AskAgain
  \/ \E h \in Heads : NextEmployee(h)

SpecOrg == InitOrg /\ [][NextOrg]_orgVars

----------------------------------------------------------------------------
OrgTypeOK ==
  /\ manager \in [Heads -> Heads \cup {Nobody}] /\ botCost \in [Bots -> 0..MaxBot]
  /\ moves \in 0..MaxMoves /\ overview.hops \in 0..MaxHops

\* Who is above an employee, directly or not, when an overview read it: those in every set that
\* has the manager of the employee and with everybody their manager.
Above(h) == {m \in Heads : \A T \in SUBSET Heads :
  (\A e \in T \cup {h} : overview.chart[e] \in T \cup {Nobody}) => m \in T}

\* An overview that is answered gives everybody the cost of all that are below, each once.  It
\* is answered exactly when nobody is above themselves: then the climb is short, and otherwise
\* it goes on for ever, as nothing keeps a manager from being given one from below
\* (cost-service.ts:194-204, employee.service.ts:141-172).
RollupAddsUp == overview.at \in {"climb", "answered"} =>
  LET cyclic == \E h \in Heads : h \in Above(h) IN
  /\ overview.at = "answered" =>
       /\ ~cyclic
       /\ \A h \in Heads :
            overview.team[h] = SumFunctionOnSet(overview.own, {e \in Heads : e = h \/ h \in Above(e)})
  /\ ~cyclic => overview.hops <= (Cardinality(Heads) * (Cardinality(Heads) - 1)) \div 2
=============================================================================
