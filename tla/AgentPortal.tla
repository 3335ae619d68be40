---------------------------- MODULE AgentPortal ----------------------------
(***************************************************************************)
(* One agent of the agent portal: its row, the log of its configuration,   *)
(* its team, its budget of the current month and the sessions that are     *)
(* charged to it.  A job is one request of an administrator, or one call   *)
(* of logSession, which runs in the background and which only the tests of *)
(* the repository call so far.  Each is a chain of awaited database calls  *)
(* and they interleave.  The audit entry a controller writes when a job    *)
(* has succeeded is read by nothing here, and is left out.                 *)
(***************************************************************************)
EXTENDS Naturals, Sequences

CONSTANTS
  Jobs,         \* requests that may be in flight together
  Models,       \* models and parameter sets an agent may be given
  Wanted,       \* bound: the changes that are asked for
  Crews,        \* teams
  Caps,         \* monthly caps that may be set
  SessionCost,  \* what a session costs
  MaxJobs,      \* bound: jobs that are begun, and calls that fail
  Nil           \* no team, no row

ASSUME PortalAssumption ==
  /\ SessionCost \in Nat \ {0} /\ MaxJobs \in Nat /\ Caps \subseteq Nat \ {0} /\ Nil \notin Nat \cup Crews

VARIABLES
  agent,      \* the row of agent_registry
  configLog,  \* agent_config_logs of the agent
  budget,     \* agent_budgets of the agent and the month; "since": history, the ledger when it was made
  books,      \* sums of agent_sessions, agent_cost_ledger and agent_daily_stats
  job,        \* what each job is in the middle of
  begun,      \* jobs begun and calls that failed
  mixed       \* history: two jobs that touch budgets were in flight together, or a call failed

portalVars == <<agent, configLog, budget, books, job, begun, mixed>>

\* registerAgent.
NewAgent(m) == [status |-> "ACTIVE", model |-> m, params |-> m, version |-> 1, crew |-> Nil,
                critical |-> FALSE, health |-> "unknown"]

Idle == [at |-> "idle", do |-> Nil, seen |-> Nil, left |-> <<>>]

InitPortal ==
  /\ agent \in {NewAgent(m) : m \in Models}
  /\ configLog = <<>> /\ budget = <<>>
  /\ books = [sessions |-> 0, ledger |-> 0, stats |-> 0]
  /\ job = [j \in Jobs |-> Idle]
  /\ begun = 0 /\ mixed = FALSE

JobAt(j, at) == job[j].at = at
JobTo(j, at) == job' = [job EXCEPT ![j].at = at]
JobEnds(j) == job' = [job EXCEPT ![j] = Idle]

\* The kinds of job that touch budgets.
Spending == {"BUDGET", "SESSION", "UNPAUSE"}
SpendingInFlight == {j \in Jobs : job[j].at # "idle" /\ job[j].do.type \in Spending}

\* A job is begun with what it is to do.
BeginJob(j, do, at, seen) ==
  /\ JobAt(j, "idle")
  /\ begun < MaxJobs
  /\ begun' = begun + 1
  /\ job' = [job EXCEPT ![j] = [at |-> at, do |-> do, seen |-> seen, left |-> <<>>]]
  /\ mixed' = (mixed \/ (do.type \in Spending /\ SpendingInFlight # {}))

Continues == UNCHANGED <<begun, mixed>>

----------------------------------------------------------------------------
(* Changes of the agent: what each of them writes.                         *)

\* updateAgent writes the columns it is given; "version" stands for the system prompt.
updateAgent(field, to) == [type |-> "UPDATE", field |-> field, to |-> to]
deactivateAgent == [type |-> "DEACTIVATE", field |-> "status", to |-> "INACTIVE"]
archiveAgent == [type |-> "ARCHIVE", field |-> "status", to |-> "ARCHIVED"]
healthCheck == [type |-> "HEALTH", field |-> "health", to |-> "healthy"]
changeModel(m) == [type |-> "MODEL_CHANGE", field |-> "model", to |-> m]
updateSystemPrompt == [type |-> "PROMPT_UPDATE", field |-> "version", to |-> Nil]
adjustParams(m) == [type |-> "PARAMS_ADJUST", field |-> "params", to |-> m]
toggleAgent(enable) == [type |-> "TOGGLE", field |-> "status", to |-> IF enable THEN "ACTIVE" ELSE "INACTIVE"]
assignAgent(crew) == [type |-> "ASSIGN", field |-> "crew", to |-> crew]
removeAgent(crew) == [type |-> "REMOVE", field |-> "crew", to |-> Nil, of |-> crew]

Changes ==
  {updateAgent(f, m) : f \in {"model", "params"}, m \in Models} \cup {updateAgent("version", Nil)}
    \cup {updateAgent("critical", b) : b \in BOOLEAN} \cup {toggleAgent(b) : b \in BOOLEAN}
    \cup {changeModel(m) : m \in Models} \cup {adjustParams(m) : m \in Models}
    \cup {assignAgent(c) : c \in Crews} \cup {removeAgent(c) : c \in Crews}
    \cup {deactivateAgent, archiveAgent, healthCheck, updateSystemPrompt}

\* The handlers find the agent, in its team when it is to leave one ...
FindAgent(j, c) ==
  /\ c \in Wanted
  /\ c.type = "REMOVE" => agent.crew = c.of
  /\ BeginJob(j, c, "write", agent)
  /\ UNCHANGED <<agent, configLog, budget, books>>

\* ... write it; the database counts the versions of the prompt up itself ...
\* Mutant: the version is one more than the one that was read.
NextVersion_FromRead(j) == job[j].seen.version + 1

NextVersion(j) == agent.version + 1

Logged(c) == c.type \notin {"ASSIGN", "REMOVE", "HEALTH"} /\ c.field # "critical"

WriteAgent(j) ==
  LET c == job[j].do  to == IF c.field = "version" THEN NextVersion(j) ELSE c.to IN
  /\ JobAt(j, "write")
  /\ agent' = [agent EXCEPT ![c.field] = to]
  /\ IF Logged(c)
     THEN job' = [job EXCEPT ![j].do.to = to, ![j].at = IF c.type = "UNPAUSE" THEN "resume" ELSE "log"]
     ELSE JobEnds(j)
  /\ Continues /\ UNCHANGED <<configLog, budget, books>>

\* ... and log what they read and what they wrote, but not the text of a prompt.
Entry(c, seen) ==
  [type |-> c.type, field |-> c.field,
   from |-> IF c = updateAgent("version", c.to) THEN "encrypted" ELSE seen[c.field],
   to |-> IF c = updateAgent("version", c.to) THEN "encrypted" ELSE c.to]

WriteConfigLog(j) ==
  /\ JobAt(j, "log")
  /\ configLog' = Append(configLog, Entry(job[j].do, job[j].seen))
  /\ JobEnds(j)
  /\ Continues /\ UNCHANGED <<agent, budget, books>>

----------------------------------------------------------------------------
(* Budgets.                                                                *)

\* setBudget: the row is updated by its id, or made; the unique index takes rows without a
\* team for different ones.
FindBudget(j, cap) ==
  /\ \E row \in (IF budget = <<>> THEN {Nil} ELSE DOMAIN budget) :
       BeginJob(j, [type |-> "BUDGET", cap |-> cap], "budget", row)
  /\ UNCHANGED <<agent, configLog, budget, books>>

NewBudget(cap) == [cap |-> cap, spend |-> 0, paused |-> FALSE, since |-> books.ledger]

SetBudget(j) ==
  LET row == job[j].seen  cap == job[j].do.cap IN
  /\ JobAt(j, "budget")
  /\ budget' = IF row = Nil THEN Append(budget, NewBudget(cap)) ELSE [budget EXCEPT ![row].cap = cap]
  /\ JobEnds(j)
  /\ Continues /\ UNCHANGED <<agent, configLog, books>>

\* unpauseHandler finds the budget; the agent is made active whatever its state, and the
\* entry says that it was paused.
FindPaused(j) ==
  /\ budget # <<>>
  /\ BeginJob(j, [type |-> "UNPAUSE", field |-> "status", to |-> "ACTIVE"], "write", [status |-> "PAUSED"])
  /\ UNCHANGED <<agent, configLog, budget, books>>

ResumeBudgets(j) ==
  /\ JobAt(j, "resume")
  /\ budget' = [i \in DOMAIN budget |-> [budget[i] EXCEPT !.paused = FALSE]]
  /\ JobTo(j, "log")
  /\ Continues /\ UNCHANGED <<agent, configLog, books>>

----------------------------------------------------------------------------
(* logSession.                                                             *)

\* The agent is looked up, and the session is stored ...
StartSession(j) ==
  /\ BeginJob(j, [type |-> "SESSION"], "session", Nil)
  /\ UNCHANGED <<agent, configLog, budget, books>>

StoreSession(j) ==
  /\ JobAt(j, "session")
  /\ books' = [books EXCEPT !.sessions = @ + 1]
  /\ JobTo(j, "ledger")
  /\ Continues /\ UNCHANGED <<agent, configLog, budget>>

StoreCost(j) ==
  /\ JobAt(j, "ledger")
  /\ books' = [books EXCEPT !.ledger = @ + SessionCost]
  /\ JobTo(j, "stats")
  /\ Continues /\ UNCHANGED <<agent, configLog, budget>>

CountDay(j) ==
  /\ JobAt(j, "stats")
  /\ books' = [books EXCEPT !.stats = @ + SessionCost]
  /\ JobTo(j, "budgets")
  /\ Continues /\ UNCHANGED <<agent, configLog, budget>>

\* ... then the budgets are read, and one after the other is charged.
ReadBudgets(j) ==
  /\ JobAt(j, "budgets")
  /\ IF budget = <<>> THEN JobEnds(j)
     ELSE job' = [job EXCEPT ![j].left = budget, ![j].seen = 1, ![j].at = "charge"]
  /\ Continues /\ UNCHANGED <<agent, configLog, budget, books>>

\* The budget a logger is at, as it was read, and the next one.
Read(j) == Head(job[j].left)
NextBudget(j) ==
  IF Len(job[j].left) = 1 THEN JobEnds(j)
  ELSE job' = [job EXCEPT ![j].left = Tail(@), ![j].seen = @ + 1, ![j].at = "charge"]

\* Mutant: the session is charged once it has been paused for.
NewSpend_Paused(j) == IF Read(j).paused THEN Read(j).spend ELSE Read(j).spend + SessionCost

NewSpend(j) == Read(j).spend + SessionCost

Charge(j) ==
  /\ JobAt(j, "charge")
  /\ budget' = [budget EXCEPT ![job[j].seen].spend = NewSpend(j)]
  /\ IF NewSpend(j) >= Read(j).cap /\ ~Read(j).paused THEN JobTo(j, "critical") ELSE NextBudget(j)
  /\ Continues /\ UNCHANGED <<agent, configLog, books>>

CheckCritical(j) ==
  /\ JobAt(j, "critical")
  /\ IF agent.critical THEN NextBudget(j) ELSE JobTo(j, "pause")
  /\ Continues /\ UNCHANGED <<agent, configLog, budget, books>>

PauseAgent(j) ==
  /\ JobAt(j, "pause")
  /\ agent' = [agent EXCEPT !.status = "PAUSED"]
  /\ JobTo(j, "mark")
  /\ Continues /\ UNCHANGED <<configLog, budget, books>>

MarkBudget(j) ==
  /\ JobAt(j, "mark")
  /\ budget' = [budget EXCEPT ![job[j].seen].paused = TRUE]
  /\ NextBudget(j)
  /\ Continues /\ UNCHANGED <<agent, configLog, books>>

\* A call fails: the request fails with it, and a logger ends silently.
JobFault(j) ==
  /\ ~JobAt(j, "idle")
  /\ begun < MaxJobs
  /\ begun' = begun + 1
  /\ mixed' = (mixed \/ job[j].do.type \in Spending)
  /\ JobEnds(j)
  /\ UNCHANGED <<agent, configLog, budget, books>>

----------------------------------------------------------------------------
NextPortal == \E j \in Jobs :
  \/ (\E c \in Changes : FindAgent(j, c)) \/ WriteAgent(j) \/ WriteConfigLog(j)
  \/ (\E cap \in Caps : FindBudget(j, cap)) \/ SetBudget(j) \/ FindPaused(j) \/ ResumeBudgets(j)
  \/ StartSession(j) \/ StoreSession(j) \/ StoreCost(j) \/ CountDay(j) \/ ReadBudgets(j)
  \/ Charge(j) \/ CheckCritical(j) \/ PauseAgent(j) \/ MarkBudget(j) \/ JobFault(j)

SpecPortal == InitPortal /\ [][NextPortal]_portalVars

----------------------------------------------------------------------------
PortalTypeOK ==
  /\ agent.status \in {"ACTIVE", "INACTIVE", "PAUSED", "ARCHIVED"} /\ {agent.model, agent.params} \subseteq Models
  /\ agent.version \in Nat \ {0} /\ agent.crew \in Crews \cup {Nil} /\ agent.critical \in BOOLEAN
  /\ \A i \in DOMAIN budget : budget[i].cap \in Caps /\ budget[i].spend \in Nat /\ budget[i].paused \in BOOLEAN
  /\ begun \in 0..MaxJobs

\* The numbers that prompt updates log belong to one update each and grow, although each of
\* them read the row before any number of others wrote it (config.service.ts:39-60).
VersionsNumberPrompts ==
  LET updates == {i \in DOMAIN configLog : configLog[i].type = "PROMPT_UPDATE"} IN
  \A i \in updates :
    /\ configLog[i].from < configLog[i].to /\ configLog[i].to <= agent.version
    /\ \A k \in updates \ {i} : configLog[k].to # configLog[i].to

\* When jobs that touch budgets come one after the other, in any order and whatever changes
\* of the agent come between their steps, the agent has one budget, it has been charged
\* what the ledger and the daily statistics say, and an agent is paused under a budget that
\* shows it (session.service.ts:97-133, budget.service.ts:20-47, 128-135).
BudgetsKeepUp == ~mixed /\ SpendingInFlight = {} =>
  /\ Len(budget) <= 1
  /\ books.stats = books.ledger /\ books.ledger = SessionCost * books.sessions
  /\ \A i \in DOMAIN budget : budget[i].spend = books.ledger - budget[i].since
  /\ agent.status = "PAUSED" => \E i \in DOMAIN budget : budget[i].paused

\* What the rows of an agent and of its budget have kept up with, of the two above.
AgentKeepsUp == VersionsNumberPrompts /\ BudgetsKeepUp
=============================================================================
