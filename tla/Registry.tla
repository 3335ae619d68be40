------------------------------ MODULE Registry ------------------------------
(***************************************************************************)
(* The registry of agents: agents are registered, renamed and archived     *)
(* through the portal, which checks nothing, and the agents of OpenClaw's  *)
(* configuration file are written to it one after the other, by name.      *)
(* Names are unique and so are slugs, which the sync makes of names, so    *)
(* that different names may have one; the database checks both when a row  *)
(* is written.  The routes of modules/agents, but for the sync, are not    *)
(* registered by the server and left out.                                  *)
(***************************************************************************)
EXTENDS Naturals, Sequences, SequencesExt

CONSTANTS
  Names,      \* of agents
  SlugOf,     \* the slug that is made of each name
  File,       \* names in the configuration file, in order
  Callers,    \* requests
  MaxCalls,   \* bound: requests served
  MaxRegistryFaults, \* bound: calls that fail
  NoName      \* no name, no slug

ASSUME RegistryAssumption ==
  /\ DOMAIN SlugOf = Names /\ NoName \notin Names
  /\ File \in Seq(Names) /\ File # <<>>
  /\ MaxCalls \in Nat /\ MaxRegistryFaults \in Nat

VARIABLES
  registry,   \* rows in the order they were made: name, slug, status
  call,       \* what each caller is in the middle of: stage, row, name, slug, names left of the file,
              \* rows it has written; history: whether another wrote since it looked or renamed
              \* since it began, and the name of the row that is in its way
  calls,
  registryFaults

registryVars == <<registry, call, calls, registryFaults>>

Uncalled == [at |-> "idle", row |-> 0, name |-> NoName, slug |-> NoName, left |-> <<>>,
             wrote |-> <<>>, stale |-> FALSE, renamed |-> FALSE, clash |-> NoName]

\* An agent may be there, with a slug of its maker's choice.
InitRegistry ==
  /\ registry \in {<<>>} \cup {<<[name |-> n, slug |-> SlugOf[s], status |-> "ACTIVE"]>> : n \in Names, s \in Names}
  /\ call = [k \in Callers |-> Uncalled]
  /\ calls = 0 /\ registryFaults = 0

CallAt(k, at) == call[k].at = at
CallTo(k, at) == call' = [call EXCEPT ![k].at = at]

\* The row of a name, or 0.
\* Mutant: of an agent that is not archived.
Found_Live(n) == SelectInSeq(registry, LAMBDA r : r.name = n /\ r.status # "ARCHIVED")

Found(n) == SelectInSeq(registry, LAMBDA r : r.name = n)

\* Names of the rows but row i that keep a name and a slug from being written.
Clashes(i, n, slug) ==
  {registry[j].name : j \in {j \in DOMAIN registry : j # i /\ (registry[j].name = n \/ registry[j].slug = slug)}}

Begin(k, begun) ==
  /\ CallAt(k, "idle") /\ calls < MaxCalls
  /\ calls' = calls + 1
  /\ call' = [call EXCEPT ![k] = begun]
  /\ UNCHANGED <<registry, registryFaults>>

\* Caller k writes a row, the next one if i is 0, and goes on as "step"; or the database
\* refuses the row.
WriteRow(k, i, row, step) ==
  LET clashes == Clashes(i, row.name, row.slug)
      renames == i # 0 /\ registry[i].name # row.name IN
  /\ IF clashes # {}
     THEN /\ \E n \in clashes : call' = [call EXCEPT ![k].at = "failed", ![k].clash = n]
          /\ UNCHANGED registry
     ELSE /\ registry' = IF i = 0 THEN Append(registry, row) ELSE [registry EXCEPT ![i] = row]
          /\ call' = [j \in Callers |-> IF j = k THEN step
                                        ELSE [call[j] EXCEPT !.stale = TRUE, !.renamed = @ \/ renames]]
  /\ UNCHANGED <<calls, registryFaults>>

----------------------------------------------------------------------------
(* The portal: registerAgent, updateAgent, archiveAgent.                   *)

BeginRegister(k, n, slug) == Begin(k, [Uncalled EXCEPT !.at = "register", !.name = n, !.slug = slug])

Register(k) ==
  /\ CallAt(k, "register")
  /\ WriteRow(k, 0, [name |-> call[k].name, slug |-> call[k].slug, status |-> "ACTIVE"],
              [call[k] EXCEPT !.at = "done"])

\* The row must be there; what it is to be changed to is a name, a slug, both, or archived.
FindRow(k, i, at, n, slug) ==
  /\ i \in DOMAIN registry
  /\ Begin(k, [Uncalled EXCEPT !.at = at, !.row = i, !.name = n, !.slug = slug])

Update(k) ==
  LET c == call[k] IN
  /\ CallAt(k, "update")
  /\ WriteRow(k, c.row, [registry[c.row] EXCEPT !.name = IF c.name = NoName THEN @ ELSE c.name,
                                                !.slug = IF c.slug = NoName THEN @ ELSE c.slug],
              [c EXCEPT !.at = "done"])

Archive(k) ==
  /\ CallAt(k, "archive")
  /\ registry' = [registry EXCEPT ![call[k].row].status = "ARCHIVED"]
  /\ CallTo(k, "done")
  /\ UNCHANGED <<calls, registryFaults>>

----------------------------------------------------------------------------
(* syncAgentsFromOpenClaw.                                                 *)

ReadFile(k) == Begin(k, [Uncalled EXCEPT !.at = "look", !.left = File])

LookUp(k) ==
  LET n == Head(call[k].left) IN
  /\ CallAt(k, "look")
  /\ call' = [call EXCEPT ![k].at = "sync", ![k].name = n, ![k].row = Found(n), ![k].stale = FALSE]
  /\ UNCHANGED <<registry, calls, registryFaults>>

\* The row that was found, by its id, or a new one; archived agents come back.
SyncAgent(k) ==
  LET c == call[k]
      row == IF c.row = 0 THEN Len(registry) + 1 ELSE c.row IN
  /\ CallAt(k, "sync")
  /\ WriteRow(k, c.row, [name |-> c.name, slug |-> SlugOf[c.name], status |-> "ACTIVE"],
              [c EXCEPT !.left = Tail(@), !.wrote = Append(@, row), !.at = IF Len(c.left) = 1 THEN "done" ELSE "look"])

\* A call fails; the rows a sync has written stay.
RegistryFault(k) ==
  /\ call[k].at \in {"register", "update", "archive", "look", "sync"}
  /\ registryFaults < MaxRegistryFaults
  /\ registryFaults' = registryFaults + 1
  /\ CallTo(k, "faulted")
  /\ UNCHANGED <<registry, calls>>

ReplyCall(k) ==
  /\ call[k].at \in {"done", "failed", "faulted"}
  /\ call' = [call EXCEPT ![k] = Uncalled]
  /\ UNCHANGED <<registry, calls, registryFaults>>

Slugs == {SlugOf[n] : n \in Names}

NextRegistry == \E k \in Callers :
  \/ \E n \in Names, slug \in Slugs : BeginRegister(k, n, slug)
  \/ \E i \in DOMAIN registry :
       \/ FindRow(k, i, "archive", NoName, NoName)
       \/ \E n \in Names \cup {NoName}, slug \in Slugs \cup {NoName} : FindRow(k, i, "update", n, slug)
  \/ Register(k) \/ Update(k) \/ Archive(k) \/ ReadFile(k) \/ LookUp(k) \/ SyncAgent(k)
  \/ RegistryFault(k) \/ ReplyCall(k)

SpecRegistry == InitRegistry /\ [][NextRegistry]_registryVars

----------------------------------------------------------------------------
RegistryTypeOK ==
  /\ registry \in Seq([name : Names, slug : Slugs, status : {"ACTIVE", "ARCHIVED"}])
  /\ \A k \in Callers : call[k].row \in 0..Len(registry) /\ call[k].name \in Names \cup {NoName}
  /\ calls \in 0..MaxCalls /\ registryFaults \in 0..MaxRegistryFaults

\* A sync that is done wrote one row for each agent of the file, and one row for two of them
\* only when they have one name, unless agents were renamed meanwhile; the database refuses it
\* a row only when another was faster since it looked, or when an agent of another name has
\* the slug (agent.service.ts:221-244).
SyncsWriteOnce == \A k \in Callers :
  LET c == call[k] IN
  /\ CallAt(k, "done") /\ c.wrote # <<>> =>
       /\ Len(c.wrote) = Len(File)
       /\ c.renamed \/ \A i, j \in DOMAIN c.wrote : c.wrote[i] = c.wrote[j] => File[i] = File[j]
  /\ CallAt(k, "failed") /\ c.left # <<>> => c.clash # c.name \/ c.stale
=============================================================================
