------------------------------- MODULE Traces -------------------------------
(***************************************************************************)
(* The API of task traces, for one trace and the sessions that other parts *)
(* of the server have written for it: events are posted to a session,      *)
(* which counts what they cost; the trace is changed or deleted with all   *)
(* that hangs on it; a browser watches it through a stream that asks the   *)
(* database every two seconds, here or at the agent gateway, whose stream  *)
(* begins with the first event, survives a failed poll and ends by itself; *)
(* and a graph of who worked for whom is drawn from the sessions.          *)
(* Handlers are chains of awaits and interleave.  An event has its time    *)
(* before the database has the event.  Tokens stand for costs,             *)
(* which are counted in the same way.                                      *)
(***************************************************************************)
EXTENDS Naturals, Sequences, FiniteSets, FiniteSetsExt, SequencesExt

CONSTANTS
  Sessions,       \* sessions, numbered in the order they were started
  Workers,        \* agents
  Statuses,       \* bound: statuses of sessions to start with
  Entries,        \* requests that post an event
  Contents,       \* bound: what is posted: [in, tokens, ends], ends for trace:completed
  Editors,        \* requests that change or delete the trace
  MaxTime,        \* bound: the clock, in milliseconds that matter
  MaxPolls,       \* bound: times the stream asks the database
  MaxTraceFaults, \* bound: database calls that fail
  NoSession       \* no parent

ASSUME TracesAssumption ==
  /\ Sessions \subseteq Nat /\ IsFiniteSet(Sessions) /\ NoSession \notin Sessions
  /\ Contents \subseteq [in : Sessions, tokens : Nat, ends : BOOLEAN]
  /\ MaxTime \in Nat \ {0} /\ MaxPolls \in Nat /\ MaxTraceFaults \in Nat

VARIABLES
  clock,
  kept,      \* whether the trace exists, and its sessions and events with it
  tracked,   \* sessions: agent, parent, status, and tokens counted
  events,    \* events stored: [id, in, time, tokens, ends]; the id is that of the request
  entry,     \* what each request that posts an event is in the middle of
  editor,    \* what each editor is in the middle of
  watch,     \* the stream: whose, state, time of the last event shown, what it has shown, in order
  polls,     \* answers of the database to the stream that are not handled yet
  polled,    \* times asked; history: latest time of an event in an answer, whether two answers
             \* were under way together, and events stored when later ones had been answered
  traceFaults

tracesVars == <<clock, kept, tracked, events, entry, editor, watch, polls, polled, traceFaults>>

\* Sessions have begun that delegate to one another.
InitTraces ==
  /\ clock = 1 /\ kept = TRUE
  /\ tracked \in [Sessions -> [agent : Workers, parent : Sessions \cup {NoSession},
                               status : Statuses, tokens : {0}]]
  /\ \A s \in Sessions : tracked[s].parent # NoSession => tracked[s].parent < s
  /\ events = {}
  /\ entry = [p \in Entries |-> [at |-> "idle", in |-> NoSession, tokens |-> 0, ends |-> FALSE, time |-> 0, faulted |-> FALSE]]
  /\ editor = [k \in Editors |-> "idle"]
  /\ watch \in [of : {"trace", "gateway"}, at : {"unopened"}, last : {0}, shown : {<<>>}, since : {0}, done : {FALSE}]
  /\ polls = {}
  /\ polled = [times |-> 0, upTo |-> 0, overlap |-> FALSE, late |-> {}]
  /\ traceFaults = 0

----------------------------------------------------------------------------
(* createSessionEvent.                                                     *)

EntryIs(p, at) == entry[p].at = at
EntryGoes(p, at) == entry' = [entry EXCEPT ![p].at = at]
StreamRests == UNCHANGED <<watch, polls, editor, clock, kept, traceFaults>>

\* The session must be there.
FindTraceSession(p, c) ==
  /\ EntryIs(p, "idle")
  /\ entry' = [entry EXCEPT ![p].at = IF kept THEN "stamp" ELSE "refused", ![p].in = c.in,
                            ![p].tokens = c.tokens, ![p].ends = c.ends]
  /\ StreamRests /\ UNCHANGED <<tracked, events, polled>>

\* The time of an event is taken before it is sent to the database.
StampEvent(p) ==
  /\ EntryIs(p, "stamp")
  /\ entry' = [entry EXCEPT ![p].at = "store", ![p].time = clock]
  /\ StreamRests /\ UNCHANGED <<tracked, events, polled>>

StoreEvent(p) ==
  LET e == [id |-> p, in |-> entry[p].in, time |-> entry[p].time,
        tokens |-> entry[p].tokens, ends |-> entry[p].ends] IN
  /\ EntryIs(p, "store")
  /\ IF kept
     THEN /\ events' = events \cup {e}
          /\ polled' = IF e.time <= polled.upTo THEN [polled EXCEPT !.late = @ \cup {p}] ELSE polled
          /\ EntryGoes(p, IF e.tokens > 0 THEN "count" ELSE "posted")
     ELSE UNCHANGED <<events, polled>> /\ EntryGoes(p, "refused")
  /\ StreamRests /\ UNCHANGED tracked

\* The database counts.
\* Mutant: the session is given the tokens of the event.
Counted_Set(s, n) == n

Counted(s, n) == tracked[s].tokens + n

CountTokens(p) ==
  LET s == entry[p].in IN
  /\ EntryIs(p, "count")
  /\ tracked' = IF kept THEN [tracked EXCEPT ![s].tokens = Counted(s, entry[p].tokens)] ELSE tracked
  /\ EntryGoes(p, IF kept THEN "posted" ELSE "refused")
  /\ StreamRests /\ UNCHANGED <<events, polled>>

TraceFault(p) ==
  /\ entry[p].at \in {"stamp", "store", "count"}
  /\ traceFaults < MaxTraceFaults
  /\ traceFaults' = traceFaults + 1
  /\ entry' = [entry EXCEPT ![p].at = "refused", ![p].faulted = (@ \/ EntryIs(p, "count"))]
  /\ UNCHANGED <<clock, kept, tracked, events, editor, watch, polls, polled>>

----------------------------------------------------------------------------
(* updateTrace and deleteTrace find the trace and then write it.           *)

FindTrace(k, do) ==
  /\ editor[k] = "idle" /\ kept
  /\ editor' = [editor EXCEPT ![k] = do]
  /\ UNCHANGED <<clock, kept, tracked, events, entry, watch, polls, polled, traceFaults>>

\* Sessions and events are deleted with the trace; what writes to a trace that is gone fails.
deleteTrace(k) ==
  /\ editor[k] = "delete"
  /\ kept' = FALSE /\ events' = {}
  /\ editor' = [editor EXCEPT ![k] = "idle"]
  /\ UNCHANGED <<clock, tracked, entry, watch, polls, polled, traceFaults>>

updateTrace(k) ==
  /\ editor[k] = "update"
  /\ editor' = [editor EXCEPT ![k] = "idle"]
  /\ UNCHANGED <<clock, kept, tracked, events, entry, watch, polls, polled, traceFaults>>

Tick ==
  /\ clock < MaxTime
  /\ clock' = clock + 1
  /\ UNCHANGED <<kept, tracked, events, entry, editor, watch, polls, polled, traceFaults>>

----------------------------------------------------------------------------
(* streamTraceEventsHandler, and streamHandler of the gateway.             *)

EntriesRest == UNCHANGED <<clock, kept, tracked, events, entry, editor>>

\* What is shown begins now, or at the gateway with the first event.
lastTimestamp == IF watch.of = "gateway" THEN 0 ELSE clock

\* The trace is found.
OpenWatch ==
  /\ watch.at = "unopened" /\ kept
  /\ watch' = [watch EXCEPT !.at = "open", !.last = lastTimestamp, !.since = lastTimestamp]
  /\ EntriesRest /\ UNCHANGED <<polls, polled, traceFaults>>

\* Mutant: events of the time of the last one are asked for again.
Newer_OrEqual(e) == e.time >= watch.last

Newer(e) == e.time > watch.last

getSessionEventsAfter == {e \in events : Newer(e)}

\* Every two seconds, whether the database has answered the time before or not.
Poll ==
  LET found == getSessionEventsAfter IN
  /\ watch.at = "open" /\ ~watch.done /\ polled.times < MaxPolls
  /\ polls' = polls \cup {[n |-> polled.times, found |-> found]}
  /\ polled' = [polled EXCEPT !.times = @ + 1, !.upTo = Max({@} \cup {e.time : e \in found}),
                              !.overlap = @ \/ polls # {}]
  /\ EntriesRest /\ UNCHANGED <<watch, traceFaults>>

\* The events of an answer are shown in their order.
Shown(order) ==
  IF order = <<>> THEN watch
  ELSE [watch EXCEPT !.shown = @ \o [i \in DOMAIN order |-> order[i].id],
                     !.last = Last(order).time,
                     !.done = @ \/ (watch.of = "gateway" /\ \E i \in DOMAIN order : order[i].ends)]

\* Answers come in any order.
Handle(a) ==
  /\ a \in polls
  /\ polls' = polls \ {a}
  /\ \E order \in SetToSeqs(a.found) :
       /\ \A i, k \in DOMAIN order : i < k => order[i].time <= order[k].time
       /\ watch' = Shown(order)
  /\ EntriesRest /\ UNCHANGED <<polled, traceFaults>>

\* The gateway's stream is ended by the poll after it has shown that the trace is completed.
EndWatch ==
  /\ watch.at = "open" /\ watch.done
  /\ watch' = [watch EXCEPT !.at = "ended"]
  /\ polls' = {}
  /\ EntriesRest /\ UNCHANGED <<polled, traceFaults>>

\* A poll that fails is the last one, and the stream stays open; the gateway's asks on.
PollFails(a) ==
  /\ a \in polls
  /\ traceFaults < MaxTraceFaults
  /\ traceFaults' = traceFaults + 1
  /\ polls' = polls \ {a}
  /\ watch' = IF watch.of = "trace" THEN [watch EXCEPT !.at = "silent"] ELSE watch
  /\ EntriesRest /\ UNCHANGED polled

\* What is answered now is written to nobody.
CloseWatch ==
  /\ watch.at \in {"open", "silent"}
  /\ watch' = [watch EXCEPT !.at = "closed", !.last = 0, !.shown = <<>>, !.since = 0, !.done = FALSE]
  /\ polls' = {}
  /\ EntriesRest /\ UNCHANGED <<polled, traceFaults>>

----------------------------------------------------------------------------
(* buildFlowGraph and getTraceSessions.                                    *)

\* One node for each agent: a later session is added to the node of the first.
\* Mutant: the node is that of the last session.
WithSession_Last(nodes, s) ==
  [a \in DOMAIN nodes \cup {tracked[s].agent} |->
     IF a = tracked[s].agent THEN [cost |-> tracked[s].tokens, status |-> tracked[s].status] ELSE nodes[a]]

WithSession(nodes, s) ==
  LET a == tracked[s].agent  t == tracked[s] IN
  [b \in DOMAIN nodes \cup {a} |->
     IF b # a THEN nodes[b]
     ELSE IF a \notin DOMAIN nodes THEN [cost |-> t.tokens, status |-> t.status]
     ELSE [cost |-> nodes[a].cost + t.tokens,
           status |-> IF t.status = "error" THEN "error" ELSE nodes[a].status]]

\* Sessions are gone through in the order they began: the latest is added to the others.
FlowNodes == MapThenFoldSet(LAMBDA s, nodes : WithSession(nodes, s), <<>>, LAMBDA s : s, Max, Sessions)

\* One edge for each pair of agents with a delegation.
FlowEdges == {<<tracked[tracked[s].parent].agent, tracked[s].agent>> : s \in {c \in Sessions : tracked[c].parent # NoSession}}

Children(s) == {c \in Sessions : tracked[c].parent = s}

getSessionTimeline(s) == {e \in events : e.in = s}

----------------------------------------------------------------------------
NextTraces ==
  \/ Tick
  \/ \E p \in Entries :
       \/ \E c \in Contents : FindTraceSession(p, c)
       \/ StampEvent(p) \/ StoreEvent(p) \/ CountTokens(p) \/ TraceFault(p)
  \/ \E k \in Editors : FindTrace(k, "update") \/ FindTrace(k, "delete") \/ updateTrace(k) \/ deleteTrace(k)
  \/ OpenWatch \/ Poll \/ EndWatch \/ CloseWatch
  \/ \E a \in polls : Handle(a) \/ PollFails(a)

SpecTraces == InitTraces /\ [][NextTraces]_tracesVars

----------------------------------------------------------------------------
TracesTypeOK ==
  /\ clock \in 0..MaxTime /\ kept \in BOOLEAN
  /\ \A s \in Sessions : tracked[s].tokens \in Nat
  /\ \A e \in events : e.id \in Entries /\ e.in \in Sessions /\ e.time \in 1..clock
  /\ watch.at \in {"unopened", "open", "silent", "ended", "closed"} /\ watch.last \in 0..clock
  /\ traceFaults \in 0..MaxTraceFaults

\* A session has counted what its timeline adds up to, whoever posts at once, but for events
\* whose count is still to come or has failed (trace-service.ts:232-286).
SessionsCountEvents == kept => \A s \in Sessions :
  tracked[s].tokens = SumFunctionOnSet([e \in events |-> e.tokens],
    {e \in getSessionTimeline(s) : ~EntryIs(e.id, "count") /\ ~entry[e.id].faulted})

\* The graph has every agent once, with the tokens of all its sessions and with an error when
\* one of them has; its edges are those of the tree of sessions (flow-service.ts:46-89,
\* trace-service.ts:140-150).
FlowAddsUp ==
  /\ DOMAIN FlowNodes = {tracked[s].agent : s \in Sessions}
  /\ \A a \in DOMAIN FlowNodes : LET own == {s \in Sessions : tracked[s].agent = a} IN
       /\ FlowNodes[a].cost = SumFunctionOnSet([s \in Sessions |-> tracked[s].tokens], own)
       /\ FlowNodes[a].status = "error" <=> \E s \in own : tracked[s].status = "error"
  /\ FlowEdges = {<<tracked[p[1]].agent, tracked[p[2]].agent>> : p \in {q \in Sessions \X Sessions : q[2] \in Children(q[1])}}

\* What sessions and graphs add up to, of the two above.
TracesAddUp == SessionsCountEvents /\ FlowAddsUp

\* A stream shows no event twice and passes none that is of the time since it was opened, at
\* the gateway of any time, although polls fail there; both only as long as no answer takes longer
\* than two seconds, and but for events that were stored when one of their time or after it had
\* been answered.  And the gateway ends one for nothing but the completion it has shown
\* (trace.controller.ts:239-265, gateway.controller.ts:89-141).
StreamShowsOnce ==
  /\ watch.at \in {"open", "ended"} /\ ~polled.overlap =>
       /\ IsInjective(watch.shown)
       /\ \A e \in events : watch.since < e.time /\ e.time <= watch.last =>
            e.id \in ToSet(watch.shown) \cup polled.late
  /\ watch.at = "ended" => watch.of = "gateway" /\ \E i \in DOMAIN watch.shown : entry[watch.shown[i]].ends
=============================================================================
