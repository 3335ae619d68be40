# Formal models of the ShelfZone backend

This directory holds TLA+ models of the ShelfZone backend: a Fastify and Prisma
server for human resources (leave, attendance, payroll) that also runs a portal
for AI agents (chat, an agent gateway, a bridge to agents on users' machines,
billing). The modules are translated from the TypeScript in `src/src` and from
the tables and unique indexes of `src/prisma/schema.prisma`; TLC checks them on
small instances and TLAPS proves what is marked as proved for all of them.
`PROJECT.json` maps every definition to the lines it stands for.

To check or prove something again:

    tlc -config LeaveConcurrent.cfg LeaveMC
    tlapm LeaveProofs.tla

## 1. The system

One Node process serves HTTP and two WebSocket roles (server for remote nodes,
client of a local OpenClaw gateway). All durable state is in PostgreSQL. What
makes the code hard is the same nearly everywhere:

* a handler is a chain of awaited database calls, almost never a transaction.
  Between two awaits every other handler, timer and socket event may run, so
  what was read may be stale when it is used, and a failure or the end of the
  process leaves the calls made so far;
* only unique indexes are enforced by the database. Every other rule is a read
  followed by a write;
* some state lives only in memory (connected nodes, pending requests, event
  emitters, flags of the gateway client) and is lost at a restart, while the
  rows that mirror it stay.

### Inventory

Paths are below `src/src`; `m/` stands for `modules/`.

| component | state | operations | interacts with | hard parts | what makes it correct |
|---|---|---|---|---|---|
| Leave (`m/leave`, `m/leave-admin`) | leave_requests, leave_balances | apply, review, cancel; initialise, adjust, carry forward balances | employees, managers | two reviews of one request; absolute writes from stale reads; half-done decisions | a balance always adds up; an approval is charged once; days are requested once; a decision is final |
| Payroll (`m/payroll`, `lib/tax`) | salary_structures, payroll_runs, payslips | enter a salary, create a run, process it | employees | two handlers process a run; employees and salaries change during it; a failure half way | the totals of a run are those of its payslips; a run ends |
| Attendance (`m/attendance`) | attendance_records, attendance_summaries | check in, check out, regularise, rebuild the summary | employees, the clock | two check-outs; a summary computed from records that have changed | hours match times; the summary counts every closed day |
| Bridge: nodes (`m/bridge/websocket-server.ts`, `bridge.routes.ts`) | map of connected nodes, nodes, pairing_tokens, device_pairings | generate a token, handshake, heartbeat sweep, close, unpair | the relay, remote machines | reconnection before the old close event; restart with an empty map; refused writes | map and sockets agree; the table comes to show a disconnection; a token is spent before a node is stored |
| Bridge: relay (`instruction-relay.service.ts`, `result-streaming.service.ts`) | pending requests, bridge_sessions, bridge_events, trace_sessions | relay, answer, time out, stream, price, bill | nodes, billing, browser | late answers, answers during the insert, lost node, unpairing under a stream | every stream ends; what was stored was shown; the bill is the session's |
| Agent gateway (`m/agent-gateway`) | task_traces, trace_sessions, event emitter | instruct in four modes, executors, pause, resume, cancel, stream of events | Anthropic's API, browser streams | control calls race the executor's last writes; polling between executors | executions end; a completed session has its price; one agent at a time in sequence |
| Task traces (`m/agent-trace`) | the same rows, session_events | post an event, update, delete, stream, timeline, graph, costs of an organisation | every writer of traces; employees | events stamped before they are stored; polls that overlap or fail; managers in a circle | a stream shows an event once; sessions count their events; costs reach everybody above |
| OpenClaw client (`services/openclaw-gateway-client.ts`) | one socket, connected, authenticated, pending requests, reconnect timer | connect, challenge, request, answer, close, reconnect | OpenClaw gateway, its routes | flags shared by successive connections; requests outlive their connection; a reconnection that fails | one connection at a time; ready means authenticated; requests settle |
| Workspace tabs (`m/command-center/tabs.service.ts`) | conversation_tabs | create, update and move, delete | conversations | the limit is a count before an insert; rows move one by one under a unique index | the limit; one active tab; moves that fit |
| Chat, conversations, sharing (`m/command-center`, `m/agent-sharing`) | conversations, messages, agent_contexts, traces, shares | send a message, open, rename and delete a conversation; share, update, revoke, release | bridge, traces, cost reports | a share checked at the start and charged at the end; a conversation deleted under a message; find or create | who pays; a revocation lasts; a message fails only for a reason |
| Delegation and activity (`m/command-center/delegation*`, `activity*`) | traces, sessions, messages, agents; map of browser streams | a message to the master agent, delegations to helpers, the stream of activity | models' APIs, registry | two requests create one helper; one stream per user although a user may open two | the master succeeds last; the stream tells the start and end of everything |
| Gateway proxy and ingestion (`m/gateway-proxy`, `m/billing/ingest.service.ts`, `m/api-keys`) | traces, sessions, the user's key | proxied answers and streams, imported sessions in a transaction | providers, registry | an answer that fails, a stream cut or split; a unique name taken under a transaction | what is billed is what was reported; an import is whole |
| Agent portal (`m/agent-portal`) | agents, configuration log, budgets, sessions, ledger, daily statistics | register, change, toggle, archive, assign; set and lift budgets; log a session | registry, chat | a pause by budget against a toggle by hand; absolute writes of what was spent | versions count prompts; spend, ledger and statistics agree; a pause has a budget that shows it |
| Registry (`m/agents`, `agents.controller.ts` of the portal) | agent_registry | register, rename, archive, synchronise with OpenClaw's file | delegation, ingestion | two unique columns, one of them made from the other | a synchronisation writes each agent once, or says why not |
| Access (`m/auth`, `m/agent-portal/api-keys`, `m/settings`, `m/agent-requests`) | the user's refresh token, keys, requests | register, log in, refresh, log out; make, rotate, revoke; ask, decide, cancel | everything | refresh against log-out; two regenerations; two decisions | a session that ended stays ended; the key shown works; a decision is one |
| Personnel (`m/employees`, `m/departments`, `m/designations`) | the tables named so | create, update, remove | all of human resources | the next employee code is a read; a check before a removal | codes are unique and without gaps; nobody is left in what is closed |
| Cost reports (`m/billing`, `m/command-center/billing*`, `cost-analytics*`, `m/agent-portal/costs`, `analytics`) | reads traces, bridge sessions, messages | summaries, invoices, exports, overviews | every writer of sessions | five services add up two tables in their own ways | the reports agree |
| Reports, self service, holidays, notifications, audit, redaction, helpers | mostly none | queries, single writes, formatting | - | - | - |

`PROJECT.json` lists all thirty components with their files and the reason where
one is not modelled, and the hazards of the code, each at its line.

## 2. Modules

| module | models | proved about in |
|---|---|---|
| `Leave` | leave and balances, one action per database call | `LeaveProofs` |
| `LeaveLedger` | the abstract promise: every decision one step on requests and available days | `LeaveProofs` |
| `LeaveSequential` | the refinement of the ledger by `Leave` | `LeaveProofs` |
| `BridgeNodes` | pairing, handshake, node map, closes, restarts | `BridgeProofs` |
| `BridgeRelay` | EXTENDS `BridgeNodes`: relay, answers, streams, bills | `BridgeProofs` |
| `GatewayTrace` | one trace of the agent gateway with its executors and control calls | `GatewayProofs` |
| `GatewayClient` | the WebSocket client of the OpenClaw gateway | `GatewayProofs` |
| `Payroll` | salaries, runs, payslips | `OfficesProofs` |
| `Attendance` | records and summaries | `OfficesProofs` |
| `Tabs` | the tabs of one user | `OfficesProofs` |
| `Traces` | one trace: events, edits, streams of both kinds, the graph | `TracingProofs` |
| `OrgCosts` | the costs of an organisation, and who gets which manager | `TracingProofs` |
| `Registry` | the rows of agents under renames and synchronisations | `TracingProofs` |
| `Proxy` | proxied posts, the user's key, imports | `TracingProofs` |
| `Chat` | messages to a shared agent, shares, conversations | `PortalProofs` |
| `Delegation` | messages to the master agent, helpers, streams of activity | `PortalProofs` |
| `AgentPortal` | one agent, its log, budgets and books | `PortalProofs` |
| `Access` | one user's token, keys and requests | `WorkspaceProofs` |
| `Personnel` | employees and units | `WorkspaceProofs` |
| `CostReports` | eight writers in short, and the reports of five services | `WorkspaceProofs` |
| `Sums` | no part of the code: lemmas about sums over finite sets | itself |
| `LeaveMC`, `BridgeNodesMC`, `BridgeRelayMC`, `GatewayMC`, `OfficesMC`, `PortalMC`, `TracingMC` | values for the runs | |

Conventions. A handler that is in flight is a record with a field `at`, the
database call it makes next, and its locals; an action is the code from one
await to the next. A row that does not exist is a model value (`NoRow`,
`NoPay`, `Nothing`, ...). A refused insert or an update of a missing row ends
the handler as Prisma's exception does. Actions called `Fail`, `ClerkFault`,
`DeskFault`, `TabFault` stop a handler before its next call: they stand for a
database error and for the end of the process alike. An operator whose name
has a suffix after an underscore (`Deducted_UsedOnly`) is a deliberately wrong
variant of the operator that follows it, kept to show that a property would
notice it; no specification uses one.

`GatewayMC`, `OfficesMC`, `PortalMC` and `TracingMC` put components side by side that
share no state. A variable (`side`, `office`, `wing`, `floor`) picks the one that moves:
every property speaks of one component, so interleaving them would only multiply
states. What differs from running each alone is nothing but the number of runs.

### Leave

`balance` is keyed by employee, type and year, `leaves` by request; days are
numbers, `YearOf` the year of each, and quantities are half days (`Charge`).
`Apply`, `ApplyOverlap`, `ApplyCreate` are the three awaits of `applyLeave`;
`Review`, `ReviewDeduct`, `ReviewDecide` those of `reviewLeave`; `Cancel`,
`CancelRefund`, `CancelWrite` those of `cancelLeave`. The deduction and the
refund are atomic increments in the database and are modelled so; `AdjustWrite`
and `CarryWrite` write values computed from the row as it was read.
`Initialize*` and `Carry*` are loops over a set of rows still to do, in any
order because the order is that of a query without one.

The ledger has no half-done decisions. `LeaveSequential` maps the balance to it
by giving back the days a handler has moved for a decision that is not stored
yet (`Moved`); this is the whole point of the refinement, and it only exists
for one handler at a time: two reviews of one request break it (see findings).

### Bridge

`BridgeNodes` keeps for each connection its `readyState`, the closure variable
`nodeState`, and how far its connect request has come. `connectedNodes` is the
server's map. The close handler and the heartbeat sweep issue OFFLINE updates
without awaiting them; they are in `offlineWrites` until the database runs
them, in any order. `Restart` empties everything in memory. Heartbeats only
show up as what the sweep sees: `heartbeatCheck(N)` finds any set `N` of
nodes stale, at most `MaxStalls` times. The sweep refreshes the time of every
node itself, so it finds one stale only after the event loop stood still.

`BridgeRelay` extends it: any step of the nodes may come between two steps of
`relayToRemoteNode`, `handleResponse` and `streamResultsToClient`. An answer is
emitted when its insert returns, and shown if the browser's stream is still
subscribed then (`Open`); a request whose timer fires is only dropped. Sending and
subscribing happen without an await between them. The cost estimate counts
characters: 1 for an instruction and 2 for a response stand for that.

### Agent gateway and OpenClaw client

`GatewayTrace` is one trace: traces share nothing. `Drive` is the request and
the sequential loop with its polling timer, `Execute(a)` the executor of an
agent with one action per await, `Control(c)` a call of the owner. An executor reports its
own failure in up to three writes; `caught` says that it does so inside the try block,
because the API refused, and then a failing report is caught and made once more
(`ReportFails`). An answer of
the model has two parts that carry prices, `message_start` and
`message_delta`, so a cost is how many of them were counted.

`GatewayClient` has one action per event handler and timer. The socket of the
`ws` library is modelled by what the handlers can see of it: connecting, open,
closing after an error, closed. `connect()` returns a promise that is never
resolved, because the condition that would resolve it asks for a socket that is
null; start-up awaits it, a reconnection does not.

### Offices

`Payroll` keeps of a run its status and the payslips it has added up
(`counted`): the stored totals are the sums of their columns. The tax slabs are
left out; `MCPays` has one gross pay on either side of the limit at which the
insurance contribution stops. `begun` is a history variable: which handlers
found a run in DRAFT. `Attendance` has a clock in hours; `outdated` is a
history variable naming summaries whose last rebuild used records that had
changed since. `Tabs` has one user; `mixed` is a history variable that says
whether two requests have overlapped. Positions are unique per user, so every
move is a write that may be refused.

### Traces and costs

`Traces` is one trace with sessions that others have begun. `StampEvent` and
`StoreEvent` are apart because an event gets its time in the server before the row
is in the database: that is what a stream which asks for "later than the last" can
miss. `Poll` asks and `Handle` is given the answer; the next poll does not wait for
it. The trace API's stream and the gateway's differ in where they begin, whether they
survive a failed poll, and whether they end, and `watch.of` says which one it is.
`FlowNodes` goes through the sessions as a fold over the set of them that adds the
latest to the graph of the others, which is the order of the query.
`OrgCosts` has an overview that reads three tables and then climbs the chart of
managers without an await; `hops` counts its steps. `Above` is the least set that has
somebody's manager and the managers of its members, so it is defined on a circle, too.

`CostReports` is the one module in which the writers are short: one action per
row they leave (`Book`, `Finalize`, `ChargeMaker`, `Mention`, `RelaySession`, ...), because
each has its failures in a module of its own. The operators below them are
the reports. A day is a number, a month `MonthLength` days.

### Workspace

`Chat` keeps of a message where it is (`ask`), and of its trace who pays. The share is
read when the message arrives (`Ask`), and again when its cost is added
(`FindShare`), which may find another one. `Delegation` has for each request the
names left to be delegated to; `client` is the one entry of a user in the map of
streams, so a second stream takes it over and the close of either removes it.
`cutOff` is a history variable naming streams that this has silenced. The second answer of
the master is taken whatever the status of its response; one that cannot be read fails the
request (`FollowUp`).

`AgentPortal` writes the changes of an agent as records (`toggleAgent(TRUE)`,
`changeModel(m)`), all of which run the same three calls: find, write, log. `logSession` is
the chain from `StartSession` to `MarkBudget`. `Access` counts time in seconds, because a
refresh token is signed from the user and the second, and two of one second are
the same token; `letIn` is a history variable naming the visits to the session that the last
log-out let in, `shown` and `retired` name keys of the gateway, and `raced` what two visits were
at together. `Personnel` has departments and designations as one kind of
thing with two kinds, since their services are the same.

### Proxy and registry

`Proxy` reports usage as four numbers. `told` is what the provider has said, `heard`
what the proxy has read of it; they differ only when an event is split over
two chunks. Costs are rounded to a hundredth of a cent as the column does. An import is a
transaction whose rows (`draft`) appear together; agents it registers are written
outside the transaction and stay (`named`). `Registry` keeps names and slugs; a name's
slug is a constant (`SlugOf`), and two names may have the same.

## 3. Runs

| run | configuration | distinct states | shows |
|---|---|---|---|
| `leave_serial` | `LeaveSerial.cfg`, one handler, two requests | 232,227 | handlers that do not overlap implement the ledger |
| `leave_concurrent` | `LeaveConcurrent.cfg`, two handlers, one request, one failure | 231,448 | what interleaved handlers and failures cannot break |
| `leave_balance_race` | `LeaveDoubleApproval.cfg` | counterexample | two decisions on one request |
| `bridge_reconnect` | `BridgeReconnect.cfg` | counterexample | a node that reconnects drops out of the map |
| `bridge_tokens` | `BridgeTokens.cfg`, two connections, one token | counterexample | a pairing token admits two |
| `bridge_relay` | `BridgeRelay.cfg`, one node, two requests | 87,560 | answers, bills and ends of streams; disconnections show |
| `gateway` | `Gateway.cfg`, two agents, two control calls, one fault; three connections of the client | 314,294 | executions settle; the client's flags tell the truth |
| `client_reconnect` | `ClientReconnect.cfg` | counterexample | a failed reconnection ends the server |
| `records` | `Offices.cfg`, two handlers and one fault in each office | 777,073 | payroll totals, attendance summaries and reports, tabs |
| `portal` | `Portal.cfg`, two handlers in each of six components | 580,077 | chat and sharing, delegation, the portal, access, personnel, reports |
| `unit_closing` | `UnitClosing.cfg`, two errands | counterexample | somebody joins a unit that is being closed |
| `nodes_and_traces` | `Tracing.cfg`, five components | 792,177 | nodes of the bridge, proxy and imports, traces and streams, organisation, registry |

The larger ones take about three minutes with two workers.

Bounds, and why they are enough:

* `leave_concurrent`: two handlers, because every hazard listed for the component
  takes a handler that read and one that wrote in between; one request, two years
  and two types (one carried forward and one not); one failure. `MaxUnits` bounds the
  columns so that adjustments end.
* `leave_serial`: one handler, two requests on two days in two years, no failure,
  which is what the sequential promise is about. It has requests that overlap,
  are refused for lack of days, are refunded, and a year carried twice.
* `bridge_relay`: one node, two requests over it, and a client that cannot run
  commands. Two requests are enough for answers out of order, since a request's
  entry in `pendingRequests` is its own. No symmetry, because liveness is checked.
* `gateway`: two agents, so sequence and parallelism mean something; two control
  calls that may be any pair of pause, update, delete with resume, cancel; one
  fault. The client has three connections (a first, one after a close, one
  after that), two attempts and one request of a route.
* `records`: two handlers and one fault in each office; two employees, one
  period and two pays; two days of two hours in a month of two days; the tabs
  have a limit of three, five tabs ever made and two changes, so that moves to
  the left and to the right, deletions of an active first tab and a passed limit
  all happen.
* `portal`. Two handlers in every component, one to four requests or faults.
  Chat has one message of the owner and one of a guest, two shares in time (one with a
  limit that its column rounds to 0), two conversations, and at most two requests in
  flight (`MCTwoAtOnce`). Delegation has two requests, of which one names up to two helpers,
  and two streams of the browser. Reports have two users, two agents (one in a
  team), two sessions or relays of which one is unfinished (`MCOneOpen`), and two days,
  each a month, so that every range cuts between them.
* `nodes_and_traces`. Two connections, tokens and clients that share one device, with one
  stall, restart and refused write: every reconnection race takes two connections, and
  c1 waits for its answers (`Orderly`) while c2 does what it likes beside it. One post and
  two imports that name the same agents in opposite orders. Two sessions, two events
  posted at once, three moments and two polls: an event that is stamped before, at and
  after the one shown last. Three people and two changes of managers: the shortest circle
  and the longest chain. Two callers over three names, two with one slug.

Deadlock is not checked in the runs of the bridge, the gateway, the offices, the portal
and the traces: every one of their bounded resources (connections, requests, hours,
tabs) is used up in the end, and the model stops there. In the leave runs deadlock is
checked, since a handler can always try something.

### Fairness

Safety runs assume none. Liveness is checked under weak fairness only of what
the process itself owes:

* `ServerSteps` and `TimersAndDatabase` (bridge): the event loop delivers the
  close event of a socket that is closing, issued updates reach the database,
  timers fire and awaited calls come back. No fairness on nodes, peers or users:
  `StreamEnds` holds although no node ever answers.
* `ExecutorsProceed` (gateway): an executor that was started goes on. Every
  await in it is a database call or a read of an HTTP body, which ends or
  throws.
* `ClientTimers`: the timer of a request fires while the process runs. The
  gateway owes nothing.
* `ClerksProceed` (payroll): the database answers the loop of a run.

A database call that fails is a fault with a bound, not an unfairness. `portal` and
`nodes_and_traces` check safety only: their symmetry is not sound for liveness.

## 4. Properties

Safety and action properties that TLC checks, with what each relates:

* `BooksBalance`, `AllBooksBalance`, `OnlyStaleWritesUnbalance`: remaining is entitled
  plus carried minus used. Types that are not carried forward keep it always;
  the others lose it only by a write computed from a stale read, never by a
  decision. One handler at a time keeps it for all.
* `ImplementsLedger`, `InTurnAllAgrees` (`NoOverlap`, `AllBooksBalance`), `DecisionIsFinal`:
  what handlers that run one at a time promise. `UsedIsApproved`, in the run
  `leave_balance_race`, says of a row at rest that its used days are those of the approved
  requests: reviews that interleave do not keep it, nor does one that stops half way.
* `ChargedRowExists`: the update of an approval never throws for want of a row.
* `NodesInOrder` (`EntryKnowsItsNode`, `StatusMatchesMap`, `TokenSpentBeforeNodeStored`),
  `ClosedSocketsLeaveTheMap`: map, sockets, table and tokens.
* `RelayKeepsBooks` (`StoredAnswersAreStreamed`, `BillMatchesSession`), and the liveness
  `StreamEnds`, `DisconnectShows`: answers, bills, ends.
* `TracesInOrder` (`CompletedSessionPriced`, `OneAtATime`, `NothingLeftRunning`,
  `SettledTogether`), and the liveness `ExecutionsEnd`.
* `OneConnection`, `ReadyMeansAuthenticated`, and the liveness `RequestsSettle`.
* `CountedPayslipsExist`, `CompletedRunAddsUp`, and the liveness `RunsComplete`.
* `AttendanceAgrees`: hours match times, the summary covers closed days, and the daily,
  weekly and monthly reports agree but for the days without a record.
* `TabLimit`, `OrderlyAlone`.
* `MessagesSettled`: an answered message of a guest is paid by the owner, whatever has
  become of the share; a message fails only for a failed call, a deleted conversation or
  a message that overlapped it in its conversation.
* `RevocationsLast`: no other request makes a revoked share active again.
* `MasterSucceedsLast`, `StreamsTellAll`: a request succeeds after all it delegated, and
  the browser is told of every start and end, unless an earlier stream has closed.
* `AgentKeepsUp`: the version counts the prompts of the log but for updates that
  overlapped, and with one job at a time spend, ledger and statistics agree and a pause
  shows in a budget.
* `CredentialsEnd`: however visits overlap, a session that was logged out stays so until a
  visit it let in stores a token (a login since, or a refresh that had passed its check
  when the log-out came), and every key of the gateway that was shown works until a
  regeneration replaced it. `DecisionsFinal`: a reviewer exactly when there is a review, unless
  two visits found the request pending.
* `StaffInOrder`: codes without gaps, names once, whatever overlaps. Who is left in a unit
  that closes is the run `unit_closing`.
* `MCReportsAgree`: five relations between the reports of five services. Where the
  code makes them differ, the property says by what: bridge sessions, sessions
  without a model, sessions that are not a success, chats counted twice.
* `WrittenAsReported`: a trace is billed what the provider reported, less what was split;
  an import is stored whole or not at all.
* `TracesAddUp`, `StreamShowsOnce`: sessions count their events, the graph its sessions;
  a stream shows an event once and passes none but those stored late.
* `RollupAddsUp`: an overview that answers has given everybody the cost of all below; it
  answers exactly when nobody is above themselves.
* `SyncsWriteOnce`: a synchronisation writes each agent of the file to one row.

Every property has at least one mutant in `PROJECT.json`: a change of one mapped
definition, of the kind a programmer makes, that TLC finds to break it.

### Findings

Five runs end in a counterexample: each states what a document or a comment of
the repository says and shows that the code does otherwise. `PROJECT.json` has
the quotations.

* `leave_balance_race`: two reviews of one request both proceed; the days are
  deducted although the request ends rejected, or twice. The build log says a
  transaction prevents this; there is none.
* `bridge_tokens`: two connections look a pairing token up before either deletes it, and both
  are admitted with a token that is "single-use".
* `bridge_reconnect`: a node reconnects before the close event of its old
  connection; that event removes the new connection from the map, and relays to
  a connected node are refused.
* `client_reconnect`: a reconnection that fails rejects a promise nobody handles,
  which ends the process that was to "continue without OpenClaw integration".
* `unit_closing`: somebody is hired into a department, or activated in it, between the
  search for its active employees and the update that closes it, though it "cannot [be]
  delete[d] if active employees exist".

Other divergences seen while modelling, visible in the modules but without a
run of their own.

Leave, bridge, gateway, offices:

* two applications for the same days that interleave are both stored, though "No overlapping
  leaves allowed" (`docs/build-log.md:487`); an approval whose second write fails leaves the
  days deducted and the request PENDING (with one failure allowed, `UsedIsApproved` fails
  for a single handler, too);
* a second salary for an employee deactivates the first and is then refused by the unique
  index (`docs/api-core-hr.md:1582` says "Create or update"); the next run leaves the
  employee out;
* a node is unpaired in the middle of a handshake and stored again;
* a failed send leaves the bridge session ACTIVE for ever;
* a carry-forward that interleaves with an approval parts the columns of a row;
* the executor of a cancelled trace writes `completed` over the cancellation
  (`gateway.service.ts:304`; `docs/build-log.md:1334` lists "Cancel running execution");
* a sequential gateway run whose executor throws stops there and leaves the
  remaining sessions running; a resume that read `paused` can write `running`
  over a trace that has ended; polling for a deleted trace goes on for ever;
* `docs/api-core-hr.md:1739` and `docs/build-log.md:574` call a processed payroll
  run PROCESSED and immutable, the code calls it COMPLETED; `lib/tax` has versions of
  the contributions (the provident fund with a cap) that payroll does not call;
* the weekly report counts only recorded absences, the daily one everybody without a
  record; holidays are known to neither leave nor attendance;
* moving a tab past the tab next to it always collides with the unique index on
  (user, position), though `TEST_REPORT_PHASE2.md:41` reports reordering as
  working; a request that activates and moves a tab has by then deactivated the
  others, so no tab is active afterwards;
* the comment at `tabs.service.ts:142` says that deleting a tab deletes its
  conversations; the schema sets their tab to null;
* the promise of the client's `connect()` is never resolved, so the start-up
  routine that awaits it returns only when the connection fails.

Workspace and sharing:

* a share's cost limit is never reached, because the cost of a message is always 0,
  except a limit that its column rounds to 0, which revokes at the first message
  (`PHASE4_VERIFICATION.md:157-169`); `expiresAt` of a share is never checked;
* two first messages in one conversation race to insert its context; one request
  fails after its answer was stored;
* closing an older stream of activity unregisters the newer one;
* the status of the follow-up response of a delegation is not looked at, and the
  trace of a delegation stays running for ever; a command line or API that fails
  leaves traces and sessions running;
* `createConversation` ignores the tab, so only conversations of the master are in tabs.

Portal, registry, access, personnel:

* enabling an agent by its toggle leaves the budget paused, so the agent is not paused
  again that month (`docs/api-agent-portal.md:1086-1091`); lifting a pause logs
  PAUSED to ACTIVE whatever the state was; two budgets set at once make two rows, since a
  unique index with an empty team does not hold; of two sessions that read one budget before
  either charges it, the cost of one is lost (`docs/api-agent-portal.md:975`);
* a cancellation that found a request for access pending writes over the review that came in
  between (`agent-request.service.ts:70` says "Can only cancel pending requests");
* a synchronisation fails half way for ever when the slug of a name belongs to another
  agent; an archived agent comes back as ACTIVE; the hierarchy drops active agents whose
  parent is inactive;
* refresh tokens of one second are identical, so a refresh in it does not rotate;
  a revoked key can be rotated into a valid one;
* codes sort as strings: after EMP-99999 every hire fails; hires into an inactive
  department are accepted; managers may form a circle, and the overview of the
  organisation then never ends.

Traces, proxy, reports:

* a failed poll silences the stream of a trace for ever while it stays open; polls that
  overlap send events twice; the gateway's stream ends only on an event that a failing
  executor never writes; the cascade of a deleted trace is in a migration only;
* the graph counts only sessions in `error`, other writers use `failed`;
* a provider's stream that cannot be fetched, and an update that fails after the stream
  was closed, leave the trace running; usage in an event split over two chunks is lost;
  agents registered by an import stay when it is rolled back;
* the cost of a relayed instruction is in two tables, and `getSummary` adds both
  (`billing.service.ts:77`); three reports fail when only one end of a range is given, though both are optional
  (`billing.schemas.ts`); a user's overview never shows what the gateway costs, since it
  writes `completed` and not `success`; invoices leave out what ran on nodes, and one
  that is "paid" still changes; the costs by model use the model an agent has now; a
  conversation counts a session once for every message linked to it.

## 5. Proofs

All proofs hold for arbitrary constants under the named assumptions of the
modules, which TLC evaluates in every run that extends them. A proof module holds the
components that run side by side in one MC module, each with its own specification and
its own invariant; the invariants are conjunctions of the parts named below.

### Leave (`LeaveProofs`)

`TypeCorrect` (`TypeOK`) needs to know that a handler which decides works on a stored
request and one which adjusts on a stored row (`Referenced`, `Stored`): rows are never
deleted. `BooksAlwaysBalance` (`BooksBalance`) adds `NothingCarried`: the carried column
is zero in types that are not carried forward, in rows, in the copy that an adjustment
holds and in the work list of a carry-forward. Without it an adjustment could write a
remaining that forgets days carried. `ChargedRowsAlwaysExist` (`ChargedRowExists`) adds
`RowsCharged`: every stored request, of whatever status, and every request about to be
inserted has its row; a rejected request that a late approval makes active again is why
the status is left out. `OnlyStaleWritesPart` (`OnlyStaleWritesUnbalance`) needs no more
than type correctness: `UpdatesBalance` says that each of the four updates keeps the
columns together when it works on the row as it is.

Three theorems are about handlers that run one at a time, which is the hypothesis
`OneHandler` (at most one worker; everything else is arbitrary). `InTurn` says for every
line that what the handler has read is still true when it writes: an application still
fits its balance and meets no active request, a decision is about a request of the status
it read, an adjustment holds the row as it is stored, a carry-forward owes what the year
before has left. `InTurnAlwaysAgrees` (`InTurnAllAgrees`) and `DecisionsStayFinal`
(`DecisionIsFinal`) follow, wherever a handler is stopped. `LedgerImplemented`
(`ImplementsLedger`) is the step simulation of `LeaveLedger` and needs that no handler is
stopped half way (`MaxFailures = 0`): one that is stopped between the deduction and the
decision has moved days that the ledger knows nothing of. Days that are moved and not yet
decided are given back by the mapping, so a deduction or a refund is a stutter
(`DaysMove`) and the write of the status is the ledger's step (`DecisionStep`).
Assumptions: `CalendarAssumption`, `PolicyAssumption`, `NullAssumption`, and for the
refinement `LedgerAssumption` (the value for "no row" is neither a key nor a number).

### Bridge (`BridgeProofs`)

* Nodes: `NodesTypeCorrect`, `AlwaysNodesInOrder` (`NodesInOrder`), `AlwaysClosedLeave`
  (`ClosedSocketsLeaveTheMap`). `NodesInOrder` says nothing of a handler between two
  awaits. `HandlersOK` says what is known at each call of a handshake, `WritesOK` that an
  OFFLINE update on its way belongs to a connection that is gone from the map, `KeysOK`
  that an entry, a handshake past its check and a node refer to each other, `OrderlyOK`
  where a client that waits for its answers can be, `StatusesOK` what the table shows of
  an orderly node at each of these places while no fault and no restart has happened.
* Relay: `AlwaysKeepsBooks` (`RelayKeepsBooks`). `BooksOK` says of each request that
  nothing is stored or billed before it was sent, that it is answered once, and that
  nothing is stored after the wait has ended except when the session is gone, and then it
  stays gone. It holds with every step of the nodes in between, so `NodesInOrder` holds
  of the composed specification too (`NodesInOrderBesidesRelay`).

### Gateway (`GatewayProofs`)

* Client: `ClientTypeCorrect`, `NeverTwoConnections` (`OneConnection`) and
  `ReadyIsAuthenticated` (`ReadyMeansAuthenticated`) from one invariant: connections
  are numbered in the order they are made and all but the last are closed
  (`InOrder`); the two flags speak of that last one (`FlagsAgree`); the request that
  authenticates a connection goes over it (`OwnRequest`). Neither property is
  inductive: with the flags alone, a close of an earlier connection could be
  confused with one of the present.
* Trace: `TracesAlwaysInOrder` (`TracesInOrder`). `Driven` says where the
  request goes in each mode and that executors (and, except in a parallel run,
  sessions) of later agents do not exist yet, so that no executor is ever started
  twice; `Priced` that an executor whose session is completed reads no more; `Waiting`
  that a sequential request waits while an executor works; `Attended` that a running
  session has an executor before its settlement or is about to get one; `Together` what
  the rows of a session and of its trace show at each place of the one executor. The
  assumption on `Order`, that the agents of a request are finitely many and listed once
  each, is what makes `Driven` true. `TracesTypeCorrect` (`TypeOK`) needs besides what a
  call has read at each place (`CallsAllowed`).
* `GatewayTypeCorrect` (`GatewayTypeOK`): the two components side by side.

### Offices (`OfficesProofs`)

* Payroll: `PayrollTypeCorrect`; `CountedIsPaid` (`CountedPayslipsExist`): the
  invariant `DoneFiled` says that what a handler believes to have written is
  there with that content, which survives a second handler because the unique
  index refuses its insert and payslips are never updated. `CompletedRunsAddUp`
  (`CompletedRunAddsUp`): `Registered` ties every handler that works on a run to
  the history, `Fresh` says that nothing is written before the run is marked, and
  `SoleHandler` says how far a run begun by one handler has come.
* Attendance: `AttendanceTypeCorrect`; `AttendanceAlwaysAgrees` (`AttendanceAgrees`).
  `AttendanceInv` has three parts. `AttendanceTyped` says what a handler carries at each
  call. `HoursInv` says that hours match times, and of a check-out on its way that what it
  is about to write matches the row it read, unless that row was corrected since. `Covered`
  says of every employee and month, while no handler has been stopped, that a rebuild is
  on its way, or was overtaken (`outdated`), or the summary is the sum over all days that
  are closed and some that are open. The last alternative is what makes it inductive: a
  rebuild reads days that are open as well, so "the sum over closed days" is not kept by
  the next check-in. That the reports of days, months and departments add up (`ReportsFollow`)
  needs no invariant but the types: it is `SumByGroup` and `CountByGroup` of `Sums`.
* Tabs: `TabsTypeCorrect`; `TabsOrderlyAlone` (`OrderlyAlone`). `Apart` is the unique
  index on positions. While no two requests have overlapped, one handler is busy at most
  (`Sole`) and `JobOrderly` says what its next calls rely on: that no tab or one only is
  shown by then (`NoneShown`, `Only`), and that the moves it has left close the gap of the
  tab it deletes (`Closes`), each to the place below.
  `LimitPassedByHandlersOnly` (`TabLimit`): a handler that has counted
  is added to the tabs that exist. It is counted only while the tabs are below
  the limit, at which moment the handlers on their way are at most all of them;
  afterwards it becomes a tab, or nothing. The lemmas are about cardinalities
  (`Finite`, `Sizes`, `FewerKeep`) and about where a handler goes (`OneGoes`).
* `OfficesTypeCorrect` (`OfficesTypeOK`) puts the three together: a behaviour of
  `SpecOffices` is one of each component, which either makes a step of its own or
  stutters (`EachOffice`).
* Assumptions: those of the three modules. `RowsAssumption` of `Attendance` says that the
  employees are finitely many, without which there is no sum, and that the value for "no
  row" is not a row.

### Workspace and portal (`PortalProofs`, `WorkspaceProofs`)

* Delegation: `DelegationHolds`, `MasterAlwaysSucceedsLast` (`MasterSucceedsLast`):
  `Orderly` says for every place of the handler how its delegations stand (the last one
  running where it works on one, all of them succeeded where it goes on) and which
  messages are stored by then. `StreamsAlwaysTellAll` (`StreamsTellAll`):
  `StreamsInOrder` says that streams are opened in order, that one not opened yet shows
  nothing, and that the one registered is open. `DelegationTypeCorrect` adds `Bounded`: the
  helpers a request has had and the names it has still to go through are together no more
  than its answer named.
* Chat: `ChatTypeCorrect`, `MessagesAlwaysSettled` (`MessagesSettled`) and
  `RevocationsAlwaysLast` (`RevocationsLast`). `AskOK` says for every place of a message
  what its trace, its session and its payer are; `Outrun` is the one way an insert of a
  context can be refused, another message that overlapped it and arrived first;
  `Together` that messages in flight have overlapped. A change of a share that read it
  active may write after a revocation, but never the status (`CallOK`).
* Agent portal: `PortalTypeCorrect`, `AgentAlwaysKeepsUp` (`AgentKeepsUp`). `JobOK` gives
  the locals of a job at each call. `UniqueNumbers` is about updates of prompts in flight: the
  versions that are written and not yet logged belong to one update each and nobody else
  has them. `Kept` is about jobs one after the other: at each call of a session being
  logged, by how much the spend of the budget, the ledger and the statistics are apart
  (`BooksAgree`).
* Access: `CredentialsAlwaysEnd` (`CredentialsEnd`) and `DecisionsAlwaysFinal`
  (`DecisionsFinal`) from one invariant. What a visit carries to its next call is well
  formed (`Carries`); while a log-out lasts, a visit to the session that is past its check is
  one the log-out let in (`SessionOver`); a key that is about to be replaced is already off
  (`KeysDead`); every key of the gateway that was shown, or is with a visit about to show
  it, is the stored one or retired, and the stored one is among them (`GatewayKnown`); until two visits meet at a request, one visit decides it and
  finds it pending (`DecidedOnce`). `AccessTypeCorrect` follows from it. The proof goes by area: a step of one area leaves
  what is promised of the other three alone, because a visit keeps to its places.
* Personnel: `StaffAlwaysInOrder` (`StaffInOrder`): `Carrying` says what an
  errand has with it at each place. A code it carries is at most one more than the
  employees there are, so the insert either meets the unique index or extends the
  codes by exactly the next one (`CodesInOrder`). The theorem says nothing of who is left in
  a unit that closes: that is refuted (`unit_closing`).
  `PersonnelTypeCorrect` (`PersonnelTypeOK`) also says that employees are in units that
  are there, and adds `InUnits`: so is every unit that an errand is about to write, which
  it found some calls ago, since closing a unit takes no row away.
  `PersonnelAssumption` keeps the value that stands for no row apart from rows.
* Reports: `ReportsTypeCorrect`, `ReportsAlwaysAgree` (`ReportsAgree`). The invariant about
  rows, `ReportInv`, is short: an amount and a day that has come for every session; the
  payer of a session that was relayed is the agent's maker, on which shares of relays rest;
  and `Told`, how many messages of its conversation name a session at each place of its
  writer, a chat's two in the end and a session of the master agent's one, which is why a
  conversation counts the one twice. All else is about operators: a report is a sum over rows
  in groups, and two reports agree because they group the same rows
  in another way (`GroupsAddUp`, `CostByGroup`) or leave out the same part (`CostOfPart`,
  `CostOfRest`). One lemma for each of the five relations: `BillingFollows`,
  `SharedUsageFollows`, `OverviewFollows`, `PortalFollows`, `ConversationsFollow`.
  `ReportsAssumption` has agents, users and ids finite, since a sum over infinitely many
  rows has no meaning, and the value for "no payer" apart from users and days.
* The six side by side (`PortalMC`): a behaviour of `SpecWorkspace` is one of each
  component, which makes its own steps or stutters (`EachWing`). So `WorkspaceTypeCorrect`
  (`WorkspaceTypeOK`) and `WorkspaceReportsAgree` (`MCReportsAgree`) follow.

### Traces, proxy, registry, costs (`TracingProofs`)

* Proxy: `ProxyTypeCorrect`, `AlwaysWrittenAsReported` (`WrittenAsReported`). What is
  billed is bounded through what was heard, which the property does not mention: `HeardOf`
  says that at every event it is at most what was told, and the same when no event was
  split; `Recorded` what trace and session are at each call; `ImportOK` what a transaction
  has drafted so far and which agents it has still to find. The cost grows with each of
  the four numbers of usage, because prices are not negative (`ProxyAssumption`).
* Registry: `RegistryTypeCorrect`, `AlwaysSyncsWriteOnce` (`SyncsWriteOnce`). `SyncOK` says
  which agents of the file a synchronisation has written, to which rows, and that rows of
  two names are two rows unless somebody renamed; `FoundOK` that a row found is still of
  that name unless somebody renamed it; `NamesDiffer` is the unique index.
* Traces: `TracesTypeCorrect`, `AlwaysShowsOnce` (`StreamShowsOnce`). `EventsOK`: times and
  ids of events; `AnswersOK`: an answer under way is a set of events later than the last one
  shown when it was asked for; `ShownOK` and `InOrder`: until polls overlap, the last time
  shown is that of the latest event shown, and the answer under way has every event still
  to show except those stored late. That an answer has an order at all is a fact about
  finite sets (`FS_Injection`), that its last event is the latest needs the maximum of a
  finite set of times, which comes from the well-foundedness of the subset order.
  `TracesAlwaysAddUp` (`TracesAddUp`) adds `CountedOK`: while the trace is kept, an event
  whose request is at its count is stored, and a request that failed at its count is at
  its end, so that nobody counts it later. The half about the graph holds in every state
  whose sessions have their types; `Drawn` is the graph of some of the sessions, and the
  fold over all of them is taken apart as the sums below are (`DrawsExist`, `DrawsAgree`,
  `AddsSession`). A trace has finitely many sessions (`TracesAssumption`).
* Costs: `OrgTypeCorrect`, `RollupAlwaysAddsUp` (`RollupAddsUp`). The property says of a
  climb under way only how long it is. `Given` says whose costs were passed to whom at each
  point of it, `Summed` that everybody has exactly those and that the climb has taken as
  many steps as there are such pairs; `OnItsWay` that the place it is at is above the
  employee it began with, and that it never gets away from somebody who is above
  themselves, which is why no such overview is answered. `AboveSplits`, `AboveThose` and
  `OnACircle` are what is needed of a least set. Without a circle two employees are not
  above each other, and pairs that are in such a relation are at most half of all
  (`HalfOfPairs`), hence the bound on the steps. Employees and agents are finitely many
  (`OrgAssumption`).
* `TracingTypeCorrect` (`TracingTypeOK`): nodes, proxy, traces, costs and registry side by
  side; a behaviour of all is one of each, which makes its own steps or stutters
  (`EachFloor`).

### Sums

`Sums` has what the proofs about reports need of `SumFunctionOnSet`: a sum does not depend
on the order of its rows (`SumRemove`, `SumAdd`), is taken group by group (`SumByGroup`),
and counting is adding ones (`SumOfOnes`, `CountByGroup`). A sum is defined by recursion
over a finite set. The induction that this asks for is not taken from the library, whose
induction theorems have an operator as a parameter, but made from well-foundedness
(`FS_StrictSubsetOrderingWellFounded`): of the subsets for which a claim were false one
is the smallest (`Smallest`), and the claim for it follows from the one for a smaller set.

### Only model-checked

* The liveness properties (`ExecutionsEnd`, `RequestsSettle`, `RunsComplete`, `StreamEnds`,
  `DisconnectShows`): out of the prover's reach.
* The properties of the runs that expect a violation, which are refuted and therefore nothing
  to prove.

## 6. What is not modelled

* Nothing starts it: the secure WebSocket server (its start is commented out at
  `index.ts:134`, and it writes columns the tables lack) with `lib/device-auth` and
  `lib/command-sandbox`; the middleware for trace access, trace limits and the sandbox of
  agents (registered on no route); the routes of `m/agents` apart from the
  synchronisation; `streamMessage` of the command center, `autoPause`, `validateKey`,
  `logCommand`, `verifyGatewayKey`, `sendNotificationToRole` (no caller). `logSession` is
  modelled although only a test calls it so far, because budgets make no sense without.
* It cannot be reached: device pairing over HTTP answers 401 before it reads anything.
* It is a single write that nothing else reads: holidays, notifications, the audit, teams
  and their names, a trace created by hand, one's own telephone number.
* It only reads: lists, search, exports, self service, and reports other than of costs
  and attendance. Formatting, parsing, encryption, redaction, the patterns of the command
  sandbox and the slabs of the income tax are data.
* External code is modelled only as it is used: PostgreSQL as rows under unique indexes
  with statements that are atomic one by one, the `ws` library by its events, a
  model's API by the parts of an answer that carry usage.

Details of the code the modules leave out, on which no property turns: a connection that
sends a second connect request over one socket (`MayConnect`); the moment between the read of
a record and the reading of the clock in `CheckOut`; that the month of a summary begins in the
time zone of the server and the month of an invoice in UTC (`Month` takes the server to run in
UTC); a refused registration of two names with one slug in one millisecond (`RegisterNamed`);
answers of polls that come when a stream of the gateway has been ended (`EndWatch`).

Fourteen of the hazards in `PROJECT.json` have no property. Nothing in the code prevents
them, and what is left to say of the same rows is what the properties say, which name the
exempted case by a history variable (`outdated`, `cutOff`, `raced`, `mixed`) or by the bound on
failures and handlers. All of them happen in the models:

* what a restart leaves ONLINE or ACTIVE;
* what an error between two writes leaves behind: a session of the bridge that nobody is
  billed for, a run of payroll in PROCESSING, a session of a trace whose count is behind its
  events;
* a write over what was decided meanwhile: a pause, resume or cancellation of a trace, a
  decision on a request for access, a charge to a budget, a summary of attendance, a second
  application for the same days, a second salary;
* events of the gateway's stream that are stored late or shown twice, a stream that never ends
  after a failure, and a stream of activity that the close of an older one silences.

## 7. Plan

All modules planned are written, and every safety property a passing run checks is a
theorem. What is left: abstract specifications of components other than leave, with
refinements as that of the ledger (the life of a payroll run, of a trace of the gateway, of
a relayed instruction).
