---------------------------- MODULE CostReports ----------------------------
(***************************************************************************)
(* The reports of what agents cost.  Five services, written apart, add up  *)
(* the sessions that the rest of the server books: those of the billing    *)
(* pages, of a user's own overview, of the portal's costs and analytics,   *)
(* and of conversations and tabs.  The actions are the writers, in short:  *)
(* each is modelled with its failures in a module of its own.  The reports *)
(* are operators on what is stored; each makes several queries, and what   *)
(* is said of them is said of reports nothing is written under.  Tokens    *)
(* are added up as costs are, and are left out.                            *)
(***************************************************************************)
EXTENDS Naturals, FiniteSets, Functions

CONSTANTS
  Agents, MakerOf,  \* agents, and the user who made each and owns its node
  TeamOf, ModelOf,  \* the team of an agent, or Absent, and its present model
  People,
  Uses,             \* bound: which user asks which agent, <<agent, user>>
  SessionCosts,     \* bound: what a session comes to cost, and an event posted to it
  MonthLength,      \* days
  Periods,          \* lengths of time, in days before today, that are asked for
  Ranges,           \* pairs of days, or of open ends, that are asked for
  Week, Thirty,     \* the two that the overview asks for
  MaxDay,           \* bound: days
  Ids,              \* bound: ids of sessions and of relays, as many as there are of both at a time
  MaxPosts,         \* bound: events that cost something
  Absent             \* no payer, team, model, conversation or row; an open end of a range

ASSUME ReportsAssumption ==
  /\ IsFiniteSet(Agents) /\ IsFiniteSet(People) /\ MakerOf \in [Agents -> People] /\ Uses \subseteq Agents \X People
  /\ SessionCosts \subseteq Nat /\ MonthLength \in Nat \ {0} /\ MaxDay \in Nat \ {0}
  /\ Week \in Periods /\ Thirty \in Periods /\ Periods \subseteq Nat /\ Week <= Thirty
  /\ IsFiniteSet(Ids) /\ MaxPosts \in Nat /\ Absent \notin Nat \cup People \cup {"alone", "tab"}

VARIABLES
  today,
  booked,   \* trace_sessions by id: via (who writes it), at (what it waits for), agent, owner (of
            \* its trace), payer, model, status, cost, day; in (whether its conversation stands
            \* alone or in a tab), said (messages that name it)
  bridged,  \* bridge_sessions by id: at, agent, by (instructor), cost, day, failed
  posts     \* events posted so far

reportVars == <<today, booked, bridged, posts>>

Rows == {i \in Ids : booked[i] # Absent}
Bridges == {b \in Ids : bridged[b] # Absent}
\* As if the server ran in UTC, in which the database keeps times: billing.service.ts:32-34 takes
\* the server's months, 242-250 the database's.
Month(day) == day \div MonthLength

InitReports ==
  /\ today = 1
  /\ booked = [i \in Ids |-> Absent] /\ bridged = [b \in Ids |-> Absent]
  /\ posts = 0

----------------------------------------------------------------------------
(* The writers.                                                            *)

Room == Cardinality(Rows) + Cardinality(Bridges) < Cardinality(Ids)
Write(i, row) == booked' = [booked EXCEPT ![i] = row] /\ UNCHANGED <<today, bridged, posts>>

\* Every session is written as running; only some writers name a model.
NewRow(via, use) ==
  [via |-> via, agent |-> use[1], owner |-> use[2], payer |-> Absent, day |-> today, said |-> 0,
   status |-> "running", cost |-> 0,
   at |-> IF via = "chat" THEN "say" ELSE IF via = "master" THEN "answer" ELSE "run",
   in |-> IF via = "chat" THEN "alone" ELSE IF via = "master" THEN "tab" ELSE Absent,
   model |-> IF via \in {"master", "proxy"} THEN ModelOf[use[1]] ELSE Absent]

Book(i, via, use) == Room /\ i \notin Rows /\ Write(i, NewRow(via, use))

\* The question and the answer of a chat, and the answer of the master agent, name their
\* session; a conversation that is gone takes neither.
Mention(i) ==
  LET r == booked[i]
      next == IF r.at = "say" \/ r.via = "master" THEN "run"
              ELSE IF r.owner # MakerOf[r.agent] THEN "pay" ELSE "end" IN
  /\ r.at \in {"say", "answer"}
  /\ Write(i, IF r.in = Absent THEN [r EXCEPT !.at = "end"] ELSE [r EXCEPT !.said = @ + 1, !.at = next])

\* What a writer makes of a running session: statuses differ from one to the other, a cost is
\* written over what events have added, and a chat reports no tokens.
Finalize(i, c) ==
  LET r == booked[i]
      To(status, cost, at) == [r EXCEPT !.status = status, !.cost = cost, !.at = at] IN
  /\ r.at = "run"
  /\ \E row \in CASE r.via = "chat" -> {To("success", 0, "answer")}
                  [] r.via = "master" -> {To("success", r.cost, "end")}
                  [] r.via = "proxy" -> {To("success", c, "end"), To("failed", r.cost, "end")}
                  [] r.via = "gateway" -> {To("completed", c, "end")}
                                          \cup {To(s, r.cost, "end") : s \in {"error", "cancelled"}} :
       Write(i, row)

ChargeMaker(i) ==
  /\ booked[i].at = "pay"
  /\ Write(i, [booked[i] EXCEPT !.payer = MakerOf[booked[i].agent], !.at = "end"])

\* createSessionEvent adds the cost of an event to its session.
PostEvent(i, c) ==
  /\ posts < MaxPosts
  /\ posts' = posts + 1
  /\ booked' = [booked EXCEPT ![i].cost = @ + c]
  /\ UNCHANGED <<today, bridged>>

\* A session sent by an external tool, for a day that is over perhaps.
ImportSession(i, use, status, c, on) ==
  /\ Room /\ i \notin Rows
  /\ Write(i, [NewRow("import", use) EXCEPT !.status = status, !.cost = c, !.day = on,
                                                 !.at = "end", !.model = ModelOf[use[1]]])

\* An instruction relayed to a node is booked twice: as a bridge session, priced when its
\* stream ends, and then as a session of a trace of the instructor's that the owner pays.
RelaySession(b, use) ==
  /\ Room /\ b \notin Bridges
  /\ bridged' = [bridged EXCEPT ![b] =
       [at |-> "active", agent |-> use[1], by |-> use[2], cost |-> 0, day |-> today, failed |-> FALSE]]
  /\ UNCHANGED <<today, booked, posts>>

PriceRelay(b, c) ==
  /\ bridged[b].at = "active"
  /\ \E failed \in BOOLEAN : bridged' = [bridged EXCEPT ![b].at = "priced", ![b].cost = c, ![b].failed = failed]
  /\ UNCHANGED <<today, booked, posts>>

BillRelay(b, i) ==
  LET s == bridged[b] IN
  /\ s.at = "priced" /\ i \notin Rows
  /\ bridged' = [bridged EXCEPT ![b].at = "billed"]
  /\ booked' = [booked EXCEPT ![i] =
       [NewRow("relay", <<s.agent, s.by>>) EXCEPT !.payer = MakerOf[s.agent], !.model = "remote-bridge",
          !.status = IF s.failed THEN "error" ELSE "success", !.cost = s.cost, !.at = "end"]]
  /\ UNCHANGED <<today, posts>>

\* A trace goes with its session, a node with its bridge sessions, a conversation with its messages.
RemoveTrace(i) == Write(i, Absent)

RemoveNode(u) ==
  /\ bridged' = [b \in Ids |-> IF b \in Bridges /\ MakerOf[bridged[b].agent] = u THEN Absent ELSE bridged[b]]
  /\ UNCHANGED <<today, booked, posts>>

RemoveConversation(u, place) ==
  /\ booked' = [i \in Ids |-> IF i \in Rows /\ booked[i].owner = u /\ booked[i].in = place
                              THEN [booked[i] EXCEPT !.in = Absent, !.said = 0] ELSE booked[i]]
  /\ UNCHANGED <<today, bridged, posts>>

NextDay == today < MaxDay /\ today' = today + 1 /\ UNCHANGED <<booked, bridged, posts>>

NextReports ==
  \/ NextDay
  \/ \E use \in Uses, i \in Ids :
       \/ \E via \in {"chat", "master", "gateway", "proxy"} : Book(i, via, use)
       \/ \E c \in SessionCosts, s \in {"success", "running"}, on \in 1..today :
            ImportSession(i, use, s, c, on)
       \/ RelaySession(i, use)
  \/ \E i \in Rows : Mention(i) \/ ChargeMaker(i) \/ RemoveTrace(i) \/ \E c \in SessionCosts : Finalize(i, c) \/ PostEvent(i, c)
  \/ \E b \in Bridges : (\E c \in SessionCosts : PriceRelay(b, c)) \/ \E i \in Ids : BillRelay(b, i)
  \/ \E u \in People : RemoveNode(u) \/ \E place \in {"alone", "tab"} : RemoveConversation(u, place)

SpecReports == InitReports /\ [][NextReports]_reportVars

----------------------------------------------------------------------------
(* Sums over the two tables, and groups of rows.                           *)

Cost(S) == SumFunction([i \in S |-> booked[i].cost])
BridgeCost(S) == SumFunction([b \in S |-> bridged[b].cost])
Of(field, value, S) == {i \in S : booked[i][field] = value}
Values(field, S) == {booked[i][field] : i \in S}
GroupBy(field, S) == [v \in Values(field, S) |-> Cost(Of(field, v, S))]

\* buildDateFilter, on days; periodToDate.
Within(day, from, to) == (from # Absent => day >= from) /\ (to # Absent => day <= to)
RowsWithin(from, to) == {i \in Rows : Within(booked[i].day, from, to)}
BridgesWithin(from, to) == {b \in Bridges : Within(bridged[b].day, from, to)}
Since(days) == IF days >= today THEN 0 ELSE today - days

----------------------------------------------------------------------------
(* billing.service.  Only two of the reports look at bridge sessions.      *)

getSummary(from, to) ==
  LET MonthTotal(m) == Cost({i \in Rows : Month(booked[i].day) = m})
                       + BridgeCost({b \in Bridges : Month(bridged[b].day) = m})
      recent == RowsWithin(Since(Thirty), Absent)  crossed == BridgesWithin(Since(Thirty), Absent) IN
  [total |-> Cost(RowsWithin(from, to)) + BridgeCost(BridgesWithin(from, to)),
   thisMonth |-> MonthTotal(Month(today)),
   lastMonth |-> IF Month(today) = 0 THEN 0 ELSE MonthTotal(Month(today) - 1),
   byDay |-> [d \in Values("day", recent) \cup {bridged[b].day : b \in crossed} |->
                Cost(Of("day", d, recent)) + BridgeCost({b \in crossed : bridged[b].day = d})]]

\* The bridge sessions of an agent are added to its trace sessions.
\* Mutant: they are put in their place.
MergedCost_Replaced(a, rows, relays) == IF relays = {} THEN Cost(rows) ELSE BridgeCost(relays)

MergedCost(a, rows, relays) == Cost(rows) + BridgeCost(relays)

getByAgent(from, to) ==
  LET rows(a) == Of("agent", a, RowsWithin(from, to))
      relays(a) == {b \in BridgesWithin(from, to) : bridged[b].agent = a} IN
  [a \in {x \in Agents : rows(x) \cup relays(x) # {}} |->
     [cost |-> MergedCost(a, rows(a), relays(a)), sessions |-> Cardinality(rows(a)) + Cardinality(relays(a))]]

\* The three reports in plain SQL need both ends of a range, or neither.
Answers(from, to) == from = Absent <=> to = Absent

getByEmployee(from, to) ==
  LET rows == RowsWithin(from, to) IN
  [u \in Values("owner", rows) |->
     [cost |-> Cost(Of("owner", u, rows)), agents |-> Cardinality(Values("agent", Of("owner", u, rows)))]]

\* By the model that the agent has now, not the one the session used.
getByModel(from, to) ==
  LET rows(m) == {i \in RowsWithin(from, to) : ModelOf[booked[i].agent] = m} IN
  [m \in {ModelOf[booked[i].agent] : i \in RowsWithin(from, to)} |->
     [cost |-> Cost(rows(m)), sessions |-> Cardinality(rows(m))]]

getInvoices ==
  LET rows(m) == {i \in Rows : Month(booked[i].day) = m} IN
  [m \in {Month(booked[i].day) : i \in Rows} |->
     [cost |-> Cost(rows(m)), agents |-> Cardinality(Values("agent", rows(m))),
      status |-> IF m < Month(today) THEN "paid" ELSE "pending"]]

\* A line for each session.
getExportCsv(from, to) ==
  {<<i, booked[i].day, booked[i].agent, ModelOf[booked[i].agent], booked[i].cost>> : i \in RowsWithin(from, to)}

\* Who used whose agent at whose expense, here and on a node.
getSharedUsage(from, to) ==
  LET here == {i \in RowsWithin(from, to) : booked[i].payer \notin {Absent, booked[i].owner}}
      who(i) == <<booked[i].owner, booked[i].agent, booked[i].payer>>
      there == {b \in BridgesWithin(from, to) : bridged[b].by # MakerOf[bridged[b].agent]}
      whose(b) == <<bridged[b].by, bridged[b].agent, MakerOf[bridged[b].agent]>> IN
  [here |-> [w \in {who(i) : i \in here} |-> Cost({i \in here : who(i) = w})],
   there |-> [w \in {whose(b) : b \in there} |-> BridgeCost({b \in there : whose(b) = w})]]

----------------------------------------------------------------------------
(* The billing service of the command center: what a user's own messages   *)
(* cost, of sessions that ended in success.                                *)

Succeeded(u) == Of("status", "success", Of("owner", u, Rows))

\* Mutant: sessions in whatever status.
getAgentSpendAllTime_Any(u) == GroupBy("agent", Of("owner", u, Rows))

getAgentSpendAllTime(u) == GroupBy("agent", Succeeded(u))

getTotalSpendForRange(u, start) == Cost({i \in Succeeded(u) : booked[i].day >= start})

getDailySpendBreakdown(u) ==
  LET recent == {i \in Succeeded(u) : booked[i].day >= Since(Thirty)} IN
  [d \in Values("day", recent) |->
     [cost |-> Cost(Of("day", d, recent)), agents |-> GroupBy("agent", Of("day", d, recent))]]

getBillingOverview(u) ==
  [allTime |-> SumFunction(getAgentSpendAllTime(u)),
   month |-> Cost({i \in Succeeded(u) : Month(booked[i].day) = Month(today)}),
   week |-> getTotalSpendForRange(u, Since(Week)),
   today |-> getTotalSpendForRange(u, today),
   daily |-> getDailySpendBreakdown(u)]

----------------------------------------------------------------------------
(* cost.service and analytics.service of the portal: trace sessions of the *)
(* last days.                                                              *)

Recent(p) == RowsWithin(Since(p), Absent)
Team(t) == {a \in Agents : TeamOf[a] = t}

getAgentCosts(a, p) ==
  LET rows == Of("agent", a, Recent(p)) IN
  [total |-> Cost(rows), byModel |-> GroupBy("model", rows \ Of("model", Absent, rows))]

getTeamCosts(t, p) == Cost({i \in Recent(p) : booked[i].agent \in Team(t)})

getPlatformCosts(p) == Cost(Recent(p))

getCostBreakdown(p) ==
  LET teams == {TeamOf[a] : a \in {x \in Agents : TeamOf[x] # Absent /\ x \in Values("agent", Recent(p))}} IN
  [model |-> GroupBy("model", Recent(p) \ Of("model", Absent, Recent(p))),
   agent |-> GroupBy("agent", Recent(p)),
   day |-> GroupBy("day", Recent(p)),
   team |-> [t \in teams |->
     SumFunction([a \in Team(t) \cap Values("agent", Recent(p)) |-> Cost(Of("agent", a, Recent(p)))])]]

\* Of an agent, of a team or of all.
Analytics(rows) ==
  [cost |-> Cost(rows), sessions |-> Cardinality(rows),
   successes |-> Cardinality(Of("status", "success", rows)),
   errors |-> Cardinality({i \in rows : booked[i].status \in {"error", "timeout"}})]

getAgentAnalytics(a, p) == Analytics(Of("agent", a, Recent(p)))
getTeamAnalytics(t, p) == Analytics({i \in Recent(p) : booked[i].agent \in Team(t)})
getPlatformAnalytics(p) == Analytics(Recent(p))

getTokenTrends(a, p) == GroupBy("day", Of("agent", a, Recent(p)))

----------------------------------------------------------------------------
(* cost-analytics.service: what conversations cost, a session for every    *)
(* message that names it.                                                  *)

\* Mutant: each session once.
getConversationCostBreakdown_Once(u, place) ==
  GroupBy("agent", {i \in Of("owner", u, Rows) : booked[i].in = place /\ booked[i].said > 0})

getConversationCostBreakdown(u, place) ==
  LET rows == {i \in Of("owner", u, Rows) : booked[i].in = place /\ booked[i].said > 0} IN
  [a \in Values("agent", rows) |-> SumFunction([i \in Of("agent", a, rows) |-> booked[i].cost * booked[i].said])]

\* A tab's conversations; those of no tab come as one more, when there are any costs or agents.
getTabCostBreakdown(u, place) ==
  [total |-> SumFunction(getConversationCostBreakdown(u, place)), agents |-> getConversationCostBreakdown(u, place)]

getAllTabsCostBreakdown(u) ==
  {"tab"} \cup (IF DOMAIN getTabCostBreakdown(u, "alone").agents # {} THEN {"alone"} ELSE {})

----------------------------------------------------------------------------
ReportsTypeOK ==
  /\ today \in 1..MaxDay /\ posts \in 0..MaxPosts
  /\ \A i \in Rows : /\ booked[i].agent \in Agents /\ booked[i].owner \in People /\ booked[i].payer \in People \cup {Absent}
                     /\ booked[i].cost \in Nat /\ booked[i].said \in 0..2 /\ booked[i].day \in 1..today
  /\ \A b \in Bridges : bridged[b].at \in {"active", "priced", "billed"} /\ bridged[b].cost \in Nat

\* Whatever the range, the agents make up the total; employees, models and lines of the export
\* make it up but for the bridge sessions, and so do the invoices, month by month
\* (billing.service.ts:11-297).
BillingAgrees ==
  /\ \A range \in Ranges :
       LET from == range[1]  to == range[2]
           total == getSummary(from, to).total  bridge == BridgeCost(BridgesWithin(from, to))
           agents == getByAgent(from, to)  users == getByEmployee(from, to)  models == getByModel(from, to) IN
       /\ total = SumFunction([a \in DOMAIN agents |-> agents[a].cost])
       /\ Answers(from, to) =>
            /\ total = bridge + SumFunction([u \in DOMAIN users |-> users[u].cost])
            /\ total = bridge + SumFunction([m \in DOMAIN models |-> models[m].cost])
            /\ total = bridge + SumFunction([l \in getExportCsv(from, to) |-> l[5]])
  /\ LET invoices == getInvoices  summary == getSummary(Absent, Absent)
         billed(m) == IF m \in DOMAIN invoices THEN invoices[m].cost ELSE 0
         relayed(m) == BridgeCost({b \in Bridges : Month(bridged[b].day) = m}) IN
     /\ summary.thisMonth = billed(Month(today)) + relayed(Month(today))
     /\ Month(today) > 0 => summary.lastMonth = billed(Month(today) - 1) + relayed(Month(today) - 1)

\* What others pay for is a part of what its users are reported to have cost, and with what others
\* relay, a part of what the agent is; each relay of a shared agent that was billed is in both
\* (:304-403).
SharedUsageAgrees == LET shared == getSharedUsage(Absent, Absent)  users == getByEmployee(Absent, Absent)
                         agents == getByAgent(Absent, Absent)
                         Sum(f, k, x) == SumFunction([w \in {v \in DOMAIN f : v[k] = x} |-> f[w]]) IN
  /\ \A u \in People : Sum(shared.here, 1, u) <= IF u \in DOMAIN users THEN users[u].cost ELSE 0
  /\ \A a \in DOMAIN agents : Sum(shared.here, 2, a) + Sum(shared.there, 2, a) <= agents[a].cost
  /\ \A i \in Rows : booked[i].via = "relay" /\ booked[i].owner # booked[i].payer =>
       <<booked[i].owner, booked[i].agent, booked[i].payer>> \in DOMAIN shared.here

\* A user's overview is what billing reports of that user but for sessions that have not ended in
\* success, those of the gateway among them; its parts lie in one another
\* (command-center/billing.service.ts:30-217).
OverviewAgrees == \A u \in People : LET o == getBillingOverview(u)  users == getByEmployee(Absent, Absent) IN
  /\ (IF u \in DOMAIN users THEN users[u].cost ELSE 0) = o.allTime + Cost(Of("owner", u, Rows) \ Succeeded(u))
  /\ o.today <= o.week /\ o.today <= o.month /\ o.week <= SumFunction([d \in DOMAIN o.daily |-> o.daily[d].cost])
  /\ \A d \in DOMAIN o.daily : o.daily[d].cost = SumFunction(o.daily[d].agents)
  /\ o.allTime >= o.month

\* Over any period the platform costs what its agents, its days and its teams cost, teams and
\* models but for agents of no team and sessions of no model; analytics say the same, and every
\* session is a success, an error or in a status that counts as neither
\* (cost.service.ts:10-205, analytics.service.ts:10-167).
PortalAgrees == \A p \in Periods :
  LET b == getCostBreakdown(p)  all == getPlatformAnalytics(p)  total == getPlatformCosts(p)
      cost == [a \in Agents |-> getAgentCosts(a, p).total] IN
  /\ total = all.cost /\ total = SumFunction(cost) /\ total = SumFunction(b.agent) /\ total = SumFunction(b.day)
  /\ total = SumFunction(b.model) + Cost(Of("model", Absent, Recent(p)))
  /\ total = SumFunction(b.team) + SumFunction([a \in Team(Absent) |-> cost[a]])
  /\ \A t \in DOMAIN b.team : b.team[t] = getTeamCosts(t, p) /\ b.team[t] = getTeamAnalytics(t, p).cost
  /\ \A a \in Agents : LET one == getAgentAnalytics(a, p) IN
       /\ one.cost = cost[a] /\ one.cost = SumFunction(getTokenTrends(a, p))
       /\ one.sessions >= one.successes + one.errors
  /\ all.sessions = SumFunction([a \in Agents |-> getAgentAnalytics(a, p).sessions])

\* A conversation costs twice what its answered chats have cost and once what the master agent's
\* have; nothing is in a tab and out of it (cost-analytics.service.ts:31-186).
ConversationsAgree == \A u \in People :
  LET tabs == getAllTabsCostBreakdown(u)
      answered(via) == {i \in Of("owner", u, Rows) : booked[i].via = via /\ booked[i].in # Absent /\ booked[i].at \in {"pay", "end"}}
      sum == SumFunction([t \in tabs |-> getTabCostBreakdown(u, t).total]) IN
  (\A i \in Of("owner", u, Rows) : booked[i].at \in {"pay", "end"}) =>
    sum = 2 * Cost(answered("chat")) + Cost(answered("master"))

\* The reports agree with one another, in the five ways above.
ReportsAgree == BillingAgrees /\ SharedUsageAgrees /\ OverviewAgrees /\ PortalAgrees /\ ConversationsAgree
=============================================================================
