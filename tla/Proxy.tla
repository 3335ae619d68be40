------------------------------- MODULE Proxy -------------------------------
(***************************************************************************)
(* The proxy of the provider's API and the ingestion of sessions that ran  *)
(* elsewhere.  A post is a request to /api/gateway/v1/messages, which asks *)
(* for one answer or for a stream of events; the proxy writes the trace    *)
(* and prices what the provider reports.  An import is a request to        *)
(* ingest a session with its delegations, in one transaction.  Prices are  *)
(* rows that nothing here writes, so the cache of them changes nothing.    *)
(***************************************************************************)
EXTENDS Naturals, Sequences, FiniteSets

CONSTANTS
  Posts,          \* requests to the proxy
  Price,          \* tenths of dollars for a million tokens: [in, cached, out]
  Usages,         \* what an answer can report: tokens [in, cached, written, out]
  MaxEvents,      \* bound: events of a stream
  Imports,        \* requests to ingest a session
  NamesOf,        \* for each import the agents it names, the master first
  Registered,     \* agents that have a row
  MaxProxyFaults  \* bound: calls that fail

ASSUME ProxyAssumption ==
  /\ Price \in [{"in", "cached", "out"} -> Nat]
  /\ Usages \subseteq [{"in", "cached", "written", "out"} -> Nat]
  /\ MaxEvents \in Nat /\ MaxProxyFaults \in Nat
  /\ DOMAIN NamesOf = Imports
  /\ \A i \in Imports : NamesOf[i] \in Seq({NamesOf[i][n] : n \in DOMAIN NamesOf[i]}) \ {<<>>}

VARIABLES
  userKey,      \* whether the user has a key of the provider
  keyVisit,     \* what the one visit to the settings of the key is in the middle of
  post,         \* what each post is in the middle of
  record,       \* what each post has written of its trace and its session
  named,        \* names of agents with a row
  import,       \* what each import is in the middle of
  draft,        \* sessions each transaction has written
  rows,         \* sessions each import has committed
  proxyFaults

proxyVars == <<userKey, keyVisit, post, record, named, import, draft, rows, proxyFaults>>

NoUsage == [in |-> 0, cached |-> 0, written |-> 0, out |-> 0]

InitProxy ==
  /\ userKey \in BOOLEAN /\ keyVisit = "away"
  /\ post = [p \in Posts |-> [at |-> "idle", heard |-> NoUsage, told |-> NoUsage, events |-> 0,
                              split |-> FALSE, faulted |-> FALSE]]
  /\ record = [p \in Posts |-> [task |-> "none", session |-> "none", cost |-> 0, total |-> 0]]
  /\ named = Registered
  /\ import = [i \in Imports |-> [at |-> "idle", left |-> NamesOf[i], faulted |-> FALSE]]
  /\ draft = [i \in Imports |-> <<>>] /\ rows = [i \in Imports |-> <<>>]
  /\ proxyFaults = 0

PostAt(p, at) == post[p].at = at
PostTo(p, at) == post' = [post EXCEPT ![p].at = at]
ImportsRest == UNCHANGED <<userKey, keyVisit, named, import, draft, rows, proxyFaults>>

----------------------------------------------------------------------------
(* The user's key of the provider.                                         *)

\* setApiKey asks the provider whether the key works, and stores it; deleteApiKey looks for
\* the row before it deletes it.
VisitKey ==
  /\ keyVisit = "away"
  /\ keyVisit' \in {"store"} \cup (IF userKey THEN {"delete"} ELSE {})
  /\ UNCHANGED <<userKey, post, record, named, import, draft, rows, proxyFaults>>

ChangeKey ==
  /\ keyVisit # "away"
  /\ \/ userKey' = (keyVisit = "store")
     \/ keyVisit = "store" /\ UNCHANGED userKey  \* the provider does not know the key
  /\ keyVisit' = "away"
  /\ UNCHANGED <<post, record, named, import, draft, rows, proxyFaults>>

----------------------------------------------------------------------------
(* proxyChatRequest and proxyStreamRequest.                                *)

ResolveKey(p) ==
  /\ PostAt(p, "idle")
  /\ PostTo(p, IF userKey THEN "agent" ELSE "refused")
  /\ ImportsRest /\ UNCHANGED record

\* The agent of the header must have a row.
ResolveAgent(p, name) ==
  /\ PostAt(p, "agent")
  /\ PostTo(p, IF name \in named THEN "trace" ELSE "refused")
  /\ ImportsRest /\ UNCHANGED record

CreateTask(p) ==
  /\ PostAt(p, "trace")
  /\ record' = [record EXCEPT ![p].task = "running"]
  /\ PostTo(p, "session")
  /\ ImportsRest

\* The post then goes on to ask for one answer or for a stream.
CreateTraceSession(p) ==
  /\ PostAt(p, "session")
  /\ record' = [record EXCEPT ![p].session = "running"]
  /\ \E at \in {"ask", "connect"} : PostTo(p, at)
  /\ ImportsRest

\* One answer: it reports its usage, or is an error, which costs nothing and is recorded.
Answered(c, u) == [c EXCEPT !.at = "price", !.heard = u, !.told = u]

Answer(p) ==
  /\ PostAt(p, "ask")
  /\ \/ \E u \in Usages : post' = [post EXCEPT ![p] = Answered(@, u)]
     \/ PostTo(p, "price_failure")
  /\ ImportsRest /\ UNCHANGED record

\* A stream opens, or is refused, which is recorded without asking for the price.
Connect(p) ==
  /\ PostAt(p, "connect")
  /\ \E at \in {"stream", "store_failure"} : PostTo(p, at)
  /\ ImportsRest /\ UNCHANGED record

\* The start of a stream sets what came in; the events after it add up what goes out.
\* Mutant: the last event counts.
Heard_Last(u, e, start) == IF start THEN [e EXCEPT !.out = u.out] ELSE [u EXCEPT !.out = e.out]

Heard(u, e, start) == IF start THEN [e EXCEPT !.out = u.out] ELSE [u EXCEPT !.out = u.out + e.out]

\* An event in the stream: the first is its start.  Events are read from the chunks they
\* arrive in, one by one, and an event that two chunks share is in neither.
AfterEvent(c, u, whole) ==
  LET start == c.events = 0 IN
  [c EXCEPT !.events = c.events + 1, !.split = c.split \/ ~whole,
            !.told = IF start THEN [u EXCEPT !.out = 0] ELSE [c.told EXCEPT !.out = c.told.out + u.out],
            !.heard = IF whole THEN Heard(c.heard, u, start) ELSE c.heard]

Event(p, u, whole) ==
  /\ PostAt(p, "stream") /\ post[p].events < MaxEvents
  /\ post' = [post EXCEPT ![p] = AfterEvent(@, u, whole)]
  /\ ImportsRest /\ UNCHANGED record

\* The stream is closed for the client before its records are written.
CloseProxyStream(p) ==
  /\ PostAt(p, "stream")
  /\ PostTo(p, "price")
  /\ ImportsRest /\ UNCHANGED record

\* In units of a hundredth of a cent, which costs are rounded to.
calculateCost(u) ==
  LET regular == IF u.in > u.cached + u.written THEN u.in - u.cached - u.written ELSE 0
      total == (regular + u.written) * Price.in + u.cached * Price.cached + u.out * Price.out IN
  (total + 500) \div 1000

\* getModelPricing, and the cost.
PricePost(p) ==
  /\ PostAt(p, "price") \/ PostAt(p, "price_failure")
  /\ PostTo(p, IF PostAt(p, "price") THEN "store_success" ELSE "store_failure")
  /\ ImportsRest /\ UNCHANGED record

StoreTraceSession(p) ==
  /\ PostAt(p, "store_success") \/ PostAt(p, "store_failure")
  /\ record' = [record EXCEPT ![p].session = IF PostAt(p, "store_success") THEN "success" ELSE "failed",
                              ![p].cost = calculateCost(post[p].heard)]
  /\ PostTo(p, "settle")
  /\ ImportsRest

StoreTask(p) ==
  /\ PostAt(p, "settle")
  /\ record' = [record EXCEPT ![p].task = IF record[p].session = "success" THEN "completed" ELSE "failed",
                              ![p].total = calculateCost(post[p].heard)]
  /\ PostTo(p, "settled")
  /\ ImportsRest

\* A call fails.  Only what the provider does to a post for one answer is caught.
PostFault(p) ==
  /\ post[p].at \notin {"idle", "settled", "refused", "ask"}
  /\ proxyFaults < MaxProxyFaults
  /\ proxyFaults' = proxyFaults + 1
  /\ post' = [post EXCEPT ![p].at = "refused", ![p].faulted = TRUE]
  /\ UNCHANGED <<userKey, keyVisit, record, named, import, draft, rows>>

----------------------------------------------------------------------------
(* ingestSession.                                                          *)

ImportAt(i, at) == import[i].at = at
PostsRest == UNCHANGED <<userKey, keyVisit, post, record>>

\* resolveAgent: the next agent that is named is found, or made; its session follows.
FindNamed(i) ==
  /\ ImportAt(i, "idle") \/ ImportAt(i, "find")
  /\ import' = [import EXCEPT ![i].at = IF Head(import[i].left) \in named THEN "write" ELSE "register"]
  /\ PostsRest /\ UNCHANGED <<named, draft, rows, proxyFaults>>

\* Names are unique.  The row stays when the transaction is undone.
RegisterNamed(i) ==
  LET name == Head(import[i].left) IN
  /\ ImportAt(i, "register")
  /\ named' = named \cup {name}
  /\ import' = [import EXCEPT ![i].at = IF name \in named THEN "failed" ELSE "write"]
  /\ PostsRest /\ UNCHANGED <<draft, rows, proxyFaults>>

\* What is committed when the last session has been written.
\* Mutant: every session as it is written.
Committed_AtOnce(i) == draft'[i]

Committed(i) == IF Len(import[i].left) = 1 THEN draft'[i] ELSE rows[i]

WriteImported(i) ==
  /\ ImportAt(i, "write")
  /\ draft' = [draft EXCEPT ![i] = Append(@, Head(import[i].left))]
  /\ rows' = [rows EXCEPT ![i] = Committed(i)]
  /\ import' = [import EXCEPT ![i].left = Tail(@), ![i].at = IF Len(import[i].left) = 1 THEN "done" ELSE "find"]
  /\ PostsRest /\ UNCHANGED <<named, proxyFaults>>

ImportFault(i) ==
  /\ import[i].at \in {"find", "register", "write"}
  /\ proxyFaults < MaxProxyFaults
  /\ proxyFaults' = proxyFaults + 1
  /\ import' = [import EXCEPT ![i].at = "failed", ![i].faulted = TRUE]
  /\ PostsRest /\ UNCHANGED <<named, draft, rows>>

----------------------------------------------------------------------------
NextProxy ==
  \/ VisitKey \/ ChangeKey
  \/ \E p \in Posts :
       \/ ResolveKey(p) \/ CreateTask(p) \/ CreateTraceSession(p) \/ Answer(p) \/ Connect(p)
       \/ CloseProxyStream(p) \/ PricePost(p) \/ StoreTraceSession(p) \/ StoreTask(p) \/ PostFault(p)
       \/ (\E i \in Imports : ResolveAgent(p, Head(NamesOf[i])))
       \/ \E u \in Usages, whole \in BOOLEAN : Event(p, u, whole)
  \/ \E i \in Imports : FindNamed(i) \/ RegisterNamed(i) \/ WriteImported(i) \/ ImportFault(i)

SpecProxy == InitProxy /\ [][NextProxy]_proxyVars

----------------------------------------------------------------------------
ProxyTypeOK ==
  /\ \A p \in Posts : /\ record[p].task \in {"none", "running", "completed", "failed"}
                      /\ record[p].session \in {"none", "running", "success", "failed"}
                      /\ record[p].cost \in Nat /\ post[p].events \in 0..MaxEvents
  /\ userKey \in BOOLEAN /\ keyVisit \in {"away", "store", "delete"} /\ proxyFaults \in 0..MaxProxyFaults

\* A post that ends without a failed call leaves nothing running; its trace and its session
\* agree, and cost what the provider reported.  A stream with an event that two chunks share
\* costs less, never more (proxy.service.ts:97-149, 247-314).
BilledAsReported == \A p \in Posts :
  LET r == record[p]  due == calculateCost(post[p].told) IN
  /\ post[p].at \in {"settled", "refused"} /\ ~post[p].faulted => "running" \notin {r.task, r.session}
  /\ PostAt(p, "settled") =>
       /\ r.total = r.cost /\ r.cost <= due
       /\ (r.task = "completed") <=> (r.session = "success")
       /\ r.session = "success" /\ ~post[p].split => r.cost = due

\* An import is stored whole or not at all, and fails only by a failed call or because
\* another registered the same agent first (ingest.service.ts:8-26, 45-117).
ImportedWhole == \A i \in Imports :
  /\ rows[i] = IF ImportAt(i, "done") THEN NamesOf[i] ELSE <<>>
  /\ ImportAt(i, "failed") /\ ~import[i].faulted => Head(import[i].left) \in named \ Registered

\* What the proxy and the ingestion write, of the two above.
WrittenAsReported == BilledAsReported /\ ImportedWhole
=============================================================================
