--------------------------- MODULE TracingProofs ----------------------------
(***************************************************************************)
(* Proofs about components that share no table and no handler: the proxy   *)
(* and ingestion, the registry of agents, the stream of a trace and what   *)
(* it adds up to, and the costs of an organisation; and about all of       *)
(* TracingMC side by side.                                                 *)
(***************************************************************************)
EXTENDS TracingMC, BridgeProofs, Sums, SequenceTheorems, FiniteSetTheorems, WellFoundedInduction, TLAPS

(***************************************************************************)
(* Proofs about the proxy and the ingestion: what is written of a post and *)
(* of an import is what the provider and the request said, for any prices, *)
(* any number of posts and events, and any lists of agents.  What is       *)
(* stored of a stream is bounded through HeardOf, which WrittenAsReported  *)
(* does not mention: at every event, what was heard is at most what was    *)
(* told, and cost grows with usage.                                        *)
(***************************************************************************)

(* What the variables hold at each point of a post and of an import.       *)

Usage == [{"in", "cached", "written", "out"} -> Nat]

PostStages == {"idle", "agent", "trace", "session", "ask", "connect", "stream", "price", "price_failure",
               "store_success", "store_failure", "settle", "settled", "refused"}

Post == [at : PostStages, heard : Usage, told : Usage, events : Nat, split : BOOLEAN, faulted : BOOLEAN]

Record == [task : {"none", "running", "completed", "failed"}, session : {"none", "running", "success", "failed"},
           cost : Nat, total : Nat]

\* What was heard of a stream is what the provider told but for events that were split: its
\* start is heard as it was told or not at all, and less may go out than was told.
HeardOf(heard, told, split) ==
  /\ heard.out <= told.out
  /\ \/ heard.in = told.in /\ heard.cached = told.cached /\ heard.written = told.written
     \/ heard.in = 0 /\ heard.cached = 0 /\ heard.written = 0
  /\ split \/ heard = told

\* What the records of a post are at each point of its way.
Recorded(c, r) ==
  /\ c.faulted => c.at = "refused"
  /\ c.at \in {"idle", "agent", "trace"} => r.task = "none" /\ r.session = "none"
  /\ c.at = "session" => r.task = "running" /\ r.session = "none"
  /\ c.at \in {"ask", "connect", "stream", "price", "price_failure", "store_success", "store_failure"} =>
       r.task = "running" /\ r.session = "running"
  /\ c.at \in {"settle", "settled"} => r.session \in {"success", "failed"} /\ r.cost = calculateCost(c.heard)
  /\ c.at = "settled" =>
       r.total = r.cost /\ r.task = IF r.session = "success" THEN "completed" ELSE "failed"
  /\ c.at = "refused" /\ ~c.faulted => r.task = "none" /\ r.session = "none"

PostOK(c, r) ==
  /\ c \in Post /\ r \in Record
  /\ c.events <= MaxEvents
  /\ c.events = 0 /\ c.at \in {"idle", "agent", "trace", "session", "ask", "connect", "stream"} =>
       c.heard = NoUsage /\ c.told = NoUsage /\ ~c.split
  /\ HeardOf(c.heard, c.told, c.split)
  /\ Recorded(c, r)

PostsOK ==
  /\ post \in [Posts -> Post] /\ record \in [Posts -> Record]
  /\ \A p \in Posts : PostOK(post[p], record[p])

\* What an import has written and what is left of it are what it was asked for; an agent it
\* is to register had no row when the server started.
ImportStages == {"idle", "find", "register", "write", "done", "failed"}

AgentsOf(i) == {NamesOf[i][n] : n \in DOMAIN NamesOf[i]}

Importing(i) == [at : ImportStages, left : Seq(AgentsOf(i)), faulted : BOOLEAN]

ImportOK(i, c, d, r, agents) ==
  /\ c \in Importing(i) /\ d \in Seq(AgentsOf(i))
  /\ d \o c.left = NamesOf[i]
  /\ c.at \in {"idle", "find", "register", "write", "failed"} => c.left # <<>>
  /\ c.at = "done" => c.left = <<>>
  /\ r = IF c.at = "done" THEN d ELSE <<>>
  /\ c.at = "register" => Head(c.left) \notin Registered
  /\ c.faulted => c.at = "failed"
  /\ c.at = "failed" /\ ~c.faulted => Head(c.left) \in agents \ Registered

ImportsOK ==
  /\ import = [i \in Imports |-> import[i]] /\ draft = [i \in Imports |-> draft[i]] /\ rows = [i \in Imports |-> rows[i]]
  /\ Registered \subseteq named
  /\ \A i \in Imports : ImportOK(i, import[i], draft[i], rows[i], named)

ProxyInv ==
  /\ userKey \in BOOLEAN /\ keyVisit \in {"away", "store", "delete"} /\ proxyFaults \in 0..MaxProxyFaults
  /\ PostsOK
  /\ ImportsOK

----------------------------------------------------------------------------
(* Costs.                                                                  *)

\* Products of counts and prices are counts, and grow with the count.
LEMMA Times ==
  ASSUME NEW a \in Nat, NEW b \in Nat PROVE a * b \in Nat
BY SMT

\* A product grows with its first factor.
LEMMA TimesGrows ==
  ASSUME NEW a \in Nat, NEW b \in Nat, NEW c \in Nat, a <= b
  PROVE  a * c <= b * c
<1>1. PICK d \in Nat : b = a + d  BY SMT
<1>2. b * c = a * c + d * c  BY <1>1, SMT
<1>3. a * c \in Nat /\ d * c \in Nat  BY Times
<1> QED  BY <1>2, <1>3, SMT

\* What came in and is priced in full is a count.
LEMMA RegularIsNat ==
  ASSUME NEW a \in Nat, NEW b \in Nat, NEW c \in Nat
  PROVE  /\ (IF a > b + c THEN a - b - c ELSE 0) \in Nat
         /\ (IF a > b + c THEN a - b - c ELSE 0) + c \in Nat
BY SMT

\* A cost is a natural number whatever the provider reports.
LEMMA CostIsNat == ASSUME ProxyAssumption, NEW u \in Usage PROVE calculateCost(u) \in Nat
<1> DEFINE regular == IF u.in > u.cached + u.written THEN u.in - u.cached - u.written ELSE 0
           x == (regular + u.written) * Price.in  y == u.cached * Price.cached  z == u.out * Price.out
<1>1. u.in \in Nat /\ u.cached \in Nat /\ u.written \in Nat /\ u.out \in Nat  BY DEF Usage
<1>2. Price.in \in Nat /\ Price.cached \in Nat /\ Price.out \in Nat  BY DEF ProxyAssumption
<1>3. regular \in Nat /\ regular + u.written \in Nat  BY <1>1, RegularIsNat
<1>4. x \in Nat /\ y \in Nat /\ z \in Nat
  <2> HIDE DEF regular
  <2> QED  BY <1>1, <1>2, <1>3, Times
<1>5. calculateCost(u) = (x + y + z + 500) \div 1000  BY DEF calculateCost
<1> HIDE DEF x, y, z
<1> QED  BY <1>4, <1>5, SMT

\* What was heard of a stream with split events costs no more than what was told.
LEMMA LessHeardCostsLess ==
  ASSUME ProxyAssumption, NEW u \in Usage, NEW v \in Usage, NEW split, HeardOf(u, v, split)
  PROVE  calculateCost(u) <= calculateCost(v)
<1> DEFINE regular(w) == IF w.in > w.cached + w.written THEN w.in - w.cached - w.written ELSE 0
           x(w) == (regular(w) + w.written) * Price.in  y(w) == w.cached * Price.cached  z(w) == w.out * Price.out
<1>1. ASSUME NEW w \in Usage
      PROVE  /\ w.in \in Nat /\ w.cached \in Nat /\ w.written \in Nat /\ w.out \in Nat
             /\ regular(w) \in Nat /\ regular(w) + w.written \in Nat
  <2>1. w.in \in Nat /\ w.cached \in Nat /\ w.written \in Nat /\ w.out \in Nat  BY DEF Usage
  <2> QED  BY <2>1, RegularIsNat
<1>2. Price.in \in Nat /\ Price.cached \in Nat /\ Price.out \in Nat  BY DEF ProxyAssumption
<1>3. ASSUME NEW w \in Usage
      PROVE  /\ x(w) \in Nat /\ y(w) \in Nat /\ z(w) \in Nat
             /\ calculateCost(w) = (x(w) + y(w) + z(w) + 500) \div 1000
  <2>1. calculateCost(w) = (x(w) + y(w) + z(w) + 500) \div 1000  BY DEF calculateCost
  <2> HIDE DEF regular
  <2>2. x(w) \in Nat /\ y(w) \in Nat /\ z(w) \in Nat  BY <1>1, <1>2, Times
  <2> QED  BY <2>1, <2>2
<1>4. z(u) <= z(v)
  <2>1. u.out <= v.out  BY DEF HeardOf
  <2> QED  BY <2>1, <1>1, <1>2, TimesGrows
<1>5. x(u) <= x(v) /\ y(u) <= y(v)
  <2>1. CASE u.in = v.in /\ u.cached = v.cached /\ u.written = v.written
    <3>1. x(u) = x(v) /\ y(u) = y(v)  BY <2>1
    <3> HIDE DEF x, y
    <3> QED  BY <3>1, <1>3, SMT
  <2>2. CASE u.in = 0 /\ u.cached = 0 /\ u.written = 0
    <3>1. regular(u) + u.written = 0  BY <2>2
    <3>2. x(u) = 0 /\ y(u) = 0
      <4> HIDE DEF regular
      <4> QED  BY <3>1, <2>2, <1>2, SMT
    <3> HIDE DEF x, y
    <3> QED  BY <3>2, <1>3, SMT
  <2> QED  BY <2>1, <2>2 DEF HeardOf
<1> HIDE DEF x, y, z
<1>9. /\ x(u) \in Nat /\ y(u) \in Nat /\ z(u) \in Nat
      /\ x(v) \in Nat /\ y(v) \in Nat /\ z(v) \in Nat
  BY <1>3
<1>6. x(u) + y(u) + z(u) + 500 <= x(v) + y(v) + z(v) + 500  BY <1>3, <1>4, <1>5, SMT
<1>7. \A a, b \in Nat : a <= b => a \div 1000 <= b \div 1000  BY SMT
<1>8. x(u) + y(u) + z(u) + 500 \in Nat /\ x(v) + y(v) + z(v) + 500 \in Nat  BY <1>9, SMT
<1> QED  BY <1>3, <1>6, <1>7, <1>8


----------------------------------------------------------------------------
(* The proxy.                                                              *)

\* No post and no import has begun.
LEMMA ProxyStarts == ASSUME ProxyAssumption, InitProxy PROVE ProxyInv
<1>1. NoUsage \in Usage  BY DEF NoUsage, Usage
<1>2. PostsOK
  <2>1. HeardOf(NoUsage, NoUsage, FALSE)  BY DEF HeardOf, NoUsage
  <2> DEFINE c == [at |-> "idle", heard |-> NoUsage, told |-> NoUsage, events |-> 0, split |-> FALSE, faulted |-> FALSE]
             r == [task |-> "none", session |-> "none", cost |-> 0, total |-> 0]
  <2>2. c \in Post /\ r \in Record  BY <1>1 DEF Post, Record, PostStages
  <2>3. PostOK(c, r)
    <3>1. /\ c.at = "idle" /\ c.heard = NoUsage /\ c.told = NoUsage /\ c.events = 0 /\ c.split = FALSE /\ c.faulted = FALSE
          /\ r.task = "none" /\ r.session = "none"
      OBVIOUS
    <3> HIDE DEF c, r
    <3>2. Recorded(c, r)  BY <3>1 DEF Recorded
    <3>3. 0 <= MaxEvents  BY DEF ProxyAssumption
    <3> QED  BY <2>1, <2>2, <3>1, <3>2, <3>3 DEF PostOK
  <2>4. post = [p \in Posts |-> c] /\ record = [p \in Posts |-> r]  BY DEF InitProxy
  <2> HIDE DEF c, r
  <2> QED  BY <2>2, <2>3, <2>4 DEF PostsOK
<1>3. ImportsOK
  <2>1. /\ import = [i \in Imports |-> [at |-> "idle", left |-> NamesOf[i], faulted |-> FALSE]]
        /\ draft = [i \in Imports |-> <<>>] /\ rows = [i \in Imports |-> <<>>] /\ named = Registered
    BY DEF InitProxy
  <2>2. ASSUME NEW i \in Imports
        PROVE  ImportOK(i, import[i], draft[i], rows[i], named)
    <3>1. NamesOf[i] \in Seq(AgentsOf(i)) /\ NamesOf[i] # <<>>  BY DEF ProxyAssumption, AgentsOf
    <3>2. <<>> \in Seq(AgentsOf(i)) /\ <<>> \o NamesOf[i] = NamesOf[i]  BY <3>1, ConcatEmptySeq, EmptySeq
    <3>3. import[i] = [at |-> "idle", left |-> NamesOf[i], faulted |-> FALSE] /\ draft[i] = <<>> /\ rows[i] = <<>>
      BY <2>1
    <3>4. import[i] \in Importing(i) /\ import[i].at = "idle" /\ import[i].left = NamesOf[i] /\ import[i].faulted = FALSE
      BY <3>1, <3>3 DEF Importing, ImportStages
    <3> QED  BY <3>1, <3>2, <3>3, <3>4 DEF ImportOK
  <2> QED  BY <2>1, <2>2 DEF ImportsOK
<1> QED  BY <1>2, <1>3, SMT DEF InitProxy, ProxyInv, ProxyAssumption

\* A stage that a post moves to keeps the rest of it.
LEMMA PostGoes ==
  ASSUME NEW c \in Post, NEW at \in PostStages
  PROVE  /\ [c EXCEPT !.at = at] \in Post
         /\ [c EXCEPT !.at = at].at = at
         /\ [c EXCEPT !.at = at].heard = c.heard /\ [c EXCEPT !.at = at].told = c.told
         /\ [c EXCEPT !.at = at].events = c.events /\ [c EXCEPT !.at = at].split = c.split
         /\ [c EXCEPT !.at = at].faulted = c.faulted
BY DEF Post

\* A post that goes on to a stage that its records fit.
LEMMA PostGoesOn ==
  ASSUME NEW c, NEW r, NEW r2 \in Record, NEW at \in PostStages, PostOK(c, r),
         c.events = 0 /\ at \in {"idle", "agent", "trace", "session", "ask", "connect", "stream"} =>
           c.at \in {"idle", "agent", "trace", "session", "ask", "connect", "stream"},
         Recorded([c EXCEPT !.at = at], r2)
  PROVE  PostOK([c EXCEPT !.at = at], r2)
<1> DEFINE e == [c EXCEPT !.at = at]
<1>1. c \in Post  BY DEF PostOK
<1>2. /\ e \in Post /\ e.at = at /\ e.heard = c.heard /\ e.told = c.told /\ e.events = c.events /\ e.split = c.split
  BY <1>1, PostGoes
<1> HIDE DEF e
<1> QED  BY <1>2, SMT DEF PostOK, e

\* A step of one post leaves the others and the imports.
LEMMA OnePost ==
  ASSUME PostsOK, NEW p \in Posts, NEW c, NEW r,
         post' = [post EXCEPT ![p] = c], record' = [record EXCEPT ![p] = r], PostOK(c, r)
  PROVE  PostsOK'
<1>1. c \in Post /\ r \in Record  BY DEF PostOK
<1>2. post' \in [Posts -> Post] /\ record' \in [Posts -> Record]  BY <1>1 DEF PostsOK
<1>3. ASSUME NEW q \in Posts
      PROVE  PostOK(post'[q], record'[q])
  <2>1. CASE q = p  BY <2>1 DEF PostsOK
  <2>2. CASE q # p
    <3>1. post'[q] = post[q] /\ record'[q] = record[q]  BY <2>2 DEF PostsOK
    <3> QED  BY <3>1 DEF PostsOK
  <2> QED  BY <2>1, <2>2
<1> QED  BY <1>2, <1>3 DEF PostsOK

\* A step that moves a post to a stage and leaves its records.
LEMMA MovesOn ==
  ASSUME PostsOK, NEW p \in Posts, NEW at \in PostStages, PostTo(p, at), UNCHANGED record,
         post[p].events = 0 /\ at \in {"idle", "agent", "trace", "session", "ask", "connect", "stream"} =>
           post[p].at \in {"idle", "agent", "trace", "session", "ask", "connect", "stream"},
         Recorded([post[p] EXCEPT !.at = at], record[p])
  PROVE  PostsOK'
<1> DEFINE c == [post[p] EXCEPT !.at = at]
<1>1. post' = [post EXCEPT ![p] = c] /\ record' = [record EXCEPT ![p] = record[p]]  BY DEF PostTo, PostsOK
<1>2. PostOK(c, record[p])
  <2>1. PostOK(post[p], record[p]) /\ record[p] \in Record  BY DEF PostsOK
  <2> QED  BY <2>1, PostGoesOn
<1> HIDE DEF c
<1> QED  BY <1>1, <1>2, OnePost

\* What is recorded of a post that goes on, from what was recorded of it.
LEMMA RecordedAgain ==
  ASSUME NEW c \in Post, NEW r \in Record, NEW at \in PostStages, Recorded(c, r),
         \/ c.at \in {"idle", "agent", "trace"} /\ at \in {"agent", "trace", "refused"}
         \/ /\ c.at \in {"ask", "connect", "stream", "price", "price_failure"}
            /\ at \in {"price", "price_failure", "stream", "store_success", "store_failure"}
  PROVE  Recorded([c EXCEPT !.at = at], r)
<1> DEFINE e == [c EXCEPT !.at = at]
<1>1. e.at = at /\ e.heard = c.heard /\ e.faulted = c.faulted  BY PostGoes
<1> HIDE DEF e
<1> QED  BY <1>1 DEF Recorded, e

\* A step of an import leaves the posts.
LEMMA PostsKept == ASSUME PostsOK, UNCHANGED <<post, record>> PROVE PostsOK'
BY DEF PostsOK

\* A step of a post leaves the imports.
LEMMA ImportsKept == ASSUME ImportsOK, UNCHANGED <<named, import, draft, rows>> PROVE ImportsOK'
BY DEF ImportsOK, ImportOK

\* Setting what went out of a usage leaves what came in.
LEMMA OutChanges ==
  ASSUME NEW u \in Usage, NEW n \in Nat
  PROVE  /\ [u EXCEPT !.out = n] \in Usage /\ [u EXCEPT !.out = n].out = n
         /\ [u EXCEPT !.out = n].in = u.in /\ [u EXCEPT !.out = n].cached = u.cached
         /\ [u EXCEPT !.out = n].written = u.written
BY DEF Usage

Changed(c, n, split, told, heard) == [c EXCEPT !.events = n, !.split = split, !.told = told, !.heard = heard]

\* Each step of a post keeps the invariant.
LEMMA PostStep ==
  ASSUME ProxyAssumption, PostsOK, NEW p \in Posts,
         \/ ResolveKey(p) \/ CreateTask(p) \/ CreateTraceSession(p) \/ Answer(p) \/ Connect(p)
         \/ CloseProxyStream(p) \/ PricePost(p) \/ StoreTraceSession(p) \/ StoreTask(p) \/ PostFault(p)
         \/ (\E i \in Imports : ResolveAgent(p, Head(NamesOf[i])))
         \/ \E u \in Usages, whole \in BOOLEAN : Event(p, u, whole)
  PROVE  PostsOK'
<1> DEFINE c == post[p]  r == record[p]
<1>1. PostOK(c, r) /\ c \in Post /\ r \in Record /\ Recorded(c, r)  BY DEF PostsOK, PostOK
<1>2. post = [post EXCEPT ![p] = c] /\ record = [record EXCEPT ![p] = r]  BY DEF PostsOK
<1>3. ASSUME NEW at \in PostStages, PostTo(p, at), UNCHANGED record,
             \/ c.at \in {"idle", "agent", "trace"} /\ at \in {"agent", "trace", "refused"}
             \/ /\ c.at \in {"ask", "connect", "stream", "price", "price_failure"}
                /\ at \in {"price", "price_failure", "stream", "store_success", "store_failure"}
                /\ at = "stream" => c.at = "connect"
      PROVE  PostsOK'
  <2>1. Recorded([c EXCEPT !.at = at], r)
    <3> HIDE DEF c, r
    <3> QED  BY <1>1, <1>3, RecordedAgain
  <2>2. c.events = 0 /\ at \in {"idle", "agent", "trace", "session", "ask", "connect", "stream"} =>
           c.at \in {"idle", "agent", "trace", "session", "ask", "connect", "stream"}
    BY <1>3
  <2> QED  BY <1>3, <2>1, <2>2, MovesOn
<1>4. CASE ResolveKey(p)
  <2>1. c.at = "idle" /\ UNCHANGED record /\ (PostTo(p, "agent") \/ PostTo(p, "refused"))
    BY <1>4 DEF ResolveKey, PostAt
  <2> QED  BY <2>1, <1>3 DEF PostStages
<1>5. CASE \E i \in Imports : ResolveAgent(p, Head(NamesOf[i]))
  <2>1. c.at = "agent" /\ UNCHANGED record /\ (PostTo(p, "trace") \/ PostTo(p, "refused"))
    BY <1>5 DEF ResolveAgent, PostAt
  <2> QED  BY <2>1, <1>3 DEF PostStages
<1>6. CASE Connect(p)
  <2>1. c.at = "connect" /\ UNCHANGED record /\ (PostTo(p, "stream") \/ PostTo(p, "store_failure"))
    BY <1>6 DEF Connect, PostAt
  <2> QED  BY <2>1, <1>3 DEF PostStages
<1>7. CASE CloseProxyStream(p)
  <2>1. c.at = "stream" /\ UNCHANGED record /\ PostTo(p, "price")  BY <1>7 DEF CloseProxyStream, PostAt
  <2> QED  BY <2>1, <1>3 DEF PostStages
<1>8. CASE PricePost(p)
  <2>1. /\ c.at \in {"price", "price_failure"} /\ UNCHANGED record
        /\ PostTo(p, "store_success") \/ PostTo(p, "store_failure")
    BY <1>8 DEF PricePost, PostAt
  <2> QED  BY <2>1, <1>3 DEF PostStages
<1>9. CASE Answer(p)
  <2>1. c.at = "ask" /\ UNCHANGED record  BY <1>9 DEF Answer, PostAt
  <2>2. CASE PostTo(p, "price_failure")
    BY <2>1, <2>2, <1>3 DEF PostStages
  <2>3. ASSUME NEW u \in Usages, post' = [post EXCEPT ![p] = Answered(@, u)]
        PROVE  PostsOK'
    <3> DEFINE e == Answered(c, u)
    <3>1. post' = [post EXCEPT ![p] = e] /\ record' = [record EXCEPT ![p] = r]
      BY <2>3, <2>1, <1>2 DEF PostsOK
    <3>2. u \in Usage  BY DEF ProxyAssumption, Usage
    <3>3. /\ e \in Post /\ e.at = "price" /\ e.heard = u /\ e.told = u /\ e.events = c.events
          /\ e.split = c.split /\ e.faulted = c.faulted
      <4> HIDE DEF c
      <4> QED  BY <3>2, <1>1 DEF Answered, Post, PostStages
    <3>4. HeardOf(u, u, c.split)  BY <3>2 DEF HeardOf, Usage
    <3> HIDE DEF e, c, r
    <3>5. Recorded(e, r)  BY <1>1, <2>1, <3>3 DEF Recorded
    <3>6. PostOK(e, r)  BY <1>1, <3>3, <3>4, <3>5 DEF PostOK
    <3> QED  BY <3>1, <3>6, OnePost
  <2> QED  BY <2>2, <2>3, <1>9 DEF Answer
<1>10. CASE CreateTask(p)
  <2> DEFINE e == [c EXCEPT !.at = "session"]  s == [r EXCEPT !.task = "running"]
  <2>1. c.at = "trace" /\ post' = [post EXCEPT ![p] = e] /\ record' = [record EXCEPT ![p] = s]
    BY <1>10 DEF CreateTask, PostAt, PostTo, PostsOK
  <2> HIDE DEF c, r
  <2>2. s \in Record /\ s.task = "running" /\ s.session = r.session  BY <1>1 DEF Record
  <2>3. e.at = "session" /\ e.faulted = c.faulted  BY <1>1, PostGoes DEF PostStages
  <2>4. Recorded(e, s)
    <3> HIDE DEF e, s
    <3> QED  BY <1>1, <2>1, <2>2, <2>3 DEF Recorded
  <2>5. PostOK(e, s)
    <3> HIDE DEF s
    <3> QED  BY <1>1, <2>1, <2>2, <2>4, PostGoesOn DEF PostStages
  <2> HIDE DEF e, s
  <2> QED  BY <2>1, <2>5, OnePost
<1>11. CASE CreateTraceSession(p)
  <2>1. PICK at \in {"ask", "connect"} : PostTo(p, at)  BY <1>11 DEF CreateTraceSession
  <2> DEFINE e == [c EXCEPT !.at = at]  s == [r EXCEPT !.session = "running"]
  <2>2. c.at = "session" /\ post' = [post EXCEPT ![p] = e] /\ record' = [record EXCEPT ![p] = s]
    BY <1>11, <2>1 DEF CreateTraceSession, PostAt, PostTo, PostsOK
  <2> HIDE DEF c, r
  <2>3. s \in Record /\ s.session = "running" /\ s.task = r.task  BY <1>1 DEF Record
  <2>4. e.at = at /\ e.faulted = c.faulted /\ at \in PostStages  BY <1>1, PostGoes DEF PostStages
  <2>5. Recorded(e, s)
    <3> HIDE DEF e, s
    <3> QED  BY <1>1, <2>2, <2>3, <2>4 DEF Recorded
  <2>6. PostOK(e, s)
    <3> HIDE DEF s
    <3> QED  BY <1>1, <2>2, <2>3, <2>4, <2>5, PostGoesOn
  <2> HIDE DEF e, s
  <2> QED  BY <2>2, <2>6, OnePost
<1>12. CASE StoreTraceSession(p)
  <2> DEFINE to == IF c.at = "store_success" THEN "success" ELSE "failed"
             e == [c EXCEPT !.at = "settle"]
             s == [r EXCEPT !.session = to, !.cost = calculateCost(c.heard)]
  <2>1. /\ c.at \in {"store_success", "store_failure"}
        /\ post' = [post EXCEPT ![p] = e] /\ record' = [record EXCEPT ![p] = s]
    BY <1>12 DEF StoreTraceSession, PostAt, PostTo, PostsOK
  <2> HIDE DEF c, r
  <2>2. calculateCost(c.heard) \in Nat  BY <1>1, CostIsNat DEF Post
  <2>3. s \in Record /\ s.session = to /\ s.task = r.task /\ s.cost = calculateCost(c.heard) /\ to \in {"success", "failed"}
    BY <1>1, <2>2 DEF Record
  <2>4. e.at = "settle" /\ e.faulted = c.faulted /\ e.heard = c.heard  BY <1>1, PostGoes DEF PostStages
  <2>5. Recorded(e, s)
    <3> HIDE DEF e, s, to
    <3> QED  BY <1>1, <2>1, <2>3, <2>4 DEF Recorded
  <2>6. PostOK(e, s)
    <3> HIDE DEF s, to
    <3> QED  BY <1>1, <2>3, <2>5, PostGoesOn DEF PostStages
  <2> HIDE DEF e, s, to
  <2> QED  BY <2>1, <2>6, OnePost
<1>13. CASE StoreTask(p)
  <2> DEFINE to == IF r.session = "success" THEN "completed" ELSE "failed"
             e == [c EXCEPT !.at = "settled"]
             s == [r EXCEPT !.task = to, !.total = calculateCost(c.heard)]
  <2>1. c.at = "settle" /\ post' = [post EXCEPT ![p] = e] /\ record' = [record EXCEPT ![p] = s]
    BY <1>13 DEF StoreTask, PostAt, PostTo, PostsOK
  <2> HIDE DEF c, r
  <2>2. calculateCost(c.heard) \in Nat  BY <1>1, CostIsNat DEF Post
  <2>3. s \in Record /\ s.task = to /\ s.session = r.session /\ s.cost = r.cost /\ s.total = calculateCost(c.heard)
    BY <1>1, <2>2 DEF Record
  <2>4. e.at = "settled" /\ e.faulted = c.faulted /\ e.heard = c.heard  BY <1>1, PostGoes DEF PostStages
  <2>5. Recorded(e, s)
    <3> HIDE DEF e, s
    <3> QED  BY <1>1, <2>1, <2>3, <2>4 DEF Recorded
  <2>6. PostOK(e, s)
    <3> HIDE DEF s, to
    <3> QED  BY <1>1, <2>3, <2>5, PostGoesOn DEF PostStages
  <2> HIDE DEF e, s, to
  <2> QED  BY <2>1, <2>6, OnePost
<1>14. CASE PostFault(p)
  <2> DEFINE e == [c EXCEPT !.at = "refused", !.faulted = TRUE]
  <2>1. post' = [post EXCEPT ![p] = e] /\ record' = [record EXCEPT ![p] = r]
    BY <1>14, <1>2 DEF PostFault, PostsOK
  <2> HIDE DEF c, r
  <2>2. /\ e \in Post /\ e.at = "refused" /\ e.faulted /\ e.heard = c.heard /\ e.told = c.told /\ e.events = c.events
        /\ e.split = c.split
    BY <1>1 DEF Post, PostStages
  <2> HIDE DEF e
  <2>3. Recorded(e, r)  BY <2>2 DEF Recorded
  <2>4. PostOK(e, r)  BY <1>1, <2>2, <2>3 DEF PostOK
  <2> QED  BY <2>1, <2>4, OnePost
<1>15. ASSUME NEW u \in Usages, NEW whole \in BOOLEAN, Event(p, u, whole)
       PROVE  PostsOK'
  <2> DEFINE start == c.events = 0
             told == IF start THEN [u EXCEPT !.out = 0] ELSE [c.told EXCEPT !.out = c.told.out + u.out]
             heard == IF whole THEN Heard(c.heard, u, start) ELSE c.heard
             split == c.split \/ ~whole
             e == Changed(c, c.events + 1, split, told, heard)
  <2>1. /\ c.at = "stream" /\ c.events < MaxEvents
        /\ post' = [post EXCEPT ![p] = AfterEvent(c, u, whole)] /\ record' = [record EXCEPT ![p] = r]
    BY <1>15, <1>2 DEF Event, PostAt, PostsOK
  <2> HIDE DEF c, r
  <2>2. u \in Usage /\ c.told \in Usage /\ c.heard \in Usage /\ c.split \in BOOLEAN /\ c.events \in Nat
    BY <1>1 DEF ProxyAssumption, Usage, Post
  <2>3. HeardOf(c.heard, c.told, c.split) /\ (start => c.heard = NoUsage /\ c.told = NoUsage /\ ~c.split)
    BY <1>1, <2>1 DEF PostOK
  <2>10. AfterEvent(c, u, whole) = e  BY Zenon DEF AfterEvent, Changed
  <2>11. split \in BOOLEAN  BY <2>2
  <2>12. told \in Usage
    <3>1. [u EXCEPT !.out = 0] \in Usage  BY <2>2, OutChanges
    <3>4. c.told.out \in Nat /\ u.out \in Nat  BY <2>2 DEF Usage
    <3>2. c.told.out + u.out \in Nat  BY <3>4
    <3>3. [c.told EXCEPT !.out = c.told.out + u.out] \in Usage  BY <2>2, <3>2, OutChanges
    <3> QED  BY <3>1, <3>3
  <2>13. heard \in Usage
    <3>1. [u EXCEPT !.out = c.heard.out] \in Usage  BY <2>2 DEF Usage
    <3>4. c.heard.out \in Nat /\ u.out \in Nat  BY <2>2 DEF Usage
    <3>2. c.heard.out + u.out \in Nat  BY <3>4
    <3>3. [c.heard EXCEPT !.out = c.heard.out + u.out] \in Usage  BY <2>2, <3>2, OutChanges
    <3> QED  BY <3>1, <3>3, <2>2 DEF Heard
  <2>4. told \in Usage /\ heard \in Usage  BY <2>12, <2>13
  <2> HIDE DEF split
  <2>5. HeardOf(heard, told, split)
    <3> USE DEF split
    <3>1. CASE start /\ whole
      <4>1. told = [u EXCEPT !.out = 0] /\ heard = [u EXCEPT !.out = 0]  BY <3>1, <2>3 DEF Heard, NoUsage
      <4> HIDE DEF told, heard
      <4> QED  BY <4>1, <3>1, <2>2, <2>4 DEF HeardOf, Usage
    <3>2. CASE start /\ ~whole
      <4>1. told = [u EXCEPT !.out = 0] /\ heard = NoUsage  BY <3>2, <2>3
      <4> HIDE DEF told, heard
      <4> QED  BY <4>1, <3>2, <2>2, <2>4 DEF HeardOf, Usage, NoUsage
    <3>3. CASE ~start /\ whole
      <4>1. told = [c.told EXCEPT !.out = c.told.out + u.out] /\ heard = [c.heard EXCEPT !.out = c.heard.out + u.out]  BY <3>3 DEF Heard
      <4> HIDE DEF told, heard
      <4>2. /\ told.in = c.told.in /\ told.cached = c.told.cached /\ told.written = c.told.written
            /\ told.out = c.told.out + u.out
            /\ heard.in = c.heard.in /\ heard.cached = c.heard.cached /\ heard.written = c.heard.written
            /\ heard.out = c.heard.out + u.out
        BY <4>1, <2>2 DEF Usage
      <4>3. u.out \in Nat /\ c.told.out \in Nat /\ c.heard.out \in Nat  BY <2>2 DEF Usage
      <4>4. c.heard = c.told => heard = told  BY <4>1
      <4> QED  BY <4>2, <4>3, <4>4, <3>3, <2>3 DEF HeardOf
    <3>4. CASE ~start /\ ~whole
      <4>1. told = [c.told EXCEPT !.out = c.told.out + u.out] /\ heard = c.heard  BY <3>4
      <4> HIDE DEF told, heard
      <4>2. /\ told.in = c.told.in /\ told.cached = c.told.cached /\ told.written = c.told.written
            /\ told.out = c.told.out + u.out
        BY <4>1, <2>2 DEF Usage
      <4>3. u.out \in Nat /\ c.told.out \in Nat /\ c.heard.out \in Nat  BY <2>2 DEF Usage
      <4>4. c.heard.out <= told.out  BY <4>2, <4>3, <2>3 DEF HeardOf
      <4> QED  BY <4>1, <4>2, <4>4, <3>4, <2>3 DEF HeardOf
    <3> QED  BY <3>1, <3>2, <3>3, <3>4
  <2>6. /\ e \in Post /\ e.at = "stream" /\ e.told = told /\ e.heard = heard /\ e.events = c.events + 1
        /\ e.split = split /\ e.faulted = c.faulted
    <3> HIDE DEF told, heard
    <3>1. c.events + 1 \in Nat  BY <2>2
    <3> DEFINE n == c.events + 1
    <3>2. e = Changed(c, n, split, told, heard) /\ n \in Nat  BY <3>1
    <3> HIDE DEF e, n
    <3>3. /\ e \in Post /\ e.at = c.at /\ e.told = told /\ e.heard = heard /\ e.events = n
          /\ e.split = split /\ e.faulted = c.faulted
      BY <1>1, <2>4, <2>11, <3>2 DEF Changed, Post
    <3> QED  BY <2>1, <3>3 DEF n
  <2> HIDE DEF e, told, heard
  <2>7. Recorded(e, r)  BY <1>1, <2>1, <2>6 DEF Recorded
  <2>8. e.events <= MaxEvents /\ e.events # 0  BY <2>1, <2>2, <2>6 DEF ProxyAssumption
  <2>9. PostOK(e, r)  BY <1>1, <2>5, <2>6, <2>7, <2>8 DEF PostOK
  <2> QED  BY <2>1, <2>10, <2>9, OnePost
<1> QED  BY <1>4, <1>5, <1>6, <1>7, <1>8, <1>9, <1>10, <1>11, <1>12, <1>13, <1>14, <1>15

----------------------------------------------------------------------------
(* The ingestion.                                                          *)

\* A step of one import leaves the others.
LEMMA OneImport ==
  ASSUME ImportsOK, NEW i \in Imports, NEW c, NEW d, NEW r,
         import' = [import EXCEPT ![i] = c], draft' = [draft EXCEPT ![i] = d], rows' = [rows EXCEPT ![i] = r],
         named \subseteq named', ImportOK(i, c, d, r, named')
  PROVE  ImportsOK'
<1>1. import'[i] = c /\ draft'[i] = d /\ rows'[i] = r  BY DEF ImportsOK
<1>2. \A j \in Imports \ {i} : import'[j] = import[j] /\ draft'[j] = draft[j] /\ rows'[j] = rows[j]
  BY DEF ImportsOK
<1>3. /\ import' = [j \in Imports |-> import'[j]] /\ draft' = [j \in Imports |-> draft'[j]]
      /\ rows' = [j \in Imports |-> rows'[j]]
  BY DEF ImportsOK
<1>5. ASSUME NEW j \in Imports
      PROVE  ImportOK(j, import[j], draft[j], rows[j], named)'
  <2>1. CASE j = i  BY <2>1, <1>1
  <2>2. CASE j # i
    <3>1. ImportOK(j, import[j], draft[j], rows[j], named)  BY DEF ImportsOK
    <3> DEFINE k2 == import[j]  d2 == draft[j]  r2 == rows[j]
    <3>2. import'[j] = k2 /\ draft'[j] = d2 /\ rows'[j] = r2  BY <2>2, <1>2
    <3> HIDE DEF k2, d2, r2
    <3>3. ImportOK(j, k2, d2, r2, named')  BY <3>1 DEF ImportOK, k2, d2, r2
    <3> QED  BY <3>2, <3>3
  <2> QED  BY <2>1, <2>2
<1>6. Registered \subseteq named'  BY DEF ImportsOK
<1> QED  BY <1>3, <1>5, <1>6 DEF ImportsOK

\* Writing the session of the next agent moves it from what is left to what is written.
LEMMA NextIsWritten ==
  ASSUME NEW S, NEW d \in Seq(S), NEW left \in Seq(S), left # <<>>
  PROVE  /\ Append(d, Head(left)) \in Seq(S) /\ Tail(left) \in Seq(S)
         /\ Append(d, Head(left)) \o Tail(left) = d \o left
         /\ Len(left) = 1 <=> Tail(left) = <<>>
<1>1. Head(left) \in S /\ Tail(left) \in Seq(S) /\ Len(Tail(left)) = Len(left) - 1  BY HeadTailProperties
<1>2. Append(d, Head(left)) \in Seq(S)  BY <1>1, AppendProperties
<1>3. Len(left) = 1 <=> Tail(left) = <<>>
  <2>1. Len(left) \in Nat /\ Len(Tail(left)) \in Nat  BY <1>1, LenProperties
  <2>2. Len(Tail(left)) = 0 <=> Tail(left) = <<>>  BY <1>1, EmptySeq
  <2> QED  BY <1>1, <2>1, <2>2
<1>4. Append(d, Head(left)) = d \o <<Head(left)>>  BY <1>1, AppendIsConcat
<1>5. <<Head(left)>> \o Tail(left) = left
  <2>1. left = <<Head(left)>> \o Tail(left)  BY HeadTailProperties, SMT
  <2> QED  BY <2>1
<1>6. (d \o <<Head(left)>>) \o Tail(left) = d \o (<<Head(left)>> \o Tail(left))
  BY <1>1, ConcatAssociative
<1> QED  BY <1>1, <1>2, <1>3, <1>4, <1>5, <1>6

\* Each step of an import keeps the invariant.
LEMMA ImportStep ==
  ASSUME ImportsOK, NEW i \in Imports, FindNamed(i) \/ RegisterNamed(i) \/ WriteImported(i) \/ ImportFault(i)
  PROVE  ImportsOK'
<1> DEFINE c == import[i]  S == AgentsOf(i)
<1>1. /\ ImportOK(i, c, draft[i], rows[i], named) /\ c \in Importing(i)
      /\ draft = [draft EXCEPT ![i] = draft[i]] /\ rows = [rows EXCEPT ![i] = rows[i]] /\ Registered \subseteq named
  BY DEF ImportsOK, ImportOK
<1>2. ASSUME NEW e, UNCHANGED <<draft, rows>>, named \subseteq named', import' = [import EXCEPT ![i] = e],
             e \in Importing(i), e.left = c.left,
             c.at \in {"idle", "find", "register", "write"}, e.at \in {"register", "write", "failed"},
             e.at = "register" => Head(c.left) \notin Registered, e.faulted => e.at = "failed",
             e.at = "failed" /\ ~e.faulted => Head(c.left) \in named' \ Registered
      PROVE  ImportsOK'
  <2> DEFINE d == draft[i]  r == rows[i]
  <2>1. draft' = [draft EXCEPT ![i] = d] /\ rows' = [rows EXCEPT ![i] = r]  BY <1>1, <1>2
  <2>2. ImportOK(i, e, d, r, named')
    <3> HIDE DEF c
    <3> QED  BY <1>1, <1>2 DEF ImportOK
  <2> HIDE DEF c, d, r
  <2> QED  BY <1>2, <2>1, <2>2, OneImport
<1>4. c.faulted => c.at = "failed"  BY <1>1 DEF ImportOK
<1>5. ASSUME NEW at \in ImportStages
      PROVE  LET e == [c EXCEPT !.at = at] IN
             e \in Importing(i) /\ e.left = c.left /\ e.at = at /\ e.faulted = c.faulted
  <2> HIDE DEF c
  <2> QED  BY <1>1 DEF Importing
<1>3. ASSUME NEW at \in ImportStages, UNCHANGED <<draft, rows>>, named \subseteq named',
             import' = [import EXCEPT ![i] = [c EXCEPT !.at = at]],
             c.at \in {"idle", "find", "register", "write"}, at \in {"register", "write", "failed"},
             at = "register" => Head(c.left) \notin Registered,
             at = "failed" => Head(c.left) \in named' \ Registered
      PROVE  ImportsOK'
  <2> DEFINE e == [c EXCEPT !.at = at]
  <2>1. e \in Importing(i) /\ e.left = c.left /\ e.at = at /\ e.faulted = c.faulted  BY <1>5
  <2>2. import' = [import EXCEPT ![i] = e]  BY <1>3
  <2> HIDE DEF c, e
  <2> QED  BY <2>1, <2>2, <1>2, <1>3, <1>4
<1>10. {"idle", "find", "register", "write", "failed"} \subseteq ImportStages  BY DEF ImportStages
<1>6. CASE FindNamed(i)
  <2>1. c.at \in {"idle", "find"} /\ UNCHANGED <<named, draft, rows>> /\ c.faulted = FALSE
    BY <1>6, <1>1 DEF FindNamed, ImportAt, ImportOK, Importing
  <2>2. CASE Head(c.left) \in named
    <3>1. import' = [import EXCEPT ![i] = [c EXCEPT !.at = "write"]]  BY <1>6, <2>2 DEF FindNamed
    <3> QED  BY <3>1, <2>1, <1>3, <1>10
  <2>3. CASE Head(c.left) \notin named
    <3>1. import' = [import EXCEPT ![i] = [c EXCEPT !.at = "register"]]  BY <1>6, <2>3 DEF FindNamed
    <3>2. Head(c.left) \notin Registered  BY <2>3, <1>1
    <3> QED  BY <3>1, <3>2, <2>1, <1>3, <1>10
  <2> QED  BY <2>2, <2>3
<1>7. CASE RegisterNamed(i)
  <2>1. c.at = "register" /\ UNCHANGED <<draft, rows>> /\ c.faulted = FALSE /\ named' = named \cup {Head(c.left)}
    BY <1>7, <1>1 DEF RegisterNamed, ImportAt, ImportOK, Importing
  <2>2. Head(c.left) \notin Registered  BY <2>1, <1>1 DEF ImportOK
  <2>3. CASE Head(c.left) \in named
    <3>1. import' = [import EXCEPT ![i] = [c EXCEPT !.at = "failed"]]  BY <1>7, <2>3 DEF RegisterNamed
    <3> QED  BY <3>1, <2>1, <2>2, <1>3, <1>10
  <2>4. CASE Head(c.left) \notin named
    <3>1. import' = [import EXCEPT ![i] = [c EXCEPT !.at = "write"]]  BY <1>7, <2>4 DEF RegisterNamed
    <3> QED  BY <3>1, <2>1, <1>3, <1>10
  <2> QED  BY <2>3, <2>4
<1>8. CASE ImportFault(i)
  <2>1. c.at \in {"find", "register", "write"} /\ UNCHANGED <<named, draft, rows>>  BY <1>8 DEF ImportFault
  <2>2. import' = [import EXCEPT ![i] = [c EXCEPT !.at = "failed", !.faulted = TRUE]]  BY <1>8 DEF ImportFault
  <2> DEFINE e == [c EXCEPT !.at = "failed", !.faulted = TRUE]
  <2>3. e \in Importing(i) /\ e.left = c.left /\ e.at = "failed" /\ e.faulted = TRUE
    <3> HIDE DEF c
    <3> QED  BY <1>1, <1>10 DEF Importing
  <2> HIDE DEF c, e
  <2> QED  BY <2>1, <2>2, <2>3, <1>2 DEF e
<1>9. CASE WriteImported(i)
  <2> DEFINE d == Append(draft[i], Head(c.left))  at == IF Len(c.left) = 1 THEN "done" ELSE "find"
             e == [c EXCEPT !.left = Tail(c.left), !.at = at]  r == IF Len(c.left) = 1 THEN d ELSE rows[i]
  <2>1. /\ c.at = "write" /\ UNCHANGED named /\ draft' = [draft EXCEPT ![i] = d]
        /\ import' = [import EXCEPT ![i] = [c EXCEPT !.left = Tail(c.left), !.at = at]]
        /\ rows' = [rows EXCEPT ![i] = Committed(i)]
    BY <1>9 DEF WriteImported, ImportAt
  <2>2. draft'[i] = d  BY <2>1 DEF ImportsOK
  <2>3. rows' = [rows EXCEPT ![i] = r]  BY <2>1, <2>2 DEF Committed
  <2>5. /\ c.left \in Seq(S) /\ draft[i] \in Seq(S) /\ c.left # <<>> /\ draft[i] \o c.left = NamesOf[i]
        /\ rows[i] = <<>> /\ c.faulted = FALSE
    <3> HIDE DEF c
    <3> QED  BY <1>1, <2>1 DEF ImportOK, Importing
  <2>6. /\ d \in Seq(S) /\ Tail(c.left) \in Seq(S) /\ d \o Tail(c.left) = NamesOf[i]
        /\ Len(c.left) = 1 <=> Tail(c.left) = <<>>
    <3> DEFINE left == c.left  before == draft[i]
    <3> HIDE DEF c, S
    <3>1. before \in Seq(S) /\ left \in Seq(S) /\ left # <<>> /\ before \o left = NamesOf[i]  BY <2>5
    <3> HIDE DEF left, before
    <3>2. /\ Append(before, Head(left)) \in Seq(S) /\ Tail(left) \in Seq(S)
          /\ Append(before, Head(left)) \o Tail(left) = before \o left
          /\ Len(left) = 1 <=> Tail(left) = <<>>
      BY <3>1, NextIsWritten, Zenon
    <3> QED  BY <3>1, <3>2 DEF left, before
  <2>7. e \in Importing(i) /\ e.at = at /\ e.left = Tail(c.left) /\ e.faulted = FALSE
    <3>1. at \in ImportStages  BY DEF ImportStages
    <3> HIDE DEF c, at
    <3> QED  BY <1>1, <2>5, <2>6, <3>1 DEF Importing
  <2>8. ImportOK(i, e, d, r, named')
    <3>1. at \in {"done", "find"} /\ (at = "done" <=> Tail(c.left) = <<>>)  BY <2>6
    <3>2. r = IF at = "done" THEN d ELSE <<>>  BY <2>5
    <3> HIDE DEF e, d, r, at, c
    <3> QED  BY <2>6, <2>7, <3>1, <3>2 DEF ImportOK
  <2> HIDE DEF d, r, c, at
  <2> QED  BY <2>1, <2>3, <2>8, OneImport DEF e
<1> QED  BY <1>6, <1>7, <1>8, <1>9

\* So does every step.
LEMMA ProxyStep == ASSUME ProxyAssumption PROVE ProxyInv /\ [NextProxy]_proxyVars => ProxyInv'
<1> SUFFICES ASSUME ProxyInv, [NextProxy]_proxyVars PROVE ProxyInv'
  OBVIOUS
<1> USE DEF ProxyInv
<1>1. CASE VisitKey
  <2>1. UNCHANGED <<userKey, post, record, named, import, draft, rows, proxyFaults>> /\ keyVisit' \in {"store", "delete"}
    BY <1>1 DEF VisitKey
  <2> QED  BY <2>1, PostsKept, ImportsKept
<1>2. CASE ChangeKey
  <2>1. UNCHANGED <<post, record, named, import, draft, rows, proxyFaults>> /\ keyVisit' = "away" /\ userKey' \in BOOLEAN
    BY <1>2 DEF ChangeKey
  <2> QED  BY <2>1, PostsKept, ImportsKept
<1>3. ASSUME NEW p \in Posts,
             \/ ResolveKey(p) \/ CreateTask(p) \/ CreateTraceSession(p) \/ Answer(p) \/ Connect(p)
             \/ CloseProxyStream(p) \/ PricePost(p) \/ StoreTraceSession(p) \/ StoreTask(p) \/ PostFault(p)
             \/ (\E i \in Imports : ResolveAgent(p, Head(NamesOf[i])))
             \/ \E u \in Usages, whole \in BOOLEAN : Event(p, u, whole)
      PROVE  ProxyInv'
  <2>1. PostsOK'  BY <1>3, PostStep
  <2>2. UNCHANGED <<userKey, keyVisit, named, import, draft, rows>> /\ proxyFaults' \in 0..MaxProxyFaults
    BY <1>3 DEF ResolveKey, CreateTask, CreateTraceSession, Answer, Connect, CloseProxyStream, PricePost,
      StoreTraceSession, StoreTask, PostFault, ResolveAgent, Event, ImportsRest, ProxyAssumption
  <2> QED  BY <2>1, <2>2, ImportsKept
<1>4. ASSUME NEW i \in Imports, FindNamed(i) \/ RegisterNamed(i) \/ WriteImported(i) \/ ImportFault(i)
      PROVE  ProxyInv'
  <2>1. ImportsOK'  BY <1>4, ImportStep
  <2>2. UNCHANGED <<userKey, keyVisit, post, record>> /\ proxyFaults' \in 0..MaxProxyFaults
    BY <1>4 DEF FindNamed, RegisterNamed, WriteImported, ImportFault, PostsRest, ProxyAssumption
  <2> QED  BY <2>1, <2>2, PostsKept
<1>5. CASE UNCHANGED proxyVars
  BY <1>5, PostsKept, ImportsKept DEF proxyVars
<1> QED  BY <1>1, <1>2, <1>3, <1>4, <1>5 DEF NextProxy

\* The invariant holds in every reachable state.
LEMMA ProxyHolds == SpecProxy => []ProxyInv
<1>1. InitProxy => ProxyInv  BY ProxyAssumption, ProxyStarts
<1>2. ProxyInv /\ [NextProxy]_proxyVars => ProxyInv'  BY ProxyAssumption, ProxyStep
<1> QED  BY <1>1, <1>2, PTL DEF SpecProxy

\* The records of a post and the key of the user only take the values the schema has for
\* them, and a stream is read for at most MaxEvents events (proxy.service.ts:97-314).
THEOREM ProxyTypeCorrect == SpecProxy => []ProxyTypeOK
<1>1. ProxyInv => ProxyTypeOK  
  BY DEF ProxyInv, PostsOK, PostOK, Post, Record, ProxyTypeOK
<1> QED  BY <1>1, ProxyHolds, PTL

\* In every reachable state a settled post has a trace and a session that agree and cost no
\* more than the provider reported, exactly that when no event was split over two chunks
\* (proxy.service.ts:97-149, 247-314); and an import is stored whole or not at all, failing only
\* by a failed call or a name that another registered first (ingest.service.ts:8-26, 45-117).
THEOREM AlwaysWrittenAsReported == SpecProxy => []WrittenAsReported
<1>1. ASSUME ProxyInv PROVE BilledAsReported
  <2> SUFFICES ASSUME NEW p \in Posts
               PROVE  LET r == record[p]  due == calculateCost(post[p].told) IN
                      /\ post[p].at \in {"settled", "refused"} /\ ~post[p].faulted => "running" \notin {r.task, r.session}
                      /\ PostAt(p, "settled") =>
                           /\ r.total = r.cost /\ r.cost <= due
                           /\ (r.task = "completed") <=> (r.session = "success")
                           /\ r.session = "success" /\ ~post[p].split => r.cost = due
    BY DEF BilledAsReported
  <2> DEFINE c == post[p]  r == record[p]
  <2>1. PostOK(c, r)  BY <1>1 DEF ProxyInv, PostsOK
  <2>2. c.heard \in Usage /\ c.told \in Usage  BY <2>1 DEF PostOK, Post
  <2> HIDE DEF c, r
  <2>3. calculateCost(c.heard) <= calculateCost(c.told)
    BY <2>1, <2>2, LessHeardCostsLess, ProxyAssumption DEF PostOK
  <2>4. ~c.split => c.heard = c.told  BY <2>1 DEF PostOK, HeardOf
  <2> QED  BY <2>1, <2>3, <2>4 DEF PostOK, Recorded, PostAt, c, r
<1>2. ASSUME ProxyInv PROVE ImportedWhole
  <2>1. ASSUME NEW i \in Imports
        PROVE  /\ rows[i] = IF ImportAt(i, "done") THEN NamesOf[i] ELSE <<>>
               /\ ImportAt(i, "failed") /\ ~import[i].faulted => Head(import[i].left) \in named \ Registered
    <3> DEFINE c == import[i]
    <3>1. ImportOK(i, c, draft[i], rows[i], named)  BY <1>2 DEF ProxyInv, ImportsOK
    <3>2. c.at = "done" => draft[i] = NamesOf[i]
      <4>1. draft[i] \in Seq(AgentsOf(i)) /\ draft[i] \o c.left = NamesOf[i] /\ (c.at = "done" => c.left = <<>>)
        BY <3>1 DEF ImportOK
      <4> HIDE DEF c
      <4> QED  BY <4>1, ConcatEmptySeq
    <3> QED  BY <3>1, <3>2 DEF ImportOK, ImportAt
  <2> QED  BY <2>1 DEF ImportedWhole
<1>3. ProxyInv => WrittenAsReported  BY <1>1, <1>2 DEF WrittenAsReported
<1> QED  BY <1>3, ProxyHolds, PTL

----------------------------------------------------------------------------
(***************************************************************************)
(* Proofs about the registry of agents, for any number of callers and any  *)
(* configuration file: a sync writes each agent of the file to a row of    *)
(* its name.                                                               *)
(***************************************************************************)

RegistryRow == [name : Names, slug : Slugs, status : {"ACTIVE", "ARCHIVED"}]
CallPlaces == {"idle", "register", "update", "archive", "look", "sync", "done", "failed", "faulted"}
CallRow == [at : CallPlaces, row : Nat, name : Names \cup {NoName}, slug : Slugs \cup {NoName}, left : Seq(Names),
            wrote : Seq(Nat), stale : BOOLEAN, renamed : BOOLEAN, clash : Names \cup {NoName}]

NamesDiffer == \A i, j \in DOMAIN registry : registry[i].name = registry[j].name => i = j

InSync(c) == c.at \in {"look", "sync"} \/ (c.at = "done" /\ c.wrote # <<>>)

\* The rows a sync has written and the names it has left are those of the file, in order; a row
\* it has written keeps the name it was written with unless somebody renames it.
SyncOK(c) ==
  /\ \A i \in DOMAIN c.wrote : c.wrote[i] \in DOMAIN registry
  /\ c.at \in {"look", "sync"} => c.left # <<>>
  /\ InSync(c) =>
       /\ Len(c.wrote) + Len(c.left) = Len(File)
       /\ \A i \in DOMAIN c.left : c.left[i] = File[Len(c.wrote) + i]
       /\ ~c.renamed => \A i \in DOMAIN c.wrote : registry[c.wrote[i]].name = File[i]
  /\ c.at = "done" => c.left = <<>>

\* What a sync has found of the name it is at holds until another writes a row.
FoundOK(c) ==
  /\ c.name = Head(c.left)
  /\ c.row # 0 /\ ~(c.stale /\ c.renamed) => registry[c.row].name = c.name
  /\ c.row = 0 /\ ~c.stale => \A i \in DOMAIN registry : registry[i].name # c.name

RegistryCallOK(c) ==
  /\ c.row \in 0..Len(registry)
  /\ SyncOK(c)
  /\ c.at = "sync" => FoundOK(c)
  /\ c.at = "register" => c.name \in Names /\ c.slug \in Slugs
  /\ c.at \in {"update", "archive"} => c.row # 0
  /\ c.at \in {"register", "update", "archive"} => c.left = <<>> /\ c.wrote = <<>>
  /\ c.at = "failed" /\ c.left # <<>> => c.clash # c.name \/ c.stale

RegistryInv ==
  /\ registry \in Seq(RegistryRow) /\ NamesDiffer
  /\ call \in [Callers -> CallRow] /\ \A k \in Callers : RegistryCallOK(call[k])
  /\ calls \in 0..MaxCalls /\ registryFaults \in 0..MaxRegistryFaults

----------------------------------------------------------------------------
\* The row that is found for a name has it, and none has it when none is found.
LEMMA FoundIsRow ==
  ASSUME registry \in Seq(RegistryRow), NamesDiffer, NEW n \in Names
  PROVE  /\ Found(n) \in 0..Len(registry)
         /\ Found(n) # 0 => registry[Found(n)].name = n
         /\ Found(n) = 0 => \A i \in DOMAIN registry : registry[i].name # n
<1> DEFINE I == {i \in 1..Len(registry) : registry[i].name = n}
<1>1. Found(n) = IF I # {} THEN Min(I) ELSE 0  BY DEF Found, SelectInSeq
<1>2. CASE I = {}  BY <1>1, <1>2
<1>3. CASE I # {}
  <2>1. PICK i \in 1..Len(registry) : registry[i].name = n  BY <1>3
  <2>2. I = {i}  BY <2>1 DEF NamesDiffer
  <2>3. Min(I) = i  BY <2>2 DEF Min
  <2> QED  BY <1>1, <1>3, <2>1, <2>3
<1> QED  BY <1>2, <1>3

\* Row i is written, the next one if i is 0.
RowPut(i, agentRow) == IF i = 0 THEN Append(registry, agentRow) ELSE [registry EXCEPT ![i] = agentRow]
RowOf(i) == IF i = 0 THEN Len(registry) + 1 ELSE i

\* A row is written that clashes with none: names still differ, and the other rows are kept.
LEMMA RowIsWritten ==
  ASSUME registry \in Seq(RegistryRow), NamesDiffer, NEW i \in 0..Len(registry), NEW agentRow \in RegistryRow,
         Clashes(i, agentRow.name, agentRow.slug) = {},
         registry' = RowPut(i, agentRow), NEW at, at = RowOf(i)
  PROVE  /\ registry' \in Seq(RegistryRow) /\ NamesDiffer' /\ at \in DOMAIN registry' /\ registry'[at] = agentRow
         /\ \A j \in DOMAIN registry : j \in DOMAIN registry' /\ (j # at => registry'[j] = registry[j])
         /\ \A j \in DOMAIN registry' : j # at => j \in DOMAIN registry /\ registry[j].name # agentRow.name
         /\ Len(registry') >= Len(registry)
<1>1. \A j \in DOMAIN registry : j # i => registry[j].name # agentRow.name  BY DEF Clashes
<1> USE DEF RowPut, RowOf
<1>2. CASE i = 0
  <2>1. /\ registry' \in Seq(RegistryRow) /\ Len(registry') = Len(registry) + 1 /\ registry'[at] = agentRow
        /\ \A j \in DOMAIN registry : registry'[j] = registry[j]
    BY <1>2
  <2>2. DOMAIN registry' = DOMAIN registry \cup {at} /\ at \notin DOMAIN registry  BY <1>2, <2>1
  <2>3. \A j \in DOMAIN registry : registry[j].name # agentRow.name  BY <1>1, <1>2
  <2>4. NamesDiffer'  BY <2>1, <2>2, <2>3 DEF NamesDiffer
  <2> QED  BY <2>1, <2>2, <2>3, <2>4, <1>2
<1>3. CASE i # 0
  <2>1. /\ registry' \in Seq(RegistryRow) /\ DOMAIN registry' = DOMAIN registry /\ registry'[at] = agentRow
        /\ Len(registry') = Len(registry) /\ at = i /\ i \in DOMAIN registry
        /\ \A j \in DOMAIN registry : j # at => registry'[j] = registry[j]
    BY <1>3
  <2>2. NamesDiffer'  BY <1>1, <2>1 DEF NamesDiffer
  <2> QED  BY <1>1, <2>1, <2>2
<1> QED  BY <1>2, <1>3

\* What a call is told when another writes a row, and may rename an agent by it.
Told(c, renames) == [c EXCEPT !.stale = TRUE, !.renamed = @ \/ renames]

\* What is known of a call while another writes a row.
LEMMA OthersHear ==
  ASSUME registry \in Seq(RegistryRow), registry' \in Seq(RegistryRow), NEW at \in DOMAIN registry', NEW agentRow \in RegistryRow,
         registry'[at] = agentRow, Len(registry') >= Len(registry),
         \A j \in DOMAIN registry : j \in DOMAIN registry' /\ (j # at => registry'[j] = registry[j]),
         NEW renames \in BOOLEAN, at \in DOMAIN registry /\ ~renames => registry[at].name = agentRow.name,
         NEW c \in CallRow, RegistryCallOK(c), NEW d, d = Told(c, renames),
         NEW k \in Callers, call'[k] = d
  PROVE  d \in CallRow /\ RegistryCallOK(call[k])'
<1>1. /\ d \in CallRow /\ d.at = c.at /\ d.row = c.row /\ d.name = c.name /\ d.slug = c.slug /\ d.left = c.left
      /\ d.wrote = c.wrote /\ d.stale /\ d.renamed = (c.renamed \/ renames) /\ d.clash = c.clash
  <2> DEFINE e == [at |-> c.at, row |-> c.row, name |-> c.name, slug |-> c.slug, left |-> c.left, wrote |-> c.wrote,
                   stale |-> TRUE, renamed |-> c.renamed \/ renames, clash |-> c.clash]
  <2>1. c = [at |-> c.at, row |-> c.row, name |-> c.name, slug |-> c.slug, left |-> c.left, wrote |-> c.wrote,
             stale |-> c.stale, renamed |-> c.renamed, clash |-> c.clash]
    BY DEF CallRow
  <2>2. d = e  BY <2>1 DEF Told
  <2>3. c.renamed \in BOOLEAN /\ (c.renamed \/ renames) \in BOOLEAN  BY DEF CallRow
  <2>4. e \in CallRow  BY <2>3 DEF CallRow
  <2> QED  BY <2>2, <2>4
<1>2. ASSUME NEW j \in DOMAIN registry, ~renames PROVE registry'[j].name = registry[j].name
  BY <1>2
<1>3. c.row \in 0..Len(registry')  BY DEF RegistryCallOK
<1>4. SyncOK(call[k])'
  <2>1. \A i \in DOMAIN c.wrote : c.wrote[i] \in DOMAIN registry /\ c.wrote[i] \in DOMAIN registry'
    BY DEF RegistryCallOK, SyncOK
  <2>2. InSync(d) <=> InSync(c)  BY <1>1 DEF InSync
  <2>3. InSync(c) => /\ Len(c.wrote) + Len(c.left) = Len(File)
                     /\ \A i \in DOMAIN c.left : c.left[i] = File[Len(c.wrote) + i]
    BY DEF RegistryCallOK, SyncOK
  <2>4. InSync(c) /\ ~d.renamed => \A i \in DOMAIN c.wrote : registry'[c.wrote[i]].name = File[i]
    BY <1>1, <1>2, <2>1 DEF RegistryCallOK, SyncOK, CallRow
  <2>5. (c.at \in {"look", "sync"} => c.left # <<>>) /\ (c.at = "done" => c.left = <<>>)
    BY DEF RegistryCallOK, SyncOK
  <2>6. \A i \in DOMAIN d.wrote : d.wrote[i] \in DOMAIN registry'  BY <1>1, <2>1
  <2>7. (d.at \in {"look", "sync"} => d.left # <<>>) /\ (d.at = "done" => d.left = <<>>)  BY <1>1, <2>5
  <2>8. InSync(d) => /\ Len(d.wrote) + Len(d.left) = Len(File)
                     /\ \A i \in DOMAIN d.left : d.left[i] = File[Len(d.wrote) + i]
                     /\ ~d.renamed => \A i \in DOMAIN d.wrote : registry'[d.wrote[i]].name = File[i]
    <3> SUFFICES ASSUME InSync(d)
                 PROVE  /\ Len(d.wrote) + Len(d.left) = Len(File)
                        /\ \A i \in DOMAIN d.left : d.left[i] = File[Len(d.wrote) + i]
                        /\ ~d.renamed => \A i \in DOMAIN d.wrote : registry'[d.wrote[i]].name = File[i]
      OBVIOUS
    <3>1. d.wrote = c.wrote /\ d.left = c.left /\ InSync(c)  BY <1>1, <2>2
    <3>2. /\ Len(d.wrote) + Len(d.left) = Len(File)
          /\ \A i \in DOMAIN d.left : d.left[i] = File[Len(d.wrote) + i]
      BY <3>1, <2>3
    <3>3. ~d.renamed => \A i \in DOMAIN d.wrote : registry'[d.wrote[i]].name = File[i]  BY <3>1, <2>4
    <3> QED  BY <3>2, <3>3
  <2> QED  BY <2>6, <2>7, <2>8 DEF SyncOK
<1>5. d.at = "sync" => FoundOK(call[k])'
  <2>1. SUFFICES ASSUME c.at = "sync", d.row # 0, ~d.renamed PROVE registry'[d.row].name = d.name
    BY <1>1 DEF FoundOK, RegistryCallOK
  <2>2. c.row \in DOMAIN registry /\ ~renames /\ ~c.renamed  BY <1>1, <2>1 DEF RegistryCallOK, CallRow
  <2>3. registry[c.row].name = c.name  BY <2>1, <2>2, <1>1 DEF RegistryCallOK, FoundOK
  <2> QED  BY <1>1, <1>2, <2>2, <2>3
<1> QED  BY <1>1, <1>3, <1>4, <1>5 DEF RegistryCallOK

\* A caller that only moves on, and changes nothing of what is known of it.
LEMMA CallMovesOn ==
  ASSUME RegistryAssumption, RegistryInv, NEW k \in Callers, NEW d \in CallRow, call' = [call EXCEPT ![k] = d],
         registry' \in Seq(RegistryRow), Len(registry') = Len(registry),
         \A i \in DOMAIN registry : registry'[i].name = registry[i].name,
         RegistryCallOK(d), calls' \in 0..MaxCalls, registryFaults' \in 0..MaxRegistryFaults
  PROVE  RegistryInv'
<1>1. call' \in [Callers -> CallRow] /\ call'[k] = d /\ \A j \in Callers \ {k} : call'[j] = call[j]
  BY DEF RegistryInv
<1>2. registry \in Seq(RegistryRow) /\ DOMAIN registry' = DOMAIN registry  BY DEF RegistryInv
<1>3. NamesDiffer'  BY <1>2 DEF RegistryInv, NamesDiffer
<1>4. ASSUME NEW j \in Callers, NEW c, c = call'[j], c \in CallRow, RegistryCallOK(c) PROVE RegistryCallOK(call[j])'
  <2>1. SyncOK(call[j])'
    <3>1. \A i \in DOMAIN c.wrote : c.wrote[i] \in DOMAIN registry /\ registry'[c.wrote[i]].name = registry[c.wrote[i]].name
      BY <1>4 DEF RegistryCallOK, SyncOK
    <3>2. \A i \in DOMAIN c.wrote : c.wrote[i] \in DOMAIN registry'  BY <1>2, <3>1
    <3>3. InSync(c) /\ ~c.renamed => \A i \in DOMAIN c.wrote : registry'[c.wrote[i]].name = File[i]
      BY <1>4, <3>1 DEF RegistryCallOK, SyncOK
    <3>4. /\ c.at \in {"look", "sync"} => c.left # <<>>
          /\ c.at = "done" => c.left = <<>>
          /\ InSync(c) => /\ Len(c.wrote) + Len(c.left) = Len(File)
                          /\ \A i \in DOMAIN c.left : c.left[i] = File[Len(c.wrote) + i]
      BY <1>4 DEF RegistryCallOK, SyncOK
    <3> HIDE DEF InSync
    <3> QED  BY <1>4, <3>2, <3>3, <3>4 DEF SyncOK
  <2>2. c.at = "sync" => FoundOK(call[j])'
    <3>1. c.row # 0 => c.row \in DOMAIN registry  BY <1>2, <1>4 DEF RegistryCallOK
    <3> QED  BY <1>2, <1>4, <3>1 DEF RegistryCallOK, FoundOK
  <2> QED  BY <1>4, <2>1, <2>2 DEF RegistryCallOK
<1>5. ASSUME NEW j \in Callers PROVE RegistryCallOK(call[j])'
  <2>1. call'[j] \in CallRow /\ (call'[j] = d \/ call'[j] = call[j])  BY <1>1
  <2>2. RegistryCallOK(call[j])  BY DEF RegistryInv
  <2> QED  BY <1>4, <2>1, <2>2
<1> QED  BY <1>1, <1>3, <1>5 DEF RegistryInv

\* A caller writes a row, or the database refuses it.
LEMMA RowSteps ==
  ASSUME RegistryAssumption, RegistryInv, NEW k \in Callers, NEW i \in 0..Len(registry), NEW agentRow \in RegistryRow,
         NEW step \in CallRow, WriteRow(k, i, agentRow, step), call[k].at \in {"register", "update", "sync"},
         Clashes(i, agentRow.name, agentRow.slug) = {} /\ call'[k] = step /\ RegistryInv => RegistryCallOK(call[k])',
         call[k].at = "sync" => call[k].row = i /\ call[k].name = agentRow.name
  PROVE  RegistryInv'
<1> DEFINE c == call[k]
           at == RowOf(i)
           renames == i # 0 /\ registry[i].name # agentRow.name
<1>0. registry \in Seq(RegistryRow) /\ NamesDiffer /\ c \in CallRow /\ RegistryCallOK(c) /\ call \in [Callers -> CallRow]
      /\ calls' \in 0..MaxCalls /\ registryFaults' \in 0..MaxRegistryFaults
  <2>1. UNCHANGED <<calls, registryFaults>>  BY Zenon DEF WriteRow
  <2> QED  BY <2>1 DEF RegistryInv
<1>1. CASE Clashes(i, agentRow.name, agentRow.slug) # {}
  <2>1. PICK n \in Clashes(i, agentRow.name, agentRow.slug) : call' = [call EXCEPT ![k].at = "failed", ![k].clash = n]
    BY <1>1 DEF WriteRow
  <2>2. registry' = registry  BY <1>1 DEF WriteRow
  <2>3. PICK j \in DOMAIN registry : j # i /\ n = registry[j].name  BY <2>1 DEF Clashes
  <2>4. n \in Names
    <3>1. registry[j] \in RegistryRow  BY <1>0, <2>3
    <3> QED  BY <2>3, <3>1 DEF RegistryRow
  <2> DEFINE d == [at |-> "failed", row |-> c.row, name |-> c.name, slug |-> c.slug, left |-> c.left, wrote |-> c.wrote,
                   stale |-> c.stale, renamed |-> c.renamed, clash |-> n]
  <2>5. d \in CallRow  BY <1>0, <2>4 DEF CallRow, CallPlaces
  <2>6. call' = [call EXCEPT ![k] = d]
    <3> DEFINE r1 == [at |-> "failed", row |-> c.row, name |-> c.name, slug |-> c.slug, left |-> c.left, wrote |-> c.wrote,
                   stale |-> c.stale, renamed |-> c.renamed, clash |-> c.clash]
    <3>1. [c EXCEPT !.at = "failed"] = r1
      <4>1. c \in CallRow  BY <1>0
      <4> HIDE DEF c
      <4>2. c = [at |-> c.at, row |-> c.row, name |-> c.name, slug |-> c.slug, left |-> c.left, wrote |-> c.wrote,
                 stale |-> c.stale, renamed |-> c.renamed, clash |-> c.clash]
        BY <4>1 DEF CallRow
      <4> QED  BY <4>2
    <3>2. [r1 EXCEPT !.clash = n] = d  OBVIOUS
    <3>3. call' = [call EXCEPT ![k] = [[c EXCEPT !.at = "failed"] EXCEPT !.clash = n]]  BY <1>0, <2>1
    <3> HIDE DEF r1, d
    <3> QED  BY <3>1, <3>2, <3>3
  <2>7. d.left # <<>> => n # c.name \/ c.stale
    <3>1. SUFFICES ASSUME c.left # <<>>, ~c.stale PROVE n # c.name  OBVIOUS
    <3>2. c.at = "sync"  BY <1>0, <3>1 DEF RegistryCallOK
    <3>3. FoundOK(c) /\ c.row = i  BY <1>0, <3>2 DEF RegistryCallOK
    <3>4. CASE i = 0  BY <2>3, <3>1, <3>3, <3>4 DEF FoundOK
    <3>5. CASE i # 0
      <4>1. i \in DOMAIN registry /\ registry[i].name = c.name  BY <1>0, <3>1, <3>3, <3>5 DEF FoundOK
      <4> QED  BY <1>0, <2>3, <4>1 DEF NamesDiffer
    <3> QED  BY <3>4, <3>5
  <2>8. /\ d.at = "failed" /\ d.row = c.row /\ d.left = c.left /\ d.wrote = c.wrote /\ d.clash = n /\ d.name = c.name
        /\ d.stale = c.stale
    OBVIOUS
  <2> HIDE DEF d
  <2>9. RegistryCallOK(d)  BY <1>0, <2>7, <2>8 DEF RegistryCallOK, SyncOK, InSync
  <2> QED  BY <1>0, <2>2, <2>5, <2>6, <2>9, CallMovesOn
<1>2. CASE Clashes(i, agentRow.name, agentRow.slug) = {}
  <2>1. /\ registry' = IF i = 0 THEN Append(registry, agentRow) ELSE [registry EXCEPT ![i] = agentRow]
        /\ call' = [j \in Callers |-> IF j = k THEN step
                                      ELSE Told(call[j], renames)]
    BY <1>2, Zenon DEF WriteRow, Told
  <2>2. /\ registry' \in Seq(RegistryRow) /\ NamesDiffer' /\ at \in DOMAIN registry' /\ registry'[at] = agentRow
        /\ \A j \in DOMAIN registry : j \in DOMAIN registry' /\ (j # at => registry'[j] = registry[j])
        /\ Len(registry') >= Len(registry)
    <3>1. registry' = RowPut(i, agentRow)  BY <2>1 DEF RowPut
    <3> HIDE DEF renames
    <3> QED  BY <1>0, <1>2, <3>1, RowIsWritten
  <2>3. at \in DOMAIN registry /\ ~renames => registry[at].name = agentRow.name
    BY <1>0 DEF RowOf
  <2>4. renames \in BOOLEAN /\ at \in DOMAIN registry'  BY <2>2
  <2> HIDE DEF at, renames
  <2>5. ASSUME NEW j \in Callers \ {k} PROVE call'[j] \in CallRow /\ RegistryCallOK(call[j])'
    <3>1. call'[j] = Told(call[j], renames)  BY <2>1
    <3>2. call[j] \in CallRow /\ RegistryCallOK(call[j])  BY DEF RegistryInv
    <3> QED  BY <1>0, <2>2, <2>3, <2>4, <3>1, <3>2, OthersHear
  <2>6. call'[k] = step  BY <2>1
  <2>7. call' \in [Callers -> CallRow]
    <3>1. \A j \in Callers : call'[j] \in CallRow  BY <2>5, <2>6
    <3>2. call' = [j \in Callers |-> call'[j]]  BY <2>1
    <3> QED  BY <3>1, <3>2
  <2>8. RegistryCallOK(call[k])'  BY <1>2, <2>6
  <2> QED  BY <1>0, <2>2, <2>5, <2>7, <2>8 DEF RegistryInv
<1> QED  BY <1>1, <1>2

----------------------------------------------------------------------------
\* A row of a caller that is served no more, or has done nothing yet.
LEMMA UncalledFits == Uncalled \in CallRow /\ (registry \in Seq(RegistryRow) => RegistryCallOK(Uncalled))
<1>1. Uncalled \in CallRow  BY DEF Uncalled, CallRow, CallPlaces
<1>2. registry \in Seq(RegistryRow) => RegistryCallOK(Uncalled)
  BY DEF Uncalled, RegistryCallOK, SyncOK, InSync
<1> QED  BY <1>1, <1>2

\* A record of a call.
CallIs(at, agentRow, n, slug, left, wrote, stale, renamed, clash) ==
  [at |-> at, row |-> agentRow, name |-> n, slug |-> slug, left |-> left, wrote |-> wrote,
   stale |-> stale, renamed |-> renamed, clash |-> clash]

\* A caller that has just begun.
Begun(at, agentRow, n, slug, left) == CallIs(at, agentRow, n, slug, left, <<>>, FALSE, FALSE, NoName)

\* ... as the actions write it.
Finds(at, agentRow, n, slug) == [Uncalled EXCEPT !.at = at, !.row = agentRow, !.name = n, !.slug = slug]

LEMMA BegunIs ==
  ASSUME NEW at, NEW agentRow, NEW n, NEW slug
  PROVE  /\ [Uncalled EXCEPT !.at = at, !.name = n, !.slug = slug] = Begun(at, 0, n, slug, <<>>)
         /\ Finds(at, agentRow, n, slug) = Begun(at, agentRow, n, slug, <<>>)
         /\ [Uncalled EXCEPT !.at = at, !.left = File] = Begun(at, 0, NoName, NoName, File)
<1> DEFINE u == Uncalled
           a == [u EXCEPT !.at = at]  an == [a EXCEPT !.name = n]
           ar == [a EXCEPT !.row = agentRow]  arn == [ar EXCEPT !.name = n]
<1>1. PICK f : f = FALSE  BY Zenon
<1>2. u = CallIs("idle", 0, NoName, NoName, <<>>, <<>>, f, f, NoName)  BY <1>1, Zenon DEF Uncalled, CallIs
<1>3. a = CallIs(at, 0, NoName, NoName, <<>>, <<>>, f, f, NoName)
  <2> HIDE DEF u
  <2> QED  BY <1>2 DEF CallIs
<1>4. /\ an = CallIs(at, 0, n, NoName, <<>>, <<>>, f, f, NoName)
      /\ ar = CallIs(at, agentRow, NoName, NoName, <<>>, <<>>, f, f, NoName)
      /\ [a EXCEPT !.left = File] = CallIs(at, 0, NoName, NoName, File, <<>>, f, f, NoName)
  <2> HIDE DEF a
  <2> QED  BY <1>3 DEF CallIs
<1>5. [an EXCEPT !.slug = slug] = CallIs(at, 0, n, slug, <<>>, <<>>, f, f, NoName)
  <2> HIDE DEF an
  <2> QED  BY <1>4 DEF CallIs
<1>6. arn = CallIs(at, agentRow, n, NoName, <<>>, <<>>, f, f, NoName)
  <2> HIDE DEF ar
  <2> QED  BY <1>4 DEF CallIs
<1>7. [arn EXCEPT !.slug = slug] = CallIs(at, agentRow, n, slug, <<>>, <<>>, f, f, NoName)
  <2> HIDE DEF arn
  <2> QED  BY <1>6 DEF CallIs
<1>8. Finds(at, agentRow, n, slug) = Begun(at, agentRow, n, slug, <<>>)  BY <1>1, <1>7, Zenon DEF Begun, Finds
<1> QED  BY <1>1, <1>4, <1>5, <1>8, Zenon DEF Begun

LEMMA FindsIs == \A at, agentRow, n, slug : Finds(at, agentRow, n, slug) = Begun(at, agentRow, n, slug, <<>>)
<1> SUFFICES ASSUME NEW at, NEW agentRow, NEW n, NEW slug PROVE Finds(at, agentRow, n, slug) = Begun(at, agentRow, n, slug, <<>>)
  OBVIOUS
<1> HIDE DEF Finds, Begun
<1> QED  BY BegunIs, Zenon

\* A caller begins.
LEMMA CallBegins ==
  ASSUME RegistryAssumption, RegistryInv, NEW k \in Callers, NEW d \in CallRow, Begin(k, d), RegistryCallOK(d)
  PROVE  RegistryInv'
<1>1. registry' = registry /\ registryFaults' = registryFaults /\ calls' = calls + 1 /\ calls < MaxCalls
      /\ call' = [call EXCEPT ![k] = d]
  BY DEF Begin
<1>2. calls' \in 0..MaxCalls /\ registryFaults' \in 0..MaxRegistryFaults /\ registry' \in Seq(RegistryRow)
  BY <1>1 DEF RegistryInv, RegistryAssumption
<1> QED  BY <1>1, <1>2, CallMovesOn

\* A call of the portal begins, or a sync.
LEMMA CallBeginSteps ==
  ASSUME RegistryAssumption, RegistryInv, NEW k \in Callers,
         \/ \E n \in Names, slug \in Slugs : BeginRegister(k, n, slug)
         \/ \E i \in DOMAIN registry : \/ FindRow(k, i, "archive", NoName, NoName)
                                       \/ \E n \in Names \cup {NoName}, slug \in Slugs \cup {NoName} :
                                            FindRow(k, i, "update", n, slug)
         \/ ReadFile(k)
  PROVE  RegistryInv'
<1>0. registry \in Seq(RegistryRow)  BY DEF RegistryInv
<1>1. ASSUME NEW n \in Names, NEW slug \in Slugs, BeginRegister(k, n, slug) PROVE RegistryInv'
  <2> DEFINE d == Begun("register", 0, n, slug, <<>>)
  <2>1. d = [Uncalled EXCEPT !.at = "register", !.name = n, !.slug = slug]  BY BegunIs, Zenon
  <2>2. d \in CallRow  BY DEF Begun, CallIs, CallRow, CallPlaces
  <2>3. RegistryCallOK(d)  BY <1>0 DEF Begun, CallIs, RegistryCallOK, SyncOK, InSync
  <2>4. Begin(k, d)  BY <1>1, <2>1, Zenon DEF BeginRegister
  <2> HIDE DEF d
  <2> QED  BY <2>2, <2>3, <2>4, CallBegins
<1>2. ASSUME NEW i \in DOMAIN registry, NEW at \in {"update", "archive"}, NEW n \in Names \cup {NoName},
             NEW slug \in Slugs \cup {NoName}, FindRow(k, i, at, n, slug)
      PROVE RegistryInv'
  <2> DEFINE d == Finds(at, i, n, slug)
  <2>1. d = Begun(at, i, n, slug, <<>>)  BY FindsIs
  <2>2. i \in Nat /\ i # 0 /\ i \in 0..Len(registry)  BY <1>0
  <2>3. Begun(at, i, n, slug, <<>>) \in CallRow  BY <2>2 DEF Begun, CallIs, CallRow, CallPlaces
  <2>4. RegistryCallOK(Begun(at, i, n, slug, <<>>))
    BY <1>0, <2>2 DEF Begun, CallIs, RegistryCallOK, SyncOK, InSync
  <2>5. Begin(k, d)  BY <1>2, Zenon DEF FindRow, Finds
  <2> HIDE DEF d
  <2> QED  BY <2>1, <2>3, <2>4, <2>5, CallBegins
<1>3. CASE ReadFile(k)
  <2> DEFINE d == Begun("look", 0, NoName, NoName, File)
  <2>1. d = [Uncalled EXCEPT !.at = "look", !.left = File]  BY BegunIs, Zenon
  <2>2. d \in CallRow  BY DEF Begun, CallIs, CallRow, CallPlaces, RegistryAssumption
  <2>3. RegistryCallOK(d)
    <3>1. Len(File) \in Nat /\ File # <<>> /\ \A i \in DOMAIN File : File[i] = File[0 + i]
      BY DEF RegistryAssumption
    <3> QED  BY <1>0, <3>1 DEF Begun, CallIs, RegistryCallOK, SyncOK, InSync
  <2>4. Begin(k, d)  BY <1>3, <2>1, Zenon DEF ReadFile
  <2> HIDE DEF d
  <2> QED  BY <2>2, <2>3, <2>4, CallBegins
<1> QED  BY <1>1, <1>2, <1>3

\* The portal's writes.
LEMMA PortalWrites ==
  ASSUME RegistryAssumption, RegistryInv, NEW k \in Callers, Register(k) \/ Update(k) \/ Archive(k)
  PROVE  RegistryInv'
<1> DEFINE c == call[k]
           d == [at |-> "done", row |-> c.row, name |-> c.name, slug |-> c.slug, left |-> c.left, wrote |-> c.wrote,
                 stale |-> c.stale, renamed |-> c.renamed, clash |-> c.clash]
<1>0. registry \in Seq(RegistryRow) /\ c \in CallRow /\ RegistryCallOK(c) /\ call \in [Callers -> CallRow]
  BY DEF RegistryInv
<1>1. d = [c EXCEPT !.at = "done"]
  <2>1. c = [at |-> c.at, row |-> c.row, name |-> c.name, slug |-> c.slug, left |-> c.left, wrote |-> c.wrote,
             stale |-> c.stale, renamed |-> c.renamed, clash |-> c.clash]
    BY <1>0 DEF CallRow
  <2> QED  BY <2>1
<1>2. d \in CallRow  BY <1>0 DEF CallRow, CallPlaces
<1>3. d.at = "done" /\ d.row = c.row /\ d.left = c.left /\ d.wrote = c.wrote  OBVIOUS
<1> HIDE DEF d
<1>4. ASSUME c.at \in {"register", "update"}, call'[k] = d, c.row \in 0..Len(registry)' PROVE RegistryCallOK(call[k])'
  <2>1. c.left = <<>> /\ c.wrote = <<>>  BY <1>0, <1>4 DEF RegistryCallOK
  <2>2. /\ call'[k].left = <<>> /\ call'[k].wrote = <<>> /\ call'[k].at = "done"
        /\ call'[k].row \in 0..Len(registry)'
    BY <1>3, <1>4, <2>1
  <2>3. SyncOK(call[k])'  BY <2>2 DEF SyncOK, InSync
  <2> QED  BY <2>2, <2>3 DEF RegistryCallOK
<1>5. ASSUME NEW i \in 0..Len(registry), NEW agentRow \in RegistryRow, WriteRow(k, i, agentRow, d), c.at \in {"register", "update"}
      PROVE RegistryInv'
  <2>1. ASSUME Clashes(i, agentRow.name, agentRow.slug) = {}, call'[k] = d PROVE RegistryCallOK(call[k])'
    <3>1. registry' = RowPut(i, agentRow)  BY <1>5, <2>1, Zenon DEF WriteRow, RowPut
    <3>2. Len(registry') >= Len(registry) /\ registry' \in Seq(RegistryRow)
      BY <1>0, <2>1, <3>1, RowIsWritten DEF RegistryInv
    <3>3. c.row \in 0..Len(registry')  BY <1>0, <3>2 DEF RegistryCallOK
    <3> QED  BY <1>4, <1>5, <2>1, <3>3
  <2> QED  BY <1>0, <1>2, <1>5, <2>1, RowSteps
<1>6. CASE Register(k)
  <2> DEFINE agentRow == [name |-> c.name, slug |-> c.slug, status |-> "ACTIVE"]
  <2>1. c.at = "register" /\ WriteRow(k, 0, agentRow, d)  BY <1>1, <1>6 DEF Register, CallAt
  <2>2. agentRow \in RegistryRow  BY <1>0, <2>1 DEF RegistryRow, RegistryCallOK
  <2>3. 0 \in 0..Len(registry)  BY <1>0
  <2> HIDE DEF agentRow
  <2> QED  BY <1>5, <2>1, <2>2, <2>3
<1>7. CASE Update(k)
  <2> DEFINE r == registry[c.row]
             agentRow == [r EXCEPT !.name = IF c.name = NoName THEN @ ELSE c.name,
                              !.slug = IF c.slug = NoName THEN @ ELSE c.slug]
  <2>1. c.at = "update" /\ WriteRow(k, c.row, agentRow, d)  BY <1>1, <1>7 DEF Update, CallAt
  <2>2. c.row \in 1..Len(registry) /\ r \in RegistryRow  BY <1>0, <2>1 DEF RegistryCallOK
  <2>3. agentRow \in RegistryRow
    <3> DEFINE n == IF c.name = NoName THEN r.name ELSE c.name
               sl == IF c.slug = NoName THEN r.slug ELSE c.slug
    <3>1. n \in Names  BY <1>0, <2>2 DEF CallRow, RegistryRow
    <3>2. sl \in Slugs  BY <1>0, <2>2 DEF CallRow, RegistryRow
    <3>3. agentRow = [[r EXCEPT !.name = n] EXCEPT !.slug = sl]  BY <2>2 DEF RegistryRow
    <3>4. [r EXCEPT !.name = n] \in RegistryRow
      <4> HIDE DEF n
      <4> QED  BY <2>2, <3>1 DEF RegistryRow
    <3> DEFINE s1 == [r EXCEPT !.name = n]
    <3>5. [s1 EXCEPT !.slug = sl] \in RegistryRow
      <4> HIDE DEF sl, s1
      <4> QED  BY <3>2, <3>4 DEF RegistryRow, s1
    <3> QED  BY <3>3, <3>5
  <2> HIDE DEF agentRow
  <2> QED  BY <1>5, <2>1, <2>2, <2>3
<1>8. CASE Archive(k)
  <2>1. /\ c.at = "archive" /\ registry' = [registry EXCEPT ![c.row].status = "ARCHIVED"]
        /\ call' = [call EXCEPT ![k] = d] /\ UNCHANGED <<calls, registryFaults>>
    BY <1>0, <1>1, <1>8 DEF Archive, CallAt, CallTo
  <2>2. c.row \in DOMAIN registry /\ c.left = <<>> /\ c.wrote = <<>>  BY <1>0, <2>1 DEF RegistryCallOK
  <2> DEFINE r == registry[c.row]  new == [r EXCEPT !.status = "ARCHIVED"]
  <2>3. r \in RegistryRow  BY <1>0, <2>2
  <2>4. new \in RegistryRow /\ new.name = r.name
    <3> HIDE DEF r
    <3> QED  BY <2>3 DEF RegistryRow
  <2>5. registry' = [registry EXCEPT ![c.row] = new]  BY <2>1
  <2> HIDE DEF new
  <2>6. registry' \in Seq(RegistryRow) /\ Len(registry') = Len(registry)
        /\ \A i \in DOMAIN registry : registry'[i].name = registry[i].name
    BY <1>0, <2>2, <2>4, <2>5
  <2>7. RegistryCallOK(d)  BY <1>0, <1>3, <2>2 DEF RegistryCallOK, SyncOK, InSync
  <2>8. calls' \in 0..MaxCalls /\ registryFaults' \in 0..MaxRegistryFaults  BY <2>1 DEF RegistryInv
  <2> QED  BY <1>2, <2>1, <2>6, <2>7, <2>8, CallMovesOn
<1> QED  BY <1>6, <1>7, <1>8

----------------------------------------------------------------------------
\* The sync looks a name up.
LEMMA LookUpStep == ASSUME RegistryAssumption, RegistryInv, NEW k \in Callers, LookUp(k) PROVE RegistryInv'
<1> DEFINE c == call[k]
           n == Head(c.left)
<1>0. registry \in Seq(RegistryRow) /\ NamesDiffer /\ c \in CallRow /\ RegistryCallOK(c) /\ call \in [Callers -> CallRow]
      /\ calls \in 0..MaxCalls /\ registryFaults \in 0..MaxRegistryFaults
  BY DEF RegistryInv
<1>1. PICK f \in BOOLEAN : f = FALSE  BY Zenon
<1> DEFINE d == CallIs("sync", Found(n), n, c.slug, c.left, c.wrote, f, c.renamed, c.clash)
<1>2. c.at = "look" /\ UNCHANGED <<registry, calls, registryFaults>>  BY Zenon DEF LookUp, CallAt
<1>3. c.left \in Seq(Names) /\ c.left # <<>> /\ n \in Names  BY <1>0, <1>2 DEF CallRow, RegistryCallOK, SyncOK
<1>4. /\ Found(n) \in 0..Len(registry)
      /\ Found(n) # 0 => registry[Found(n)].name = n
      /\ Found(n) = 0 => \A i \in DOMAIN registry : registry[i].name # n
  <2> HIDE DEF n
  <2> QED  BY <1>0, <1>3, FoundIsRow
<1>5. call' = [call EXCEPT ![k] = d]
  <2> DEFINE e == [c EXCEPT !.at = "sync"]  en == [e EXCEPT !.name = n]  er == [en EXCEPT !.row = Found(n)]
             es == [er EXCEPT !.stale = f]
  <2>1. call' = [call EXCEPT ![k] = es]
    <3>1. call' = [call EXCEPT ![k].at = "sync", ![k].name = n, ![k].row = Found(n), ![k].stale = f]
      BY <1>1, Zenon DEF LookUp
    <3> HIDE DEF n
    <3> QED  BY <1>0, <3>1
  <2>2. c = CallIs(c.at, c.row, c.name, c.slug, c.left, c.wrote, c.stale, c.renamed, c.clash)
    BY <1>0 DEF CallRow, CallIs
  <2> HIDE DEF n
  <2>3. e = CallIs("sync", c.row, c.name, c.slug, c.left, c.wrote, c.stale, c.renamed, c.clash)
    <3> HIDE DEF c
    <3> QED  BY <2>2 DEF CallIs
  <2>4. en = CallIs("sync", c.row, n, c.slug, c.left, c.wrote, c.stale, c.renamed, c.clash)
    <3> HIDE DEF c, e
    <3> QED  BY <2>3 DEF CallIs
  <2>5. er = CallIs("sync", Found(n), n, c.slug, c.left, c.wrote, c.stale, c.renamed, c.clash)
    <3> HIDE DEF c, en
    <3> QED  BY <2>4 DEF CallIs
  <2>6. es = d
    <3> HIDE DEF c, er
    <3> QED  BY <2>5 DEF CallIs
  <2> HIDE DEF d, es
  <2> QED  BY <2>1, <2>6
<1> HIDE DEF n
<1>6. d \in CallRow
  <2>1. Found(n) \in Nat  BY <1>0, <1>4
  <2> QED  BY <1>0, <1>1, <1>3, <2>1 DEF CallIs, CallRow, CallPlaces
<1>7. /\ d.at = "sync" /\ d.row = Found(n) /\ d.name = n /\ d.left = c.left /\ d.wrote = c.wrote
      /\ d.stale = f /\ d.renamed = c.renamed
  BY DEF CallIs
<1> HIDE DEF d
<1>8. SyncOK(d)
  <2>1. InSync(c)  BY <1>2 DEF InSync
  <2> QED  BY <1>0, <1>3, <1>7, <2>1 DEF RegistryCallOK, SyncOK
<1>9. FoundOK(d)  BY <1>1, <1>4, <1>7 DEF FoundOK, n
<1>10. RegistryCallOK(d)  BY <1>4, <1>7, <1>8, <1>9 DEF RegistryCallOK
<1> QED  BY <1>0, <1>2, <1>5, <1>6, <1>10, CallMovesOn

\* The sync writes the row of the name, which it found, or a new one.
LEMMA SyncAgentStep == ASSUME RegistryAssumption, RegistryInv, NEW k \in Callers, SyncAgent(k) PROVE RegistryInv'
<1> DEFINE c == call[k]
           at == RowOf(c.row)
           place == IF Len(c.left) = 1 THEN "done" ELSE "look"
           agentRow == [name |-> c.name, slug |-> SlugOf[c.name], status |-> "ACTIVE"]
           step == CallIs(place, c.row, c.name, c.slug, Tail(c.left), Append(c.wrote, at), c.stale, c.renamed, c.clash)
<1>0. registry \in Seq(RegistryRow) /\ NamesDiffer /\ c \in CallRow /\ RegistryCallOK(c) /\ call \in [Callers -> CallRow]
  BY DEF RegistryInv
<1>1. c.at = "sync"  BY Zenon DEF SyncAgent, CallAt
<1>2. WriteRow(k, c.row, agentRow, step)
  <2> DEFINE l == Tail(c.left)  w == Append(c.wrote, at)
             e == [c EXCEPT !.left = l]  ew == [e EXCEPT !.wrote = w]  ea == [ew EXCEPT !.at = place]
  <2>1. c = CallIs(c.at, c.row, c.name, c.slug, c.left, c.wrote, c.stale, c.renamed, c.clash)
    BY <1>0 DEF CallRow, CallIs
  <2>2. WriteRow(k, c.row, agentRow, [c EXCEPT !.left = Tail(@), !.wrote = Append(@, at), !.at = place])
    BY Zenon DEF SyncAgent, RowOf
  <2>3. [c EXCEPT !.left = Tail(@), !.wrote = Append(@, at), !.at = place] = ea
    <3> HIDE DEF at, place
    <3> QED  BY <1>0 DEF CallRow
  <2> HIDE DEF place
  <2>4. e = CallIs(c.at, c.row, c.name, c.slug, l, c.wrote, c.stale, c.renamed, c.clash)
    <3> HIDE DEF c, l
    <3> QED  BY <2>1 DEF CallIs
  <2>5. ew = CallIs(c.at, c.row, c.name, c.slug, l, w, c.stale, c.renamed, c.clash)
    <3> HIDE DEF c, l, w, e
    <3> QED  BY <2>4 DEF CallIs
  <2>6. ea = CallIs(place, c.row, c.name, c.slug, l, w, c.stale, c.renamed, c.clash)
    <3> HIDE DEF c, ew, l, w
    <3> QED  BY <2>5 DEF CallIs
  <2>7. ea = step  BY <2>6
  <2> HIDE DEF step, ea
  <2> QED  BY <2>2, <2>3, <2>7
<1>3. /\ c.left \in Seq(Names) /\ c.wrote \in Seq(Nat) /\ c.left # <<>> /\ c.row \in 0..Len(registry)
      /\ InSync(c) /\ SyncOK(c) /\ FoundOK(c)
  BY <1>0, <1>1 DEF CallRow, RegistryCallOK, SyncOK, InSync
<1>4. c.name = c.left[1] /\ c.name \in Names /\ Len(c.left) \in Nat \ {0}  BY <1>3 DEF FoundOK
<1>5. agentRow \in RegistryRow /\ agentRow.name = c.name
  <2>1. SlugOf[c.name] \in Slugs  BY <1>4 DEF Slugs
  <2> QED  BY <1>4, <2>1 DEF RegistryRow
<1>6. at \in Nat  BY <1>0, <1>3 DEF RowOf
<1> HIDE DEF agentRow
<1>7. /\ step \in CallRow /\ step.at = place /\ step.row = c.row /\ step.left = Tail(c.left)
      /\ step.wrote = Append(c.wrote, at) /\ step.renamed = c.renamed
  <2>1. place \in CallPlaces  BY DEF CallPlaces
  <2>2. Tail(c.left) \in Seq(Names) /\ Append(c.wrote, at) \in Seq(Nat)
    <3> HIDE DEF at
    <3> QED  BY <1>3, <1>6
  <2> HIDE DEF at, place
  <2>3. step \in CallRow  BY <1>0, <2>1, <2>2 DEF CallIs, CallRow
  <2> QED  BY <2>3 DEF CallIs
<1> HIDE DEF step
<1>8. ASSUME Clashes(c.row, agentRow.name, agentRow.slug) = {}, call'[k] = step PROVE RegistryCallOK(call[k])'
  <2>1. registry' = RowPut(c.row, agentRow)  BY <1>2, <1>8, Zenon DEF WriteRow, RowPut
  <2>2. /\ registry' \in Seq(RegistryRow) /\ at \in DOMAIN registry' /\ registry'[at] = agentRow
        /\ \A j \in DOMAIN registry : j \in DOMAIN registry' /\ (j # at => registry'[j] = registry[j])
        /\ Len(registry') >= Len(registry)
    <3> HIDE DEF at
    <3> QED  BY <1>0, <1>3, <1>5, <1>8, <2>1, RowIsWritten DEF at
  <2>3. at \in DOMAIN registry /\ ~c.renamed => registry[at].name = c.name
    BY <1>0, <1>3 DEF RowOf, FoundOK
  <2> DEFINE w == Append(c.wrote, at)  l == Tail(c.left)  old == c.wrote  m == Len(old)  left == c.left  r == Len(left)
  <2> HIDE DEF at
  <2>4. /\ \A i \in DOMAIN old : old[i] \in DOMAIN registry
        /\ m + r = Len(File)
        /\ \A i \in DOMAIN left : left[i] = File[m + i]
        /\ ~c.renamed => \A i \in DOMAIN old : registry[old[i]].name = File[i]
    BY <1>3 DEF SyncOK
  <2>5. /\ old \in Seq(Nat) /\ left \in Seq(Names) /\ left # <<>> /\ c.name = left[1]
        /\ m \in Nat /\ DOMAIN old = 1..m /\ r \in Nat \ {0} /\ DOMAIN left = 1..r
    BY <1>3, <1>4
  <2> HIDE DEF old, left
  <2>6. /\ w \in Seq(Nat) /\ Len(w) = m + 1 /\ w[m + 1] = at /\ DOMAIN w = 1..(m + 1)
        /\ \A i \in 1..m : w[i] = old[i]
    BY <1>6, <2>5 DEF old
  <2>7. Len(l) = r - 1 /\ DOMAIN l = 1..(r - 1) /\ \A i \in DOMAIN l : l[i] = left[i + 1]
    BY <2>5 DEF left
  <2> HIDE DEF w, l, m, r
  <2>8. \A i \in DOMAIN w : w[i] \in DOMAIN registry'
    <3> TAKE i \in DOMAIN w
    <3>1. CASE i \in 1..m  BY <2>2, <2>4, <2>5, <2>6, <3>1
    <3>2. CASE i = m + 1  BY <2>2, <2>6, <3>2
    <3> QED  BY <2>5, <2>6, <3>1, <3>2
  <2>9. ~c.renamed => \A i \in DOMAIN w : registry'[w[i]].name = File[i]
    <3> SUFFICES ASSUME ~c.renamed, NEW i \in DOMAIN w PROVE registry'[w[i]].name = File[i]
      OBVIOUS
    <3>1. CASE i \in 1..m
      <4>1. w[i] = old[i] /\ old[i] \in DOMAIN registry /\ registry[old[i]].name = File[i]
        BY <2>4, <2>5, <2>6, <3>1
      <4> QED  BY <1>5, <2>2, <2>3, <4>1
    <3>2. CASE i = m + 1
      <4>0. \A j \in DOMAIN left : left[j] = File[m + j]  BY <2>4, Zenon
      <4>1. left[1] = File[m + 1]  BY <2>5, <4>0
      <4>2. w[i] = at /\ File[i] = c.name  BY <2>5, <2>6, <3>2, <4>1
      <4> QED  BY <1>5, <2>2, <4>2
    <3>3. i \in 1..m \/ i = m + 1  BY <2>5, <2>6
    <3> QED  BY <3>1, <3>2, <3>3
  <2>10. Len(w) + Len(l) = Len(File) /\ \A i \in DOMAIN l : l[i] = File[Len(w) + i]
    <3>0. m + r = Len(File)  BY <2>4, Zenon
    <3>1. Len(w) + Len(l) = Len(File)
      <4>1. Len(w) = m + 1 /\ Len(l) = r - 1 /\ m \in Nat /\ r \in Nat  BY <2>5, <2>6, <2>7, Zenon
      <4>2. (m + 1) + (r - 1) = m + r  BY <4>1
      <4> QED  BY <3>0, <4>1, <4>2, Zenon
    <3>2. ASSUME NEW i \in DOMAIN l PROVE l[i] = File[Len(w) + i]
      <4>1. i \in Nat /\ i + 1 \in DOMAIN left  BY <2>5, <2>7
      <4>2. l[i] = File[m + (i + 1)]  BY <2>4, <2>7, <4>1
      <4>3. m + (i + 1) = Len(w) + i  BY <2>5, <2>6, <4>1
      <4> QED  BY <4>2, <4>3
    <3> QED  BY <3>1, <3>2
  <2>11. (place = "done" => l = <<>>) /\ (place # "done" => l # <<>>) /\ place \in {"done", "look"}
    <3>0. l \in Seq(Names)  BY <2>5 DEF l, left
    <3>1. r = 1 => l = <<>>  BY <2>7, <3>0
    <3>2. r # 1 => l # <<>>  BY <2>5, <2>7
    <3>3. place = IF r = 1 THEN "done" ELSE "look"  BY DEF r, left
    <3> HIDE DEF place
    <3> QED  BY <3>1, <3>2, <3>3
  <2> HIDE DEF place
  <2>12. /\ call'[k].at = place /\ call'[k].row = c.row /\ call'[k].left = l /\ call'[k].wrote = w
         /\ call'[k].renamed = c.renamed
    BY <1>7, <1>8 DEF w, l
  <2>13. SyncOK(call[k])'  BY <2>8, <2>9, <2>10, <2>11, <2>12 DEF SyncOK
  <2>14. c.row \in 0..Len(registry')  BY <1>0, <1>3, <2>2
  <2> QED  BY <2>11, <2>12, <2>13, <2>14 DEF RegistryCallOK
<1> HIDE DEF at, place
<1> QED  BY <1>1, <1>2, <1>3, <1>5, <1>7, <1>8, RowSteps

\* A call fails, or is replied to.
LEMMA CallEnds ==
  ASSUME RegistryAssumption, RegistryInv, NEW k \in Callers, RegistryFault(k) \/ ReplyCall(k) PROVE RegistryInv'
<1> DEFINE c == call[k]
<1>0. registry \in Seq(RegistryRow) /\ c \in CallRow /\ RegistryCallOK(c) /\ call \in [Callers -> CallRow]
      /\ calls \in 0..MaxCalls /\ registryFaults \in 0..MaxRegistryFaults
  BY DEF RegistryInv
<1>1. CASE RegistryFault(k)
  <2> DEFINE d == CallIs("faulted", c.row, c.name, c.slug, c.left, c.wrote, c.stale, c.renamed, c.clash)
  <2>1. /\ UNCHANGED <<registry, calls>> /\ registryFaults' = registryFaults + 1 /\ registryFaults < MaxRegistryFaults
        /\ call' = [call EXCEPT ![k].at = "faulted"]
    BY <1>1 DEF RegistryFault, CallTo
  <2>2. call' = [call EXCEPT ![k] = d]
    <3>1. c = CallIs(c.at, c.row, c.name, c.slug, c.left, c.wrote, c.stale, c.renamed, c.clash)
      BY <1>0 DEF CallRow, CallIs
    <3>2. [c EXCEPT !.at = "faulted"] = d
      <4> HIDE DEF c
      <4> QED  BY <3>1 DEF CallIs
    <3>3. call' = [call EXCEPT ![k] = [c EXCEPT !.at = "faulted"]]  BY <1>0, <2>1
    <3> HIDE DEF d
    <3> QED  BY <3>2, <3>3
  <2>3. d \in CallRow  BY <1>0 DEF CallIs, CallRow, CallPlaces
  <2>4. d.at = "faulted" /\ d.row = c.row /\ d.left = c.left /\ d.wrote = c.wrote  BY DEF CallIs
  <2> HIDE DEF d
  <2>5. RegistryCallOK(d)  BY <1>0, <2>4 DEF RegistryCallOK, SyncOK, InSync
  <2>6. registryFaults' \in 0..MaxRegistryFaults  BY <1>0, <2>1 DEF RegistryAssumption
  <2> QED  BY <1>0, <2>1, <2>2, <2>3, <2>5, <2>6, CallMovesOn
<1>2. CASE ReplyCall(k)
  <2>1. call' = [call EXCEPT ![k] = Uncalled] /\ UNCHANGED <<registry, calls, registryFaults>>
    BY <1>2 DEF ReplyCall
  <2> QED  BY <1>0, <2>1, UncalledFits, CallMovesOn
<1> QED  BY <1>1, <1>2

----------------------------------------------------------------------------
\* No caller has begun, and there is one agent at most.
LEMMA RegistryStarts == ASSUME RegistryAssumption, InitRegistry PROVE RegistryInv
<1>1. registry \in Seq(RegistryRow) /\ NamesDiffer
  <2>1. CASE registry = <<>>  BY <2>1 DEF NamesDiffer
  <2>2. ASSUME NEW n \in Names, NEW s \in Names,
               registry = <<[name |-> n, slug |-> SlugOf[s], status |-> "ACTIVE"]>>
        PROVE  registry \in Seq(RegistryRow) /\ NamesDiffer
    <3> DEFINE r == [name |-> n, slug |-> SlugOf[s], status |-> "ACTIVE"]
    <3>1. SlugOf[s] \in Slugs  BY DEF Slugs
    <3>2. r \in RegistryRow  BY <3>1 DEF RegistryRow
    <3>3. registry = <<r>>  BY <2>2
    <3> HIDE DEF r
    <3> QED  BY <3>2, <3>3 DEF NamesDiffer
  <2> QED  BY <2>1, <2>2 DEF InitRegistry
<1>2. call = [k \in Callers |-> Uncalled] /\ calls = 0 /\ registryFaults = 0  BY Zenon DEF InitRegistry
<1>3. call \in [Callers -> CallRow] /\ \A k \in Callers : RegistryCallOK(call[k])
  BY <1>1, <1>2, UncalledFits
<1> QED  BY <1>1, <1>2, <1>3 DEF RegistryInv, RegistryAssumption

\* Every step keeps what is known.
LEMMA RegistryStep == ASSUME RegistryAssumption, RegistryInv, [NextRegistry]_registryVars PROVE RegistryInv'
<1>1. CASE UNCHANGED registryVars
  <2>1. registry' = registry /\ call' = call /\ calls' = calls /\ registryFaults' = registryFaults
    BY <1>1, Zenon DEF registryVars
  <2>2. ASSUME NEW k \in Callers, RegistryCallOK(call[k]) PROVE RegistryCallOK(call[k])'
    BY <2>1, <2>2, Zenon DEF RegistryCallOK, SyncOK, FoundOK
  <2> QED  BY <2>1, <2>2 DEF RegistryInv, NamesDiffer
<1>2. ASSUME NEW k \in Callers,
        \/ \E n \in Names, slug \in Slugs : BeginRegister(k, n, slug)
        \/ \E i \in DOMAIN registry :
             \/ FindRow(k, i, "archive", NoName, NoName)
             \/ \E n \in Names \cup {NoName}, slug \in Slugs \cup {NoName} : FindRow(k, i, "update", n, slug)
        \/ Register(k) \/ Update(k) \/ Archive(k) \/ ReadFile(k) \/ LookUp(k) \/ SyncAgent(k)
        \/ RegistryFault(k) \/ ReplyCall(k)
      PROVE RegistryInv'
  BY <1>2, CallBeginSteps, PortalWrites, LookUpStep, SyncAgentStep, CallEnds, Zenon
<1> QED  BY <1>1, <1>2, Zenon DEF NextRegistry

\* What is known of the registry holds in every reachable state.
LEMMA RegistryHolds == ASSUME RegistryAssumption PROVE SpecRegistry => []RegistryInv
<1>1. InitRegistry => RegistryInv  BY RegistryStarts
<1>2. RegistryInv /\ [NextRegistry]_registryVars => RegistryInv'  BY RegistryStep
<1> QED  BY <1>1, <1>2, PTL DEF SpecRegistry

\* The rows of the registry are rows, and calls are at rows of it (agent.service.ts:201-256).
THEOREM RegistryTypeCorrect == SpecRegistry => []RegistryTypeOK
<1>1. RegistryInv => RegistryTypeOK
  BY DEF RegistryInv, RegistryTypeOK, RegistryRow, CallRow, RegistryCallOK
<1> QED  BY <1>1, RegistryHolds, RegistryAssumption, PTL

\* For any configuration file and any callers: a sync that is done has written one row for each
\* agent of the file, and one row for two agents only when they have one name, unless somebody
\* renamed an agent meanwhile; it is refused a row only when another wrote since it looked, or
\* an agent of another name has the slug (agent.service.ts:201-256).
THEOREM AlwaysSyncsWriteOnce == SpecRegistry => []SyncsWriteOnce
<1>1. ASSUME RegistryInv PROVE SyncsWriteOnce
  <2> SUFFICES ASSUME NEW k \in Callers
               PROVE  LET c == call[k] IN
                      /\ CallAt(k, "done") /\ c.wrote # <<>> =>
                           /\ Len(c.wrote) = Len(File)
                           /\ c.renamed \/ \A i, j \in DOMAIN c.wrote : c.wrote[i] = c.wrote[j] => File[i] = File[j]
                      /\ CallAt(k, "failed") /\ c.left # <<>> => c.clash # c.name \/ c.stale
    BY DEF SyncsWriteOnce
  <2> DEFINE c == call[k]
  <2>1. RegistryCallOK(c) /\ c \in CallRow  BY <1>1 DEF RegistryInv
  <2>2. CallAt(k, "done") /\ c.wrote # <<>> => InSync(c) /\ c.left = <<>>
    BY <2>1 DEF CallAt, InSync, RegistryCallOK, SyncOK
  <2>3. InSync(c) /\ c.left = <<>> => Len(c.wrote) = Len(File)
    BY <2>1 DEF RegistryCallOK, SyncOK, CallRow
  <2>4. InSync(c) /\ ~c.renamed =>
          \A i, j \in DOMAIN c.wrote : c.wrote[i] = c.wrote[j] => File[i] = File[j]
    BY <2>1 DEF RegistryCallOK, SyncOK
  <2>5. CallAt(k, "failed") /\ c.left # <<>> => c.clash # c.name \/ c.stale  BY <2>1 DEF CallAt, RegistryCallOK
  <2> QED  BY <2>2, <2>3, <2>4, <2>5
<1> QED  BY <1>1, RegistryHolds, RegistryAssumption, PTL

----------------------------------------------------------------------------
(***************************************************************************)
(* Proofs about the stream of events of a trace, for any number of         *)
(* requests, events and polls and any clock: it shows no event twice and   *)
(* passes none.  StreamShowsOnce says nothing of an answer of the database *)
(* that is not handled yet.  InOrder adds what is known of it: it has      *)
(* every event the stream has still to show, but those that were stored    *)
(* after it was asked.                                                     *)
(***************************************************************************)

EntryStages == {"idle", "stamp", "store", "count", "posted", "refused"}
EntryRow == [at : EntryStages, in : Sessions \cup {NoSession}, tokens : Nat, ends : BOOLEAN, time : Nat,
             faulted : BOOLEAN]
EventRow == [id : Entries, in : Sessions, time : Nat, tokens : Nat, ends : BOOLEAN]
WatchRow == [of : {"trace", "gateway"}, at : {"unopened", "open", "silent", "ended", "closed"}, last : Nat,
             shown : Seq(Entries), since : Nat, done : BOOLEAN]
PolledRow == [times : Nat, upTo : Nat, overlap : BOOLEAN, late : SUBSET Entries]

\* A request that has its session, and one that may have stored its event.
Posting(p) == entry[p].at \in {"stamp", "store", "count", "posted"}
EventStored(p) == entry[p].at \in {"count", "posted", "refused"}

TracesTyped ==
  /\ clock \in 1..MaxTime /\ kept \in BOOLEAN
  /\ \A s \in Sessions : tracked[s].tokens \in Nat
  /\ tracked \in [Sessions -> [agent : Workers, parent : Sessions \cup {NoSession}, status : Statuses, tokens : Nat]]
  /\ entry \in [Entries -> EntryRow]
  /\ \A p \in Entries : /\ entry[p].time <= clock
                        /\ Posting(p) => entry[p].in \in Sessions
                        /\ entry[p].at \in {"store", "count", "posted"} => entry[p].time # 0
  /\ watch \in WatchRow /\ watch.last <= clock
  /\ polled \in PolledRow /\ polled.upTo <= clock
  /\ traceFaults \in 0..MaxTraceFaults

\* An event is what its request has posted, so that no two are of one request.
EventOK(e) ==
  /\ e \in EventRow /\ EventStored(e.id) /\ e.time \in 1..clock
  /\ e = [id |-> e.id, in |-> entry[e.id].in, time |-> entry[e.id].time, tokens |-> entry[e.id].tokens,
          ends |-> entry[e.id].ends]

EventsOK == IsFiniteSet(events) /\ \A e \in events : EventOK(e)

\* What the database has answered are events.
AnswersOK == \A a \in polls :
  /\ IsFiniteSet(a.found)
  /\ \A e \in a.found : EventOK(e) /\ e.time <= polled.upTo

\* What is shown was stored, and the stream is done when a completion is shown.
ShownOK ==
  /\ \A i \in DOMAIN watch.shown : EventStored(watch.shown[i])
  /\ watch.done => watch.of = "gateway" /\ \E i \in DOMAIN watch.shown : entry[watch.shown[i]].ends
  /\ watch.at \in {"unopened", "ended", "closed"} => polls = {}
  /\ watch.at = "unopened" => watch.shown = <<>>
  /\ watch.at = "ended" => watch.done
  /\ watch.last = watch.since \/ watch.last <= polled.upTo

\* While no two answers were under way together: what is shown is of the time up to the last,
\* each once, and has every event of that time; the answer under way has every event after it.
InOrder == watch.at \in {"open", "ended"} /\ ~polled.overlap =>
  /\ \A i, k \in DOMAIN watch.shown : watch.shown[i] = watch.shown[k] => i = k
  /\ \A i \in DOMAIN watch.shown : entry[watch.shown[i]].time <= watch.last
  /\ \A e \in events : watch.since < e.time /\ e.time <= watch.last =>
       e.id \in polled.late \/ \E i \in DOMAIN watch.shown : watch.shown[i] = e.id
  /\ \A a, b \in polls : a = b
  /\ \A a \in polls :
       /\ \A e \in a.found : watch.last < e.time
       /\ \A e \in events : watch.last < e.time => e \in a.found \/ e.id \in polled.late \/ polled.upTo < e.time

TracesInv == TracesTyped /\ EventsOK /\ AnswersOK /\ ShownOK /\ InOrder

----------------------------------------------------------------------------
\* The stream is not opened yet.
LEMMA TracesStart == ASSUME TracesAssumption, InitTraces PROVE TracesInv
<1> DEFINE new == [at |-> "idle", in |-> NoSession, tokens |-> 0, ends |-> FALSE, time |-> 0, faulted |-> FALSE]
<1>1. /\ clock = 1 /\ kept = TRUE /\ events = {} /\ polls = {} /\ traceFaults = 0
      /\ entry = [p \in Entries |-> new]
      /\ watch \in [of : {"trace", "gateway"}, at : {"unopened"}, last : {0}, shown : {<<>>}, since : {0}, done : {FALSE}]
      /\ polled = [times |-> 0, upTo |-> 0, overlap |-> FALSE, late |-> {}]
      /\ tracked \in [Sessions -> [agent : Workers, parent : Sessions \cup {NoSession}, status : Statuses, tokens : {0}]]
  BY Zenon DEF InitTraces
<1>2. new \in EntryRow /\ new.at = "idle" /\ new.time = 0  BY DEF EntryRow, EntryStages
<1> HIDE DEF new
<1>3. watch \in WatchRow /\ watch.at = "unopened" /\ watch.last = 0 /\ watch.shown = <<>> /\ ~watch.done
  <2> DEFINE A == [of : {"trace", "gateway"}, at : {"unopened"}, last : {0}, shown : {<<>>}, since : {0}, done : {FALSE}]
  <2>1. <<>> \in Seq(Entries)  OBVIOUS
  <2>2. \A w \in A : w.at = "unopened" /\ w.last = 0 /\ w.shown = <<>>  OBVIOUS
  <2>3. \A w \in A : w.done = FALSE  BY Zenon
  <2>4. A \subseteq WatchRow
    <3> SUFFICES ASSUME NEW w \in A PROVE w \in WatchRow  OBVIOUS
    <3>1. w.of \in {"trace", "gateway"} /\ w.at = "unopened" /\ w.last = 0 /\ w.shown = <<>> /\ w.since = 0  OBVIOUS
    <3>2. w.done \in BOOLEAN  BY <2>3, Zenon
    <3>3. w = [of |-> w.of, at |-> w.at, last |-> w.last, shown |-> w.shown, since |-> w.since, done |-> w.done]
      OBVIOUS
    <3>4. w.shown \in Seq(Entries) /\ w.last \in Nat /\ w.since \in Nat
          /\ w.at \in {"unopened", "open", "silent", "ended", "closed"}
      BY <2>1, <3>1
    <3> HIDE DEF A
    <3>5. [of |-> w.of, at |-> w.at, last |-> w.last, shown |-> w.shown, since |-> w.since, done |-> w.done] \in WatchRow
      BY <3>1, <3>2, <3>4 DEF WatchRow
    <3> QED  BY <3>3, <3>5, Zenon
  <2>5. watch \in A  BY <1>1
  <2> HIDE DEF A
  <2> QED  BY <2>2, <2>3, <2>4, <2>5
<1>4. polled \in PolledRow /\ polled.upTo = 0
  <2>1. PICK f : f = FALSE  BY Zenon
  <2>2. f \in BOOLEAN  BY <2>1, Zenon
  <2>3. polled = [times |-> 0, upTo |-> 0, overlap |-> f, late |-> {}]  BY <1>1, <2>1, Zenon
  <2> QED  BY <2>2, <2>3 DEF PolledRow
<1>5. \A s \in Sessions : tracked[s].tokens \in Nat  BY <1>1
<1>6. tracked \in [Sessions -> [agent : Workers, parent : Sessions \cup {NoSession}, status : Statuses, tokens : Nat]]
  <2> DEFINE A == [agent : Workers, parent : Sessions \cup {NoSession}, status : Statuses, tokens : {0}]
             B == [agent : Workers, parent : Sessions \cup {NoSession}, status : Statuses, tokens : Nat]
  <2>1. A \subseteq B  OBVIOUS
  <2>2. tracked \in [Sessions -> A]  BY <1>1
  <2> HIDE DEF A, B
  <2>3. tracked \in [Sessions -> B]  BY <2>1, <2>2
  <2> QED  BY <2>3 DEF B
<1>7. TracesTyped  BY <1>1, <1>2, <1>3, <1>4, <1>5, <1>6 DEF TracesTyped, Posting, TracesAssumption
<1>8. EventsOK /\ AnswersOK  BY <1>1, FS_EmptySet DEF EventsOK, AnswersOK
<1>9. ShownOK /\ InOrder  BY <1>1, <1>3, <1>4 DEF ShownOK, InOrder
<1> QED  BY <1>7, <1>8, <1>9 DEF TracesInv

----------------------------------------------------------------------------
(* Requests that post events.                                              *)

\* The request's entry keeps what it has posted.
Same(p) ==
  EventStored(p) => /\ EventStored(p)' /\ entry'[p].in = entry[p].in /\ entry'[p].time = entry[p].time
               /\ entry'[p].tokens = entry[p].tokens /\ entry'[p].ends = entry[p].ends

\* An event is still what its request has posted.
LEMMA EventStays ==
  ASSUME NEW e, EventOK(e), Same(e.id), clock \in Nat, clock' \in Nat, clock <= clock'
  PROVE  EventOK(e)'
BY DEF EventOK, Same

\* Nothing is known of the stream that a request which keeps its event could change.
LEMMA RequestMoves ==
  ASSUME TracesInv, TracesTyped', events' = events, watch' = watch, polls' = polls, polled' = polled,
         clock' = clock, \A p \in Entries : Same(p)
  PROVE  TracesInv'
<1>0. clock \in Nat /\ clock' \in Nat /\ clock <= clock'  BY DEF TracesInv, TracesTyped
<1>1. ASSUME NEW e, EventOK(e) PROVE EventOK(e)' /\ entry'[e.id].time = entry[e.id].time
  <2>1. Same(e.id)  BY <1>1 DEF EventOK, EventRow
  <2> QED  BY <1>0, <1>1, <2>1, EventStays DEF EventOK, Same
<1>2. EventsOK' /\ AnswersOK'  BY <1>1 DEF TracesInv, EventsOK, AnswersOK
<1>3. \A i \in DOMAIN watch.shown : watch.shown[i] \in Entries  BY DEF TracesInv, TracesTyped, WatchRow
<1>4. ShownOK'  BY <1>3 DEF TracesInv, ShownOK, Same
<1>5. InOrder'  BY <1>3 DEF TracesInv, InOrder, ShownOK, Same
<1> QED  BY <1>2, <1>4, <1>5 DEF TracesInv

\* One request moves on.
LEMMA OneMoves ==
  ASSUME TracesInv, NEW p \in Entries, NEW d \in EntryRow, entry' = [entry EXCEPT ![p] = d],
         d.time <= clock, d.at \in {"stamp", "store", "count", "posted"} => d.in \in Sessions,
         d.at \in {"store", "count", "posted"} => d.time # 0,
         EventStored(p) => /\ d.at \in {"count", "posted", "refused"} /\ d.in = entry[p].in /\ d.time = entry[p].time
                      /\ d.tokens = entry[p].tokens /\ d.ends = entry[p].ends
  PROVE  /\ entry' \in [Entries -> EntryRow] /\ entry'[p] = d /\ \A q \in Entries \ {p} : entry'[q] = entry[q]
         /\ \A q \in Entries : Same(q)
         /\ \A q \in Entries : /\ entry'[q].time <= clock
                               /\ entry'[q].at \in {"stamp", "store", "count", "posted"} => entry'[q].in \in Sessions
                               /\ entry'[q].at \in {"store", "count", "posted"} => entry'[q].time # 0
<1>1. entry \in [Entries -> EntryRow]  BY DEF TracesInv, TracesTyped
<1>2. entry' \in [Entries -> EntryRow] /\ entry'[p] = d /\ \A q \in Entries \ {p} : entry'[q] = entry[q]
  BY <1>1
<1>3. ASSUME NEW q \in Entries PROVE Same(q)  BY <1>2 DEF Same, EventStored
<1>4. ASSUME NEW q \in Entries
      PROVE  /\ entry'[q].time <= clock
             /\ entry'[q].at \in {"stamp", "store", "count", "posted"} => entry'[q].in \in Sessions
             /\ entry'[q].at \in {"store", "count", "posted"} => entry'[q].time # 0
  BY <1>2 DEF TracesInv, TracesTyped, Posting
<1> QED  BY <1>2, <1>3, <1>4

\* A request finds its session, or is refused.
LEMMA FindSessionStep ==
  ASSUME TracesAssumption, TracesInv, NEW p \in Entries, NEW c \in Contents, FindTraceSession(p, c) PROVE TracesInv'
<1> DEFINE r == entry[p]  at == IF kept THEN "stamp" ELSE "refused"
           r1 == [r EXCEPT !.at = at]  r2 == [r1 EXCEPT !.in = c.in]  r3 == [r2 EXCEPT !.tokens = c.tokens]
           d == [r3 EXCEPT !.ends = c.ends]
<1>0. r \in EntryRow /\ r.at = "idle" /\ r.time <= clock /\ entry \in [Entries -> EntryRow]
  BY DEF TracesInv, TracesTyped, FindTraceSession, EntryIs
<1>1. c.in \in Sessions /\ c.tokens \in Nat /\ c.ends \in BOOLEAN  BY DEF TracesAssumption
<1>2. entry' = [entry EXCEPT ![p] = d]
  <2>1. entry' = [entry EXCEPT ![p].at = at, ![p].in = c.in, ![p].tokens = c.tokens, ![p].ends = c.ends]
    BY Zenon DEF FindTraceSession
  <2> HIDE DEF at
  <2> QED  BY <1>0, <2>1
<1>3. at \in {"stamp", "refused"}  OBVIOUS
<1> HIDE DEF r, at
<1>4. r1 \in EntryRow /\ r1.at = at /\ r1.time = r.time  BY <1>0, <1>3 DEF EntryRow, EntryStages
<1> HIDE DEF r1
<1>5. r2 \in EntryRow /\ r2.at = at /\ r2.time = r.time /\ r2.in = c.in  BY <1>1, <1>4 DEF EntryRow
<1> HIDE DEF r2
<1>6. r3 \in EntryRow /\ r3.at = at /\ r3.time = r.time /\ r3.in = c.in  BY <1>1, <1>5 DEF EntryRow
<1> HIDE DEF r3
<1>7. d \in EntryRow /\ d.at = at /\ d.time = r.time /\ d.in = c.in  BY <1>1, <1>6 DEF EntryRow
<1> HIDE DEF d
<1>8. ~EventStored(p)  BY <1>0 DEF EventStored, r
<1>9. /\ entry' \in [Entries -> EntryRow] /\ \A q \in Entries : Same(q)
      /\ \A q \in Entries : /\ entry'[q].time <= clock
                            /\ entry'[q].at \in {"stamp", "store", "count", "posted"} => entry'[q].in \in Sessions
                            /\ entry'[q].at \in {"store", "count", "posted"} => entry'[q].time # 0
  BY <1>0, <1>1, <1>2, <1>3, <1>7, <1>8, OneMoves
<1>10. /\ clock' = clock /\ kept' = kept /\ tracked' = tracked /\ events' = events /\ watch' = watch /\ polls' = polls
       /\ polled' = polled /\ traceFaults' = traceFaults
  BY Zenon DEF FindTraceSession, StreamRests
<1>11. TracesTyped'  BY <1>9, <1>10 DEF TracesInv, TracesTyped, Posting
<1> QED  BY <1>9, <1>10, <1>11, RequestMoves

\* An event gets its time, which is not 0.
LEMMA StampStep == ASSUME TracesInv, NEW p \in Entries, StampEvent(p) PROVE TracesInv'
<1> DEFINE r == entry[p]  r1 == [r EXCEPT !.at = "store"]  d == [r1 EXCEPT !.time = clock]
<1>0. /\ r \in EntryRow /\ r.at = "stamp" /\ r.in \in Sessions /\ entry \in [Entries -> EntryRow]
      /\ clock \in Nat /\ clock # 0
  BY DEF TracesInv, TracesTyped, StampEvent, EntryIs, Posting
<1>1. entry' = [entry EXCEPT ![p] = d]
  <2>1. entry' = [entry EXCEPT ![p].at = "store", ![p].time = clock]  BY Zenon DEF StampEvent
  <2> QED  BY <1>0, <2>1
<1> HIDE DEF r
<1>2. r1 \in EntryRow /\ r1.at = "store" /\ r1.in = r.in  BY <1>0 DEF EntryRow, EntryStages
<1> HIDE DEF r1
<1>3. d \in EntryRow /\ d.at = "store" /\ d.in = r.in /\ d.time = clock  BY <1>0, <1>2 DEF EntryRow
<1> HIDE DEF d
<1>4. ~EventStored(p)  BY <1>0 DEF EventStored, r
<1>5. d.time <= clock /\ d.time # 0 /\ d.in \in Sessions  BY <1>0, <1>3
<1>6. /\ entry' \in [Entries -> EntryRow] /\ \A q \in Entries : Same(q)
      /\ \A q \in Entries : /\ entry'[q].time <= clock
                            /\ entry'[q].at \in {"stamp", "store", "count", "posted"} => entry'[q].in \in Sessions
                            /\ entry'[q].at \in {"store", "count", "posted"} => entry'[q].time # 0
  BY <1>1, <1>3, <1>4, <1>5, OneMoves
<1>7. /\ clock' = clock /\ kept' = kept /\ tracked' = tracked /\ events' = events /\ watch' = watch /\ polls' = polls
      /\ polled' = polled /\ traceFaults' = traceFaults
  BY Zenon DEF StampEvent, StreamRests
<1>8. TracesTyped'  BY <1>6, <1>7 DEF TracesInv, TracesTyped, Posting
<1> QED  BY <1>6, <1>7, <1>8, RequestMoves

\* The entry of a request that goes to a stage.
LEMMA EntryGoesTo ==
  ASSUME TracesInv, NEW p \in Entries, NEW at \in {"count", "posted", "refused"}, EntryGoes(p, at),
         entry[p].at \in {"stamp", "store", "count", "posted"}, at # "refused" => entry[p].time # 0
  PROVE  /\ entry' \in [Entries -> EntryRow] /\ entry'[p].at = at /\ \A q \in Entries : Same(q)
         /\ entry'[p].in = entry[p].in /\ entry'[p].time = entry[p].time /\ entry'[p].tokens = entry[p].tokens
         /\ entry'[p].ends = entry[p].ends /\ \A q \in Entries \ {p} : entry'[q] = entry[q]
         /\ \A q \in Entries : /\ entry'[q].time <= clock
                               /\ entry'[q].at \in {"stamp", "store", "count", "posted"} => entry'[q].in \in Sessions
                               /\ entry'[q].at \in {"store", "count", "posted"} => entry'[q].time # 0
<1> DEFINE r == entry[p]  d == [r EXCEPT !.at = at]
<1>0. r \in EntryRow /\ r.in \in Sessions /\ r.time <= clock /\ entry \in [Entries -> EntryRow]
  BY DEF TracesInv, TracesTyped, Posting
<1>1. entry' = [entry EXCEPT ![p] = d]  BY <1>0 DEF EntryGoes
<1>2. at # "refused" => r.time # 0  OBVIOUS
<1> HIDE DEF r
<1>3. /\ d \in EntryRow /\ d.at = at /\ d.in = r.in /\ d.time = r.time /\ d.tokens = r.tokens /\ d.ends = r.ends
  BY <1>0 DEF EntryRow, EntryStages
<1> HIDE DEF d
<1>4. /\ entry' \in [Entries -> EntryRow] /\ entry'[p] = d /\ \A q \in Entries \ {p} : entry'[q] = entry[q]
      /\ \A q \in Entries : Same(q)
      /\ \A q \in Entries : /\ entry'[q].time <= clock
                            /\ entry'[q].at \in {"stamp", "store", "count", "posted"} => entry'[q].in \in Sessions
                            /\ entry'[q].at \in {"store", "count", "posted"} => entry'[q].time # 0
  BY <1>0, <1>1, <1>2, <1>3, OneMoves DEF r
<1> QED  BY <1>3, <1>4 DEF r

\* A session counts.
LEMMA CountStep == ASSUME TracesInv, NEW p \in Entries, CountTokens(p) PROVE TracesInv'
<1> DEFINE s == entry[p].in  at == IF kept THEN "posted" ELSE "refused"
           Tracked == [agent : Workers, parent : Sessions \cup {NoSession}, status : Statuses, tokens : Nat]
<1>0. /\ entry[p].at = "count" /\ EntryGoes(p, at)
      /\ tracked' = IF kept THEN [tracked EXCEPT ![s].tokens = Counted(s, entry[p].tokens)] ELSE tracked
      /\ clock' = clock /\ kept' = kept /\ events' = events /\ watch' = watch /\ polls' = polls
      /\ polled' = polled /\ traceFaults' = traceFaults
  BY Zenon DEF CountTokens, StreamRests, EntryIs
<1>1. s \in Sessions /\ entry[p].tokens \in Nat /\ tracked \in [Sessions -> Tracked] /\ entry[p].time # 0
  BY <1>0 DEF TracesInv, TracesTyped, Posting, EntryRow
<1>2. tracked' \in [Sessions -> Tracked]
  <2> DEFINE t == tracked[s]  n == Counted(s, entry[p].tokens)  d == [t EXCEPT !.tokens = n]
  <2>1. t \in Tracked /\ n \in Nat  BY <1>1 DEF Counted
  <2>2. d \in Tracked
    <3> HIDE DEF t, n
    <3> QED  BY <2>1
  <2>3. tracked' = tracked \/ tracked' = [tracked EXCEPT ![s] = d]
    <3> HIDE DEF n
    <3> QED  BY <1>0, <1>1 DEF n
  <2> HIDE DEF d, Tracked, s
  <2> QED  BY <1>1, <2>2, <2>3
<1>3. at \in {"count", "posted", "refused"}  OBVIOUS
<1> HIDE DEF at, s
<1>4. /\ entry' \in [Entries -> EntryRow] /\ \A q \in Entries : Same(q)
      /\ \A q \in Entries : /\ entry'[q].time <= clock
                            /\ entry'[q].at \in {"stamp", "store", "count", "posted"} => entry'[q].in \in Sessions
                            /\ entry'[q].at \in {"store", "count", "posted"} => entry'[q].time # 0
  BY <1>0, <1>1, <1>3, EntryGoesTo
<1>5. \A q \in Sessions : tracked'[q].tokens \in Nat  BY <1>2
<1>6. TracesTyped'  BY <1>0, <1>2, <1>4, <1>5 DEF TracesInv, TracesTyped, Posting
<1> QED  BY <1>0, <1>4, <1>6, RequestMoves

\* A call of the database fails.
LEMMA TraceFaultStep == ASSUME TracesAssumption, TracesInv, NEW p \in Entries, TraceFault(p) PROVE TracesInv'
<1> DEFINE r == entry[p]  f == r.faulted \/ EntryIs(p, "count")  r1 == [r EXCEPT !.at = "refused"]
           d == [r1 EXCEPT !.faulted = f]
<1>0. r \in EntryRow /\ r.time <= clock /\ entry \in [Entries -> EntryRow] /\ f \in BOOLEAN
  BY DEF TracesInv, TracesTyped, EntryRow
<1>1. entry' = [entry EXCEPT ![p] = d]
  <2>1. entry' = [entry EXCEPT ![p].at = "refused", ![p].faulted = (@ \/ EntryIs(p, "count"))]
    BY Zenon DEF TraceFault
  <2>2. entry' = [entry EXCEPT ![p] = [r EXCEPT !.at = "refused", !.faulted = (@ \/ EntryIs(p, "count"))]]
    BY <1>0, <2>1
  <2>3. [r EXCEPT !.at = "refused", !.faulted = (@ \/ EntryIs(p, "count"))] = d
    <3> HIDE DEF r
    <3> QED  BY <1>0 DEF EntryRow
  <2> QED  BY <2>2, <2>3, Zenon
<1> HIDE DEF r, f
<1>2. r1 \in EntryRow /\ r1.at = "refused" /\ r1.in = r.in /\ r1.time = r.time /\ r1.tokens = r.tokens /\ r1.ends = r.ends
  BY <1>0 DEF EntryRow, EntryStages
<1> HIDE DEF r1
<1>3. d \in EntryRow /\ d.at = "refused" /\ d.in = r.in /\ d.time = r.time /\ d.tokens = r.tokens /\ d.ends = r.ends
  BY <1>0, <1>2 DEF EntryRow
<1> HIDE DEF d
<1>4. /\ entry' \in [Entries -> EntryRow] /\ \A q \in Entries : Same(q)
      /\ \A q \in Entries : /\ entry'[q].time <= clock
                            /\ entry'[q].at \in {"stamp", "store", "count", "posted"} => entry'[q].in \in Sessions
                            /\ entry'[q].at \in {"store", "count", "posted"} => entry'[q].time # 0
  BY <1>0, <1>1, <1>3, OneMoves DEF r
<1>5. /\ clock' = clock /\ kept' = kept /\ tracked' = tracked /\ events' = events /\ watch' = watch /\ polls' = polls
      /\ polled' = polled /\ traceFaults' = traceFaults + 1 /\ traceFaults < MaxTraceFaults
  BY Zenon DEF TraceFault
<1>6. traceFaults' \in 0..MaxTraceFaults  BY <1>5 DEF TracesInv, TracesTyped, TracesAssumption
<1>7. TracesTyped'  BY <1>4, <1>5, <1>6 DEF TracesInv, TracesTyped, Posting
<1> QED  BY <1>4, <1>5, <1>7, RequestMoves

\* An event is stored, maybe too late for the answer that is under way.
LEMMA StoreStep == ASSUME TracesInv, NEW p \in Entries, StoreEvent(p) PROVE TracesInv'
<1> DEFINE new == [id |-> p, in |-> entry[p].in, time |-> entry[p].time, tokens |-> entry[p].tokens, ends |-> entry[p].ends]
<1>0. /\ entry[p].at = "store" /\ clock' = clock /\ kept' = kept /\ tracked' = tracked /\ watch' = watch /\ polls' = polls
      /\ traceFaults' = traceFaults
  BY Zenon DEF StoreEvent, StreamRests, EntryIs
<1>1. /\ entry[p] \in EntryRow /\ entry[p].in \in Sessions /\ entry[p].time \in 1..clock /\ clock \in Nat
      /\ TracesTyped /\ EventsOK /\ AnswersOK /\ ShownOK /\ InOrder
  BY <1>0 DEF TracesInv, TracesTyped, Posting, EntryRow
<1>2. PICK e : e = new  OBVIOUS
<1>3. CASE ~kept
  <2>1. UNCHANGED <<events, polled>> /\ EntryGoes(p, "refused")  BY <1>3, Zenon DEF StoreEvent
  <2>2. /\ entry' \in [Entries -> EntryRow] /\ \A q \in Entries : Same(q)
        /\ \A q \in Entries : /\ entry'[q].time <= clock
                              /\ entry'[q].at \in {"stamp", "store", "count", "posted"} => entry'[q].in \in Sessions
                              /\ entry'[q].at \in {"store", "count", "posted"} => entry'[q].time # 0
    BY <1>0, <2>1, EntryGoesTo
  <2>3. TracesTyped'  BY <1>0, <2>1, <2>2 DEF TracesInv, TracesTyped, Posting
  <2> QED  BY <1>0, <2>1, <2>2, <2>3, RequestMoves
<1>4. CASE kept
  <2> DEFINE at == IF entry[p].tokens > 0 THEN "count" ELSE "posted"
  <2>1. /\ events' = events \cup {e} /\ EntryGoes(p, at)
        /\ polled' = IF e.time <= polled.upTo THEN [polled EXCEPT !.late = @ \cup {p}] ELSE polled
    <3>1. /\ events' = events \cup {new} /\ EntryGoes(p, IF new.tokens > 0 THEN "count" ELSE "posted")
          /\ polled' = IF new.time <= polled.upTo THEN [polled EXCEPT !.late = @ \cup {p}] ELSE polled
      BY <1>4, Zenon DEF StoreEvent
    <3>2. new.tokens = entry[p].tokens  OBVIOUS
    <3> HIDE DEF new
    <3> QED  BY <1>2, <3>1, <3>2
  <2>2. at \in {"count", "posted"}  OBVIOUS
  <2> HIDE DEF at
  <2>3. /\ entry' \in [Entries -> EntryRow] /\ \A q \in Entries : Same(q) /\ entry'[p].at = at
        /\ entry'[p].in = entry[p].in /\ entry'[p].time = entry[p].time /\ entry'[p].tokens = entry[p].tokens
        /\ entry'[p].ends = entry[p].ends
        /\ \A q \in Entries : /\ entry'[q].time <= clock
                              /\ entry'[q].at \in {"stamp", "store", "count", "posted"} => entry'[q].in \in Sessions
                              /\ entry'[q].at \in {"store", "count", "posted"} => entry'[q].time # 0
    BY <1>0, <1>1, <2>1, <2>2, EntryGoesTo
  <2>4. e \in EventRow /\ e.id = p /\ e.time = entry[p].time
    <3>1. new \in EventRow /\ new.id = p /\ new.time = entry[p].time  BY <1>1 DEF EventRow, EntryRow
    <3> HIDE DEF new
    <3> QED  BY <1>2, <3>1
  <2>5. EventOK(e)'
    <3>1. EventStored(e.id)'  BY <2>2, <2>3, <2>4 DEF EventStored
    <3>2. e = [id |-> p, in |-> entry'[p].in, time |-> entry'[p].time, tokens |-> entry'[p].tokens, ends |-> entry'[p].ends]
      BY <1>2, <2>3
    <3>3. e.time \in 1..clock'  BY <1>0, <1>1, <2>4
    <3> QED  BY <2>4, <3>1, <3>2, <3>3, Zenon DEF EventOK
  <2>6. /\ polled' \in PolledRow /\ polled'.upTo = polled.upTo /\ polled'.times = polled.times /\ polled'.overlap = polled.overlap
        /\ polled.late \subseteq polled'.late /\ (e.time <= polled.upTo => p \in polled'.late)
    <3>0. polled \in PolledRow  BY <1>1 DEF TracesTyped
    <3>1. CASE e.time <= polled.upTo  BY <2>1, <3>0, <3>1 DEF PolledRow
    <3>2. CASE ~(e.time <= polled.upTo)  BY <2>1, <3>0, <3>2
    <3> QED  BY <3>1, <3>2
  <2>7. TracesTyped'  BY <1>0, <1>1, <2>3, <2>6 DEF TracesTyped, Posting
  <2>8. ASSUME NEW x, EventOK(x) PROVE EventOK(x)' /\ entry'[x.id].time = entry[x.id].time
    <3>1. Same(x.id)  BY <2>3, <2>8 DEF EventOK, EventRow
    <3> QED  BY <1>0, <1>1, <2>8, <3>1, EventStays DEF EventOK, Same
  <2>9. EventsOK'
    <3>1. IsFiniteSet(events \cup {e})  BY <1>1, FS_AddElement DEF EventsOK
    <3>2. \A x \in events : EventOK(x)'  BY <1>1, <2>8 DEF EventsOK
    <3> QED  BY <2>1, <2>5, <3>1, <3>2 DEF EventsOK
  <2>10. AnswersOK'  BY <1>0, <1>1, <2>6, <2>8 DEF AnswersOK
  <2>11. \A i \in DOMAIN watch.shown : watch.shown[i] \in Entries  BY <1>1 DEF TracesTyped, WatchRow
  <2>12. ShownOK'  BY <1>0, <1>1, <2>3, <2>6, <2>11 DEF ShownOK, Same
  <2>13. InOrder'
    <3> SUFFICES ASSUME watch.at \in {"open", "ended"}, ~polled.overlap PROVE InOrder'
      BY <1>0, <2>6 DEF InOrder
    <3>1. /\ \A i, k \in DOMAIN watch.shown : watch.shown[i] = watch.shown[k] => i = k
          /\ \A a, b \in polls : a = b
      BY <1>1 DEF InOrder
    <3>2. \A i \in DOMAIN watch.shown : entry'[watch.shown[i]].time <= watch.last
      BY <1>1, <2>3, <2>11 DEF InOrder, ShownOK, Same
    <3>3. polled.upTo \in Nat /\ watch.last \in Nat /\ e.time \in Nat  BY <1>1, <2>4 DEF TracesTyped, WatchRow, PolledRow, EventRow
    <3>4. watch.since < e.time /\ e.time <= watch.last => p \in polled'.late
      BY <1>1, <2>6, <3>3 DEF ShownOK, TracesTyped, WatchRow
    <3>5. \A x \in events' : watch.since < x.time /\ x.time <= watch.last =>
            x.id \in polled'.late \/ \E i \in DOMAIN watch.shown : watch.shown[i] = x.id
      BY <1>1, <2>1, <2>4, <2>6, <3>4 DEF InOrder
    <3>6. \A a \in polls :
            /\ \A x \in a.found : watch.last < x.time
            /\ \A x \in events' : watch.last < x.time => x \in a.found \/ x.id \in polled'.late \/ polled.upTo < x.time
      BY <1>1, <2>1, <2>4, <2>6, <3>3 DEF InOrder
    <3> QED  BY <1>0, <2>6, <3>1, <3>2, <3>5, <3>6 DEF InOrder
  <2> QED  BY <2>7, <2>9, <2>10, <2>12, <2>13 DEF TracesInv
<1> QED  BY <1>3, <1>4

----------------------------------------------------------------------------
\* Time passes, the trace is changed or deleted: events may go, answers stay.
LEMMA EditSteps ==
  ASSUME TracesAssumption, TracesInv,
         \/ Tick
         \/ \E k \in Editors : FindTrace(k, "update") \/ FindTrace(k, "delete") \/ updateTrace(k) \/ deleteTrace(k)
  PROVE  TracesInv'
<1>1. /\ entry' = entry /\ watch' = watch /\ polls' = polls /\ polled' = polled /\ tracked' = tracked
      /\ traceFaults' = traceFaults
  BY DEF Tick, FindTrace, updateTrace, deleteTrace
<1>2. kept' \in BOOLEAN /\ (events' = events \/ events' = {})
  BY DEF Tick, FindTrace, updateTrace, deleteTrace, TracesInv, TracesTyped
<1>3. clock \in Nat /\ clock' \in 1..MaxTime /\ clock <= clock'
  <2>1. clock \in 1..MaxTime /\ MaxTime \in Nat  BY DEF TracesInv, TracesTyped, TracesAssumption
  <2>2. clock' = clock \/ (clock < MaxTime /\ clock' = clock + 1)
    BY Zenon DEF Tick, FindTrace, updateTrace, deleteTrace
  <2> QED  BY <2>1, <2>2
<1>4. TracesTyped'
  <2>1. \A p \in Entries : entry[p].time \in Nat  BY DEF TracesInv, TracesTyped, EntryRow
  <2>2. watch.last \in Nat  BY DEF TracesInv, TracesTyped, WatchRow
  <2>3. \A p \in Entries : entry[p].time <= clock'  BY <1>3, <2>1 DEF TracesInv, TracesTyped
  <2>4. watch.last <= clock'  BY <1>3, <2>2 DEF TracesInv, TracesTyped
  <2>5. polled.upTo <= clock'  BY <1>3 DEF TracesInv, TracesTyped, PolledRow
  <2> HIDE DEF Posting
  <2> QED  BY <1>1, <1>2, <1>3, <2>3, <2>4, <2>5 DEF TracesInv, TracesTyped, Posting
<1>5. ASSUME NEW e, EventOK(e) PROVE EventOK(e)'
  <2>1. Same(e.id)  BY <1>1 DEF Same, EventStored
  <2> QED  BY <1>3, <1>5, <2>1, EventStays
<1>6. EventsOK'  BY <1>2, <1>5, FS_EmptySet DEF TracesInv, EventsOK
<1>7. AnswersOK'  BY <1>1, <1>5 DEF TracesInv, AnswersOK
<1>8. ShownOK'  BY <1>1 DEF TracesInv, ShownOK, EventStored
<1>9. InOrder'  BY <1>1, <1>2 DEF TracesInv, InOrder
<1> QED  BY <1>4, <1>6, <1>7, <1>8, <1>9 DEF TracesInv

----------------------------------------------------------------------------
(* The stream.                                                             *)

\* The latest of some times.
LEMMA MaxIs ==
  ASSUME NEW S \in SUBSET Nat, S # {}, IsFiniteSet(S)
  PROVE  Max(S) \in S /\ \A x \in S : x <= Max(S)
<1> DEFINE From(x) == {y \in S : x <= y}  T == {From(x) : x \in S}
<1>2. IsWellFoundedOn(StrictSubsetOrdering(S), SUBSET S)
  BY FS_StrictSubsetOrderingWellFounded, FS_FiniteSubsetsOfFinite
<1>3. T \subseteq SUBSET S /\ T # {}  OBVIOUS
<1> HIDE DEF T
<1>4. PICK t \in T : \A u \in T : <<u, t>> \notin StrictSubsetOrdering(S)  BY <1>2, <1>3, WFMin
<1>5. PICK m \in S : t = From(m)  BY <1>4 DEF T
<1>6. ASSUME NEW x \in S PROVE x <= m
  <2> SUFFICES ASSUME ~(x <= m) PROVE FALSE  OBVIOUS
  <2>0. m < x  OBVIOUS
  <2>1. From(x) \in T  BY DEF T
  <2>2. From(x) \subseteq t /\ m \in t /\ m \notin From(x)
    <3>1. m \in Nat /\ x \in Nat /\ S \subseteq Nat  OBVIOUS
    <3>2. m \in From(m) /\ m \notin From(x)  BY <2>0, <3>1
    <3>3. ASSUME NEW y \in S, x <= y PROVE m <= y  BY <2>0, <3>1, <3>3
    <3>4. From(x) \subseteq From(m)  BY <3>3
    <3> QED  BY <1>5, <3>2, <3>4
  <2> HIDE DEF From
  <2>3. <<From(x), t>> \in StrictSubsetOrdering(S)  BY <1>3, <1>4, <2>1, <2>2 DEF StrictSubsetOrdering
  <2> QED  BY <1>4, <2>1, <2>3
<1>7. \E x \in S : \A y \in S : x >= y  BY <1>6
<1> QED  BY <1>7 DEF Max

\* A step of the stream, or an answer of the database to it.
LEMMA StreamMoves ==
  ASSUME TracesInv, EntriesRest, watch' \in WatchRow, watch'.last <= clock, traceFaults' \in 0..MaxTraceFaults,
         polled' \in PolledRow, polled'.upTo <= clock,
         AnswersOK', ShownOK', InOrder'
  PROVE  TracesInv'
<1>1. /\ clock' = clock /\ kept' = kept /\ tracked' = tracked /\ events' = events /\ entry' = entry
  BY Zenon DEF EntriesRest
<1>2. TracesTyped'  BY <1>1 DEF TracesInv, TracesTyped, Posting
<1>3. EventsOK'  BY <1>1 DEF TracesInv, EventsOK, EventOK, EventStored
<1> QED  BY <1>2, <1>3 DEF TracesInv

\* The stream is opened: nothing is shown yet.
LEMMA OpenStep == ASSUME TracesInv, OpenWatch PROVE TracesInv'
<1> DEFINE t == lastTimestamp  w == watch  w1 == [w EXCEPT !.at = "open"]  w2 == [w1 EXCEPT !.last = t]
           d == [w2 EXCEPT !.since = t]
<1>0. w \in WatchRow /\ w.at = "unopened" /\ clock \in Nat /\ t \in Nat /\ t <= clock
  BY DEF TracesInv, TracesTyped, OpenWatch, lastTimestamp
<1>1. /\ EntriesRest /\ watch' = d /\ polls' = polls /\ polled' = polled /\ traceFaults' = traceFaults
  <2>1. watch' = [watch EXCEPT !.at = "open", !.last = lastTimestamp, !.since = lastTimestamp]
    BY Zenon DEF OpenWatch
  <2>2. EntriesRest /\ polls' = polls /\ polled' = polled /\ traceFaults' = traceFaults
    BY Zenon DEF OpenWatch
  <2> HIDE DEF t
  <2> QED  BY <1>0, <2>1, <2>2 DEF t, WatchRow
<1> HIDE DEF t, w
<1>2. w1 \in WatchRow /\ w1.at = "open" /\ w1.shown = w.shown /\ w1.done = w.done /\ w1.of = w.of  BY <1>0 DEF WatchRow
<1> HIDE DEF w1
<1>3. w2 \in WatchRow /\ w2.at = "open" /\ w2.last = t /\ w2.shown = w.shown /\ w2.done = w.done /\ w2.of = w.of
  BY <1>0, <1>2 DEF WatchRow
<1> HIDE DEF w2
<1>4. /\ d \in WatchRow /\ d.at = "open" /\ d.last = t /\ d.shown = w.shown /\ d.since = t
      /\ d.done = w.done /\ d.of = w.of
  BY <1>0, <1>3 DEF WatchRow
<1> HIDE DEF d
<1>5. w.shown = <<>> /\ polls = {} /\ ~w.done  BY <1>0 DEF TracesInv, ShownOK, w
<1>6. clock' = clock /\ events' = events /\ entry' = entry  BY <1>1, Zenon DEF EntriesRest
<1>7. AnswersOK'  BY <1>1, <1>5 DEF AnswersOK
<1>8. ShownOK'  BY <1>1, <1>4, <1>5 DEF ShownOK
<1>9. InOrder'  BY <1>0, <1>1, <1>4, <1>5, <1>6 DEF InOrder, TracesInv, EventsOK, EventOK, EventRow
<1>10. polled' \in PolledRow /\ polled'.upTo <= clock
       /\ traceFaults' \in 0..MaxTraceFaults
  BY <1>1 DEF TracesInv, TracesTyped
<1> QED  BY <1>0, <1>1, <1>4, <1>7, <1>8, <1>9, <1>10, StreamMoves

\* The database is asked.
LEMMA PollStep == ASSUME TracesInv, Poll PROVE TracesInv'
<1> DEFINE found == getSessionEventsAfter  times == {e.time : e \in found}  up == Max({polled.upTo} \cup times)
           new == [n |-> polled.times, found |-> found]  o == polled.overlap \/ polls # {}
           p1 == [polled EXCEPT !.times = @ + 1]  p2 == [p1 EXCEPT !.upTo = up]  d == [p2 EXCEPT !.overlap = o]
<1>0. /\ clock \in Nat /\ EventsOK /\ AnswersOK /\ ShownOK /\ InOrder /\ watch.at = "open" /\ watch.last \in Nat
      /\ polled \in PolledRow /\ polled.upTo \in 0..clock /\ watch \in WatchRow /\ watch.last <= clock
      /\ traceFaults \in 0..MaxTraceFaults
  BY DEF TracesInv, TracesTyped, Poll, WatchRow, PolledRow
<1>1. found \subseteq events /\ \A e \in events : e.time \in 1..clock /\ (e \in found <=> watch.last < e.time)
  BY <1>0 DEF getSessionEventsAfter, Newer, EventsOK, EventOK
<1>2. up \in 0..clock /\ polled.upTo <= up /\ \A e \in found : e.time <= up
  <2> DEFINE S == {polled.upTo} \cup times
  <2>1. S \in SUBSET Nat /\ S # {} /\ (\A x \in S : x <= clock) /\ polled.upTo \in S /\ \A e \in found : e.time \in S
    BY <1>0, <1>1
  <2> HIDE DEF S, found
  <2>2. Max(S) \in S /\ \A x \in S : x <= Max(S)
    <3>1. IsFiniteSet(S)  BY <1>0, <2>1, FS_BoundedSetOfNaturals
    <3> QED  BY <2>1, <3>1, MaxIs
  <2>3. up = Max(S)  BY DEF S
  <2>4. up \in S /\ \A x \in S : x <= up  BY <2>2, <2>3
  <2> HIDE DEF up
  <2>5. up \in Nat /\ up <= clock /\ polled.upTo <= up  BY <2>1, <2>4
  <2>6. \A e \in found : e.time <= up  BY <2>1, <2>4
  <2>7. up \in 0..clock  BY <1>0, <2>5
  <2> QED  BY <2>5, <2>6, <2>7
<1>3. polled' = [polled EXCEPT !.times = @ + 1, !.upTo = up, !.overlap = o]  BY Zenon DEF Poll
<1>4. EntriesRest /\ watch' = watch /\ traceFaults' = traceFaults /\ polls' = polls \cup {new}  BY Zenon DEF Poll
<1>5. o \in BOOLEAN /\ (~o => ~polled.overlap /\ polls = {})  BY <1>0 DEF PolledRow
<1>6. new.found = found  OBVIOUS
<1> HIDE DEF up, found, o, new
<1>7. polled' = d  BY <1>0, <1>3 DEF PolledRow
<1>8. p1 \in PolledRow /\ p1.late = polled.late  BY <1>0 DEF PolledRow
<1> HIDE DEF p1
<1>9. p2 \in PolledRow /\ p2.late = polled.late /\ p2.upTo = up  BY <1>2, <1>8 DEF PolledRow
<1> HIDE DEF p2
<1>10. d \in PolledRow /\ d.late = polled.late /\ d.upTo = up  BY <1>2, <1>5, <1>9 DEF PolledRow
<1>11. d.overlap = o  BY <1>5, <1>9 DEF PolledRow
<1> HIDE DEF d
<1>12. clock' = clock /\ events' = events /\ entry' = entry  BY <1>4, Zenon DEF EntriesRest
<1>13. \A e : EventOK(e) => EventOK(e)'  BY <1>12 DEF EventOK, EventStored
<1>14. AnswersOK'
  <2>1. ASSUME NEW a \in polls PROVE IsFiniteSet(a.found) /\ \A e \in a.found : EventOK(e) /\ e.time <= polled'.upTo
    <3>1. IsFiniteSet(a.found) /\ \A e \in a.found : EventOK(e) /\ e.time <= polled.upTo /\ e.time \in Nat
      BY <1>0 DEF AnswersOK, EventOK
    <3> QED  BY <1>0, <1>2, <1>7, <1>10, <3>1
  <2>2. IsFiniteSet(found) /\ \A e \in found : EventOK(e) /\ e.time <= polled'.upTo
    BY <1>0, <1>1, <1>2, <1>7, <1>10, FS_Subset DEF EventsOK
  <2> QED  BY <1>4, <1>6, <1>13, <2>1, <2>2 DEF AnswersOK
<1>15. ShownOK'
  <2>1. watch.last = watch.since \/ watch.last <= up  BY <1>0, <1>2 DEF ShownOK
  <2> QED  BY <1>0, <1>4, <1>7, <1>10, <1>12, <2>1 DEF ShownOK, EventStored
<1>16. InOrder'
  <2> SUFFICES ASSUME ~o PROVE InOrder'  BY <1>7, <1>11 DEF InOrder
  <2>1. ~polled.overlap /\ polls' = {new}  BY <1>4, <1>5
  <2> QED  BY <1>0, <1>1, <1>4, <1>6, <1>7, <1>10, <1>12, <2>1 DEF InOrder
<1> QED  BY <1>0, <1>2, <1>4, <1>7, <1>10, <1>14, <1>15, <1>16, StreamMoves

\* What is shown after an answer is what was shown, followed by the answer.
FollowedBy(r, f, g) ==
  /\ \A i \in DOMAIN f : i \in DOMAIN r /\ r[i] = f[i]
  /\ \A k \in DOMAIN g : Len(f) + k \in DOMAIN r /\ r[Len(f) + k] = g[k]
  /\ \A i \in DOMAIN r : i \in DOMAIN f \/ \E k \in DOMAIN g : i = Len(f) + k

\* That is what appending makes.
LEMMA Follows == \A S : \A f, g \in Seq(S) : f \o g \in Seq(S) /\ FollowedBy(f \o g, f, g)
<1> SUFFICES ASSUME NEW S, NEW f \in Seq(S), NEW g \in Seq(S), NEW r, r = f \o g
             PROVE  r \in Seq(S) /\ FollowedBy(r, f, g)
  OBVIOUS
<1>1. /\ Len(f) \in Nat /\ Len(g) \in Nat /\ DOMAIN f = 1..Len(f) /\ DOMAIN g = 1..Len(g)
      /\ r \in Seq(S) /\ Len(r) = Len(f) + Len(g) /\ DOMAIN r = 1..Len(r)
  OBVIOUS
<1>2. \A i \in 1..Len(r) : r[i] = IF i <= Len(f) THEN f[i] ELSE g[i - Len(f)]  OBVIOUS
<1>3. \A i \in 1..Len(r) : ~(i <= Len(f)) => i - Len(f) \in 1..Len(g) /\ i = Len(f) + (i - Len(f))  BY <1>1
<1>4. \A k \in 1..Len(g) : /\ Len(f) + k \in 1..Len(r) /\ ~(Len(f) + k <= Len(f)) /\ (Len(f) + k) - Len(f) = k
  BY <1>1
<1>5. \A i \in 1..Len(f) : i \in 1..Len(r) /\ i <= Len(f)  BY <1>1
<1>6. \A i \in 1..Len(f) : r[i] = f[i]  BY <1>2, <1>5
<1>7. \A k \in 1..Len(g) : r[Len(f) + k] = g[k]
  <2> SUFFICES ASSUME NEW k \in 1..Len(g) PROVE r[Len(f) + k] = g[k]  OBVIOUS
  <2> DEFINE i == Len(f) + k
  <2>1. i \in 1..Len(r) /\ ~(i <= Len(f)) /\ i - Len(f) = k  BY <1>4
  <2> HIDE DEF i
  <2>2. r[i] = g[k]  BY <1>2, <2>1
  <2> QED  BY <2>2 DEF i
<1>8. \A i \in 1..Len(r) : i \in 1..Len(f) \/ \E k \in 1..Len(g) : i = Len(f) + k
  BY <1>1, <1>3
<1> QED  BY <1>1, <1>4, <1>5, <1>6, <1>7, <1>8 DEF FollowedBy

\* The order in which an answer is shown: every event once, by time, and the last is the latest.
LEMMA OrderIs ==
  ASSUME NEW F, IsFiniteSet(F), NEW order \in SetToSeqs(F), \A e \in F : e.time \in Nat,
         \A i, k \in DOMAIN order : i < k => order[i].time <= order[k].time
  PROVE  /\ order \in Seq(F)
         /\ \A i, k \in DOMAIN order : order[i] = order[k] => i = k
         /\ \A e \in F : \E i \in DOMAIN order : order[i] = e
         /\ order = <<>> => F = {}
         /\ order # <<>> => Last(order) \in F /\ \A e \in F : e.time <= Last(order).time
<1> DEFINE n == Cardinality(F)
<1>1. n \in Nat  BY FS_CardinalityType
<1>2. order \in [1..n -> F] /\ \A i, k \in 1..n : i # k => order[i] # order[k]  BY DEF SetToSeqs
<1>3. order \in Injection(1..n, F)  BY <1>2 DEF Injection, IsInjective
<1>4. IsFiniteSet(1..n) /\ Cardinality(1..n) = n  BY <1>1, FS_Interval
<1> HIDE DEF n
<1>5. order \in Surjection(1..n, F)  BY <1>3, <1>4, FS_Injection DEF n
<1>6. \A e \in F : \E i \in 1..n : order[i] = e  BY <1>5 DEF Surjection
<1>7. order \in Seq(F) /\ Len(order) = n /\ DOMAIN order = 1..n  BY <1>1, <1>2
<1>8. order = <<>> => n = 0  BY <1>7
<1>9. order # <<>> => n # 0 /\ Last(order) = order[n]  BY <1>7 DEF Last
<1>10. ASSUME order # <<>>, NEW e \in F PROVE e.time <= order[n].time
  <2>1. PICK i \in 1..n : order[i] = e  BY <1>6
  <2>2. n \in 1..n /\ (i = n \/ i < n)  BY <1>1, <1>9, <1>10
  <2> QED  BY <1>2, <1>7, <2>1, <2>2
<1>11. order # <<>> => order[n] \in F  BY <1>1, <1>2, <1>9
<1>12. order = <<>> => F = {}  BY <1>1, <1>6, <1>8
<1> QED  BY <1>2, <1>6, <1>7, <1>9, <1>10, <1>11, <1>12

\* An answer is shown.
LEMMA HandleStep == ASSUME TracesInv, NEW a \in polls, Handle(a) PROVE TracesInv'
<1>0. /\ clock \in Nat /\ EventsOK /\ AnswersOK /\ ShownOK /\ InOrder /\ watch \in WatchRow /\ polled \in PolledRow
      /\ watch.last <= clock /\ polled.upTo <= clock /\ entry \in [Entries -> EntryRow]
      /\ traceFaults \in 0..MaxTraceFaults
  BY DEF TracesInv, TracesTyped
<1>1. /\ EntriesRest /\ polls' = polls \ {a} /\ polled' = polled /\ traceFaults' = traceFaults
      /\ clock' = clock /\ events' = events /\ entry' = entry
  BY Zenon DEF Handle, EntriesRest
<1>2. PICK order \in SetToSeqs(a.found) : /\ \A i, k \in DOMAIN order : i < k => order[i].time <= order[k].time
                                          /\ watch' = Shown(order)
  BY Zenon DEF Handle
<1>3. IsFiniteSet(a.found) /\ \A e \in a.found : EventOK(e) /\ e.time <= polled.upTo  BY <1>0 DEF AnswersOK
<1>4. \A e \in a.found : e.time \in Nat  BY <1>3 DEF EventOK
<1>5. /\ order \in Seq(a.found)
      /\ \A i, k \in DOMAIN order : order[i] = order[k] => i = k
      /\ \A e \in a.found : \E i \in DOMAIN order : order[i] = e
      /\ order = <<>> => a.found = {}
      /\ order # <<>> => Last(order) \in a.found /\ \A e \in a.found : e.time <= Last(order).time
  BY <1>2, <1>3, <1>4, OrderIs
<1>6. watch.at \in {"open", "silent"}  BY <1>0 DEF ShownOK, WatchRow
<1>7. AnswersOK'  BY <1>0, <1>1 DEF AnswersOK, EventOK, EventStored
<1>8. CASE order = <<>>
  <2>1. watch' = watch  BY <1>2, <1>8 DEF Shown
  <2>2. ShownOK'  BY <1>0, <1>1, <1>6, <2>1 DEF ShownOK, EventStored
  <2>3. InOrder'  BY <1>0, <1>1, <2>1 DEF InOrder
  <2> QED  BY <1>0, <1>1, <1>7, <2>1, <2>2, <2>3, StreamMoves
<1>9. CASE order # <<>>
  <2> DEFINE ids == [i \in DOMAIN order |-> order[i].id]  t == Last(order).time  shown == watch.shown \o ids
             done == watch.done \/ (watch.of = "gateway" /\ \E i \in DOMAIN order : order[i].ends)
             w1 == [watch EXCEPT !.shown = shown]  w2 == [w1 EXCEPT !.last = t]  d == [w2 EXCEPT !.done = done]
  <2>1. watch' = [watch EXCEPT !.shown = shown, !.last = t, !.done = done]  BY <1>2, <1>9, Zenon DEF Shown
  <2>2. t \in Nat /\ t <= polled.upTo /\ \A e \in a.found : e.time <= t  BY <1>3, <1>4, <1>5, <1>9
  <2>3. \A i \in DOMAIN order : /\ order[i] \in a.found /\ EventOK(order[i]) /\ order[i].id \in Entries
                                /\ order[i].time <= t
    BY <1>3, <1>5, <2>2 DEF EventOK, EventRow
  <2>4. ids \in Seq(Entries) /\ DOMAIN ids = DOMAIN order /\ \A i \in DOMAIN order : ids[i] = order[i].id
    BY <1>5, <2>3
  <2>5. done \in BOOLEAN  BY <1>0 DEF WatchRow
  <2>6. watch.done => done  OBVIOUS
  <2>7. done => watch.done \/ (watch.of = "gateway" /\ \E i \in DOMAIN order : order[i].ends)  OBVIOUS
  <2> HIDE DEF ids, t, done
  <2>8. watch.shown \in Seq(Entries)  BY <1>0 DEF WatchRow
  <2> DEFINE L == Len(watch.shown)
  <2>0. shown = watch.shown \o ids /\ L = Len(watch.shown)  OBVIOUS
  <2> HIDE DEF shown, L
  <2>9. /\ shown \in Seq(Entries)
        /\ \A i \in DOMAIN watch.shown : i \in DOMAIN shown /\ shown[i] = watch.shown[i]
        /\ \A k \in DOMAIN ids : L + k \in DOMAIN shown /\ shown[L + k] = ids[k]
        /\ \A i \in DOMAIN shown : i \in DOMAIN watch.shown \/ \E k \in DOMAIN ids : i = L + k
    <3> DEFINE f == watch.shown
    <3>1. f \in Seq(Entries) /\ shown = f \o ids /\ L = Len(f)  BY <2>0, <2>8
    <3> HIDE DEF f
    <3>2. shown \in Seq(Entries) /\ FollowedBy(shown, f, ids)  BY <2>4, <3>1, Follows, Zenon
    <3>3. /\ \A i \in DOMAIN f : i \in DOMAIN shown /\ shown[i] = f[i]
          /\ \A k \in DOMAIN ids : L + k \in DOMAIN shown /\ shown[L + k] = ids[k]
          /\ \A i \in DOMAIN shown : i \in DOMAIN f \/ \E k \in DOMAIN ids : i = L + k
      BY <3>1, <3>2, Zenon DEF FollowedBy
    <3> QED  BY <3>2, <3>3 DEF f
  <2>10. watch' = d  BY <1>0, <2>1 DEF WatchRow
  <2>11. /\ w1 \in WatchRow /\ w1.shown = shown /\ w1.at = watch.at /\ w1.of = watch.of /\ w1.since = watch.since
         /\ w1.done = watch.done
    BY <1>0, <2>9 DEF WatchRow
  <2> HIDE DEF w1
  <2>12. /\ w2 \in WatchRow /\ w2.shown = shown /\ w2.at = watch.at /\ w2.of = watch.of /\ w2.since = watch.since
         /\ w2.last = t
    BY <2>2, <2>11 DEF WatchRow
  <2> HIDE DEF w2
  <2>13. /\ d \in WatchRow /\ d.shown = shown /\ d.at = watch.at /\ d.of = watch.of /\ d.since = watch.since
         /\ d.last = t
    BY <2>5, <2>12 DEF WatchRow
  <2>14. d.done = done  BY <2>5, <2>12 DEF WatchRow
  <2> HIDE DEF d
  <2>15. \A i \in DOMAIN order : /\ EventStored(order[i].id) /\ order[i].ends = entry[order[i].id].ends
                                 /\ order[i].time = entry[order[i].id].time
    BY <2>3 DEF EventOK
  <2>16. ShownOK'
    <3>1. ASSUME NEW i \in DOMAIN shown PROVE EventStored(shown[i])
      <4>1. CASE i \in DOMAIN watch.shown
        <5>1. shown[i] = watch.shown[i]  BY <2>9, <4>1
        <5> QED  BY <1>0, <4>1, <5>1 DEF ShownOK
      <4>2. CASE \E k \in DOMAIN ids : i = L + k
        <5>1. PICK k \in DOMAIN ids : i = L + k  BY <4>2
        <5>2. shown[i] = ids[k]  BY <2>9, <5>1
        <5> QED  BY <2>4, <2>15, <5>1, <5>2
      <4> QED  BY <2>9, <4>1, <4>2
    <3>2. done => watch.of = "gateway" /\ \E i \in DOMAIN shown : entry[shown[i]].ends
      <4>1. CASE watch.done  BY <1>0, <2>9, <4>1 DEF ShownOK
      <4>2. CASE ~watch.done  BY <2>4, <2>7, <2>9, <2>15, <4>2
      <4> QED  BY <4>1, <4>2
    <3> QED  BY <1>1, <1>6, <2>2, <2>10, <2>13, <2>14, <3>1, <3>2 DEF ShownOK, EventStored
  <2>17. InOrder'
    <3> SUFFICES ASSUME watch.at = "open", ~polled.overlap PROVE InOrder'
      BY <1>1, <1>6, <2>10, <2>13 DEF InOrder
    <3>1. polls' = {}  BY <1>0, <1>1 DEF InOrder
    <3>2. watch.last \in Nat /\ \A e \in a.found : watch.last < e.time  BY <1>0 DEF InOrder, WatchRow
    <3>3. /\ \A i, k \in DOMAIN watch.shown : watch.shown[i] = watch.shown[k] => i = k
          /\ \A i \in DOMAIN watch.shown : entry[watch.shown[i]].time <= watch.last
          /\ \A e \in events : watch.since < e.time /\ e.time <= watch.last =>
               e.id \in polled.late \/ \E i \in DOMAIN watch.shown : watch.shown[i] = e.id
          /\ \A e \in events : watch.last < e.time => e \in a.found \/ e.id \in polled.late \/ polled.upTo < e.time
      BY <1>0 DEF InOrder
    <3>4. \A i, k \in DOMAIN order : ids[i] = ids[k] => i = k
      <4> SUFFICES ASSUME NEW i \in DOMAIN order, NEW k \in DOMAIN order, order[i].id = order[k].id PROVE i = k
        BY <2>4
      <4>1. order[i] = order[k]  BY <2>3 DEF EventOK
      <4> QED  BY <1>5, <4>1
    <3>5. \A k \in DOMAIN order : entry[ids[k]].time <= t /\ watch.last < entry[ids[k]].time
      BY <2>3, <2>4, <2>15, <3>2
    <3>6. \A i \in DOMAIN watch.shown, k \in DOMAIN order : watch.shown[i] # ids[k]
      <4> SUFFICES ASSUME NEW i \in DOMAIN watch.shown, NEW k \in DOMAIN order, watch.shown[i] = ids[k] PROVE FALSE
        OBVIOUS
      <4> DEFINE x == entry[ids[k]].time
      <4>1. x <= watch.last /\ watch.last < x  BY <3>3, <3>5
      <4>2. x \in Nat  BY <1>4, <2>3, <2>4, <2>15
      <4> HIDE DEF x
      <4> QED  BY <3>2, <4>1, <4>2
    <3>7. ASSUME NEW i \in DOMAIN shown, NEW k \in DOMAIN shown, shown[i] = shown[k] PROVE i = k
      <4>1. CASE i \in DOMAIN watch.shown /\ k \in DOMAIN watch.shown  BY <2>9, <3>3, <3>7, <4>1
      <4>2. CASE i \notin DOMAIN watch.shown /\ k \notin DOMAIN watch.shown
        BY <2>4, <2>9, <3>4, <3>7, <4>2
      <4>3. CASE i \in DOMAIN watch.shown /\ k \notin DOMAIN watch.shown
        BY <2>4, <2>9, <3>6, <3>7, <4>3
      <4>4. CASE i \notin DOMAIN watch.shown /\ k \in DOMAIN watch.shown
        BY <2>4, <2>9, <3>6, <3>7, <4>4
      <4> QED  BY <4>1, <4>2, <4>3, <4>4
    <3>8. \A i \in DOMAIN shown : entry[shown[i]].time <= t
      <4> SUFFICES ASSUME NEW i \in DOMAIN shown PROVE entry[shown[i]].time <= t  OBVIOUS
      <4>1. CASE i \in DOMAIN watch.shown
        <5> DEFINE x == entry[shown[i]].time
        <5>1. x <= watch.last  BY <2>9, <3>3, <4>1
        <5>2. x \in Nat  BY <1>0, <2>9 DEF EntryRow
        <5>3. watch.last < t  BY <1>5, <1>9, <3>2 DEF t
        <5> HIDE DEF x
        <5>4. x <= t  BY <2>2, <3>2, <5>1, <5>2, <5>3
        <5> QED  BY <5>4 DEF x
      <4>2. CASE i \notin DOMAIN watch.shown  BY <2>4, <2>9, <3>5, <4>2
      <4> QED  BY <4>1, <4>2
    <3>9. ASSUME NEW e \in events, watch.since < e.time, e.time <= t
          PROVE  e.id \in polled.late \/ \E i \in DOMAIN shown : shown[i] = e.id
      <4>1. e.time \in Nat /\ polled.upTo \in Nat  BY <1>0 DEF EventsOK, EventOK, PolledRow
      <4>2. CASE e.time <= watch.last  BY <2>9, <3>3, <3>9, <4>2
      <4>3. CASE ~(e.time <= watch.last)
        <5>1. watch.last < e.time /\ ~(polled.upTo < e.time)  BY <2>2, <3>2, <3>9, <4>1, <4>3
        <5>2. e \in a.found \/ e.id \in polled.late  BY <3>3, <5>1
        <5>3. ASSUME e \in a.found PROVE \E i \in DOMAIN shown : shown[i] = e.id
          <6>1. PICK i \in DOMAIN order : order[i] = e  BY <1>5, <5>3
          <6>2. ids[i] = e.id /\ i \in DOMAIN ids  BY <2>4, <6>1
          <6> QED  BY <2>9, <6>2
        <5> QED  BY <5>2, <5>3
      <4> QED  BY <4>2, <4>3
    <3> QED  BY <1>1, <2>10, <2>13, <3>1, <3>7, <3>8, <3>9 DEF InOrder
  <2>18. d.last <= clock
    <3>1. polled.upTo \in Nat  BY <1>0 DEF PolledRow
    <3> QED  BY <1>0, <2>2, <2>13, <3>1
  <2> QED  BY <1>0, <1>1, <1>7, <2>10, <2>13, <2>16, <2>17, <2>18, StreamMoves
<1> QED  BY <1>8, <1>9

\* The stream ends after a completion it has shown.
LEMMA EndStep == ASSUME TracesInv, EndWatch PROVE TracesInv'
<1>0. /\ clock \in Nat /\ ShownOK /\ InOrder /\ watch \in WatchRow /\ polled \in PolledRow /\ watch.done
      /\ watch.last <= clock /\ polled.upTo <= clock /\ traceFaults \in 0..MaxTraceFaults /\ watch.at = "open"
  BY DEF TracesInv, TracesTyped, EndWatch
<1>1. /\ EntriesRest /\ polls' = {} /\ polled' = polled /\ traceFaults' = traceFaults
      /\ clock' = clock /\ events' = events /\ entry' = entry /\ watch' = [watch EXCEPT !.at = "ended"]
  BY Zenon DEF EndWatch, EntriesRest
<1>2. /\ watch' \in WatchRow /\ watch'.at = "ended" /\ watch'.last = watch.last /\ watch'.since = watch.since
      /\ watch'.shown = watch.shown /\ watch'.of = watch.of
  BY <1>0, <1>1 DEF WatchRow
<1>3. watch'.done = watch.done  BY <1>0, <1>1 DEF WatchRow
<1>4. AnswersOK'  BY <1>1 DEF AnswersOK
<1>5. ShownOK'  BY <1>0, <1>1, <1>2, <1>3 DEF ShownOK, EventStored
<1>6. InOrder'  BY <1>0, <1>1, <1>2 DEF InOrder
<1> QED  BY <1>0, <1>1, <1>2, <1>4, <1>5, <1>6, StreamMoves

\* A poll fails: the stream is silent from then on, at the gateway it asks on.
LEMMA PollFailsStep == ASSUME TracesAssumption, TracesInv, NEW a \in polls, PollFails(a) PROVE TracesInv'
<1>0. /\ clock \in Nat /\ AnswersOK /\ ShownOK /\ InOrder /\ watch \in WatchRow /\ polled \in PolledRow
      /\ watch.last <= clock /\ polled.upTo <= clock /\ traceFaults \in 0..MaxTraceFaults
  BY DEF TracesInv, TracesTyped
<1>1. /\ EntriesRest /\ polls' = polls \ {a} /\ polled' = polled /\ traceFaults' = traceFaults + 1
      /\ clock' = clock /\ events' = events /\ entry' = entry /\ traceFaults < MaxTraceFaults
      /\ watch' = IF watch.of = "trace" THEN [watch EXCEPT !.at = "silent"] ELSE watch
  BY Zenon DEF PollFails, EntriesRest
<1>2. watch.at \in {"open", "silent"}  BY <1>0 DEF ShownOK, WatchRow
<1>3. /\ watch' \in WatchRow /\ watch'.at \in {"silent", watch.at} /\ watch'.last = watch.last
      /\ watch'.since = watch.since /\ watch'.shown = watch.shown /\ watch'.of = watch.of
  BY <1>0, <1>1 DEF WatchRow
<1>4. watch'.done = watch.done  BY <1>0, <1>1 DEF WatchRow
<1>5. AnswersOK'  BY <1>0, <1>1 DEF AnswersOK, EventOK, EventStored
<1>6. ShownOK'  BY <1>0, <1>1, <1>2, <1>3, <1>4 DEF ShownOK, EventStored
<1>7. InOrder'  BY <1>0, <1>1, <1>2, <1>3 DEF InOrder
<1>8. traceFaults' \in 0..MaxTraceFaults  BY <1>0, <1>1 DEF TracesAssumption
<1> QED  BY <1>0, <1>1, <1>3, <1>5, <1>6, <1>7, <1>8, StreamMoves

\* The browser goes: what was shown is forgotten.
LEMMA CloseStep == ASSUME TracesInv, CloseWatch PROVE TracesInv'
<1> DEFINE w1 == [watch EXCEPT !.at = "closed"]  w2 == [w1 EXCEPT !.last = 0]  w3 == [w2 EXCEPT !.shown = <<>>]
           w4 == [w3 EXCEPT !.since = 0]
<1>0. /\ clock \in Nat /\ watch \in WatchRow /\ polled \in PolledRow
      /\ polled.upTo <= clock /\ traceFaults \in 0..MaxTraceFaults
  BY DEF TracesInv, TracesTyped
<1>1. /\ EntriesRest /\ polls' = {} /\ polled' = polled /\ traceFaults' = traceFaults
      /\ watch' = [watch EXCEPT !.at = "closed", !.last = 0, !.shown = <<>>, !.since = 0, !.done = FALSE]
  BY Zenon DEF CloseWatch
<1>2. PICK f : f = FALSE  BY Zenon
<1>3. watch' = [watch EXCEPT !.at = "closed", !.last = 0, !.shown = <<>>, !.since = 0, !.done = f]
  BY <1>1, <1>2, Zenon
<1>4. f \in BOOLEAN /\ ~f  BY <1>2, Zenon
<1> DEFINE d == [w4 EXCEPT !.done = f]
<1>5. watch' = d  BY <1>0, <1>3 DEF WatchRow
<1>6. w1 \in WatchRow /\ w1.at = "closed"  BY <1>0 DEF WatchRow
<1> HIDE DEF w1
<1>7. w2 \in WatchRow /\ w2.at = "closed" /\ w2.last = 0  BY <1>6 DEF WatchRow
<1> HIDE DEF w2
<1>8. w3 \in WatchRow /\ w3.at = "closed" /\ w3.last = 0 /\ w3.shown = <<>>
  <2>1. <<>> \in Seq(Entries)  OBVIOUS
  <2> QED  BY <1>7, <2>1 DEF WatchRow
<1> HIDE DEF w3
<1>9. w4 \in WatchRow /\ w4.at = "closed" /\ w4.last = 0 /\ w4.shown = <<>> /\ w4.since = 0  BY <1>8 DEF WatchRow
<1> HIDE DEF w4
<1>10. d \in WatchRow /\ d.at = "closed" /\ d.last = 0 /\ d.shown = <<>> /\ d.since = 0
  BY <1>4, <1>9 DEF WatchRow
<1>11. d.done = f  BY <1>9 DEF WatchRow
<1> HIDE DEF d
<1>12. AnswersOK' /\ InOrder'  BY <1>1, <1>5, <1>10 DEF AnswersOK, InOrder
<1>13. ShownOK'  BY <1>1, <1>4, <1>5, <1>10, <1>11 DEF ShownOK
<1> QED  BY <1>0, <1>1, <1>5, <1>10, <1>12, <1>13, StreamMoves

\* Every step keeps the invariant.
LEMMA TracesStep == ASSUME TracesAssumption, TracesInv, [NextTraces]_tracesVars PROVE TracesInv'
<1>1. CASE Tick \/ \E k \in Editors : FindTrace(k, "update") \/ FindTrace(k, "delete") \/ updateTrace(k) \/ deleteTrace(k)
  BY <1>1, EditSteps
<1>2. ASSUME NEW p \in Entries, \/ \E c \in Contents : FindTraceSession(p, c)
                                \/ StampEvent(p) \/ StoreEvent(p) \/ CountTokens(p) \/ TraceFault(p)
      PROVE  TracesInv'
  BY <1>2, FindSessionStep, StampStep, StoreStep, CountStep, TraceFaultStep
<1>3. CASE OpenWatch \/ Poll \/ EndWatch \/ CloseWatch  BY <1>3, OpenStep, PollStep, EndStep, CloseStep
<1>4. ASSUME NEW a \in polls, Handle(a) \/ PollFails(a) PROVE TracesInv'  BY <1>4, HandleStep, PollFailsStep
<1>5. CASE UNCHANGED tracesVars
  BY <1>5 DEF tracesVars, TracesInv, TracesTyped, EventsOK, AnswersOK, ShownOK, InOrder, EventOK, EventStored, Posting
<1> QED  BY <1>1, <1>2, <1>3, <1>4, <1>5, Zenon DEF NextTraces

\* So it holds always.
LEMMA TracesHold == SpecTraces => []TracesInv
<1>1. InitTraces => TracesInv  BY TracesAssumption, TracesStart
<1>2. TracesInv /\ [NextTraces]_tracesVars => TracesInv'  BY TracesAssumption, TracesStep
<1> QED  BY <1>1, <1>2, PTL DEF SpecTraces

\* The clock, the sessions' counts, the events and the stream have their types, and an event's
\* time is not after the clock's (trace-service.ts:232-286, trace.controller.ts:239-265).
THEOREM TracesTypeCorrect == SpecTraces => []TracesTypeOK
<1>1. TracesInv => TracesTypeOK
  <2> SUFFICES ASSUME TracesInv PROVE TracesTypeOK  OBVIOUS
  <2>1. clock \in 0..MaxTime  BY DEF TracesInv, TracesTyped
  <2>2. \A e \in events : e.id \in Entries /\ e.in \in Sessions /\ e.time \in 1..clock
    BY DEF TracesInv, EventsOK, EventOK, EventRow
  <2>3. watch.at \in {"unopened", "open", "silent", "ended", "closed"} /\ watch.last \in 0..clock
    BY DEF TracesInv, TracesTyped, WatchRow
  <2> QED  BY <2>1, <2>2, <2>3 DEF TracesInv, TracesTyped, TracesTypeOK
<1> QED  BY <1>1, TracesHold, PTL

\* As long as no answer takes longer than two seconds the stream shows no event twice and passes
\* none but those stored too late, and the gateway ends one only for a completion it has shown
\* (trace.controller.ts:239-265, gateway.controller.ts:89-141).
THEOREM AlwaysShowsOnce == SpecTraces => []StreamShowsOnce
<1>1. TracesInv => StreamShowsOnce
  <2> SUFFICES ASSUME TracesInv PROVE StreamShowsOnce  OBVIOUS
  <2>1. ASSUME watch.at \in {"open", "ended"}, ~polled.overlap
        PROVE  /\ IsInjective(watch.shown)
               /\ \A e \in events : watch.since < e.time /\ e.time <= watch.last =>
                    e.id \in ToSet(watch.shown) \cup polled.late
    BY <2>1 DEF TracesInv, InOrder, IsInjective, ToSet
  <2>2. ASSUME watch.at = "ended"
        PROVE  watch.of = "gateway" /\ \E i \in DOMAIN watch.shown : entry[watch.shown[i]].ends
    BY <2>2 DEF TracesInv, ShownOK
  <2> QED  BY <2>1, <2>2 DEF StreamShowsOnce
<1> QED  BY <1>1, TracesHold, PTL

----------------------------------------------------------------------------
(***************************************************************************)
(* Proofs about what the sessions of a trace add up to.  The graph is a    *)
(* fold over sessions, for which there is a function on their subsets, as  *)
(* for a sum: that it exists, and what it is, is shown with the smallest   *)
(* set of sessions for which it would not be so.                           *)
(***************************************************************************)

\* The function that the definition of FlowNodes chooses.
Draws(f, S) == f = [s \in SUBSET S |-> IF s = {} THEN <<>> ELSE WithSession(f[s \ {Max(s)}], Max(s))]

LEMMA FlowIs == FlowNodes = (CHOOSE f : Draws(f, Sessions))[Sessions]
  BY Zenon DEF FlowNodes, MapThenFoldSet, Draws

LEMMA LatestOf ==
  ASSUME TracesAssumption, NEW s \in SUBSET Sessions, s # {}
  PROVE  Max(s) \in s
<1>1. IsFiniteSet(s) /\ s \in SUBSET Nat  BY FS_Subset DEF TracesAssumption
<1> QED BY ONLY <1>1, s # {}, MaxIs

LEMMA DrawsStep ==
  ASSUME TracesAssumption, NEW f, NEW S \in SUBSET Sessions, Draws(f, S), NEW s \in SUBSET S, s # {}
  PROVE  Max(s) \in s /\ f[s] = WithSession(f[s \ {Max(s)}], Max(s))
<1>1. Max(s) \in s  BY LatestOf
<1>2. f[s] = IF s = {} THEN <<>> ELSE WithSession(f[s \ {Max(s)}], Max(s))  BY Zenon DEF Draws
<1> QED BY <1>1, <1>2

LEMMA DrawsNothing ==
  ASSUME NEW f, NEW S, Draws(f, S)
  PROVE  f[{}] = <<>>
<1>1. {} \in SUBSET S  OBVIOUS
<1>2. f[{}] = IF {} = {} THEN <<>> ELSE WithSession(f[{} \ {Max({})}], Max({}))  BY <1>1, Zenon DEF Draws
<1> QED BY <1>2

\* Two such functions agree where both are defined.
LEMMA DrawsAgree ==
  ASSUME TracesAssumption, NEW f, NEW U \in SUBSET Sessions, Draws(f, U), NEW e, NEW V \in SUBSET Sessions, Draws(e, V),
         NEW W, W \subseteq U, W \subseteq V
  PROVE  f[W] = e[W]
<1> SUFFICES ASSUME f[W] # e[W] PROVE FALSE  OBVIOUS
<1> DEFINE C == {t \in SUBSET W : f[t] # e[t]}
<1>1. C # {} /\ C \in SUBSET (SUBSET W)  OBVIOUS
<1>2. PICK t \in C : \A u \in C : u \subseteq t => u = t
  <2>1. IsFiniteSet(W)  BY FS_Subset DEF TracesAssumption
  <2> HIDE DEF C
  <2> QED BY ONLY <1>1, <2>1, Smallest
<1>3. t \in SUBSET U /\ t \in SUBSET V /\ t \in SUBSET W /\ f[t] # e[t]  OBVIOUS
<1>4. t # {}  BY <1>3, DrawsNothing
<1>5. Max(t) \in t /\ f[t] = WithSession(f[t \ {Max(t)}], Max(t))  BY <1>3, <1>4, DrawsStep
<1>6. e[t] = WithSession(e[t \ {Max(t)}], Max(t))  BY <1>3, <1>4, DrawsStep
<1>7. t \ {Max(t)} \notin C  BY <1>2, <1>5
<1>8. f[t \ {Max(t)}] = e[t \ {Max(t)}]  BY <1>3, <1>7
<1> QED BY <1>3, <1>5, <1>6, <1>8

\* ... and there is one.
LEMMA DrawsExist ==
  ASSUME TracesAssumption
  PROVE  \E f : Draws(f, Sessions)
<1> SUFFICES ASSUME ~ \E f : Draws(f, Sessions) PROVE FALSE  OBVIOUS
<1> DEFINE C == {T \in SUBSET Sessions : ~ \E f : Draws(f, T)}
<1>1. C # {} /\ C \in SUBSET (SUBSET Sessions)  OBVIOUS
<1>2. PICK T \in C : \A U \in C : U \subseteq T => U = T
  <2>1. IsFiniteSet(Sessions)  BY DEF TracesAssumption
  <2> HIDE DEF C
  <2> QED BY ONLY <1>1, <2>1, Smallest
<1>3. T \in SUBSET Sessions /\ ~ \E f : Draws(f, T)  OBVIOUS
<1> DEFINE F(u) == CHOOSE f : Draws(f, u)
<1>4. ASSUME NEW u \in SUBSET T, u # T PROVE Draws(F(u), u) /\ u \in SUBSET Sessions
  <2>1. u \notin C /\ u \in SUBSET Sessions  BY <1>2, <1>3, <1>4
  <2>2. \E f : Draws(f, u)  BY <2>1
  <2> QED BY <2>1, <2>2
<1> HIDE DEF C, F
<1> DEFINE rest(s) == s \ {Max(s)}
           f == [s \in SUBSET T |-> IF s = {} THEN <<>> ELSE WithSession(F(rest(s))[rest(s)], Max(s))]
<1>5. ASSUME NEW u \in SUBSET T, u # T PROVE f[u] = F(u)[u]
  <2>0. Draws(F(u), u) /\ u \in SUBSET Sessions  BY <1>4, <1>5
  <2>1. CASE u = {}
    <3>1. F(u)[u] = <<>>  BY <2>0, <2>1, DrawsNothing
    <3> QED BY <2>1, <3>1
  <2>2. CASE u # {}
    <3>1. Max(u) \in u /\ F(u)[u] = WithSession(F(u)[rest(u)], Max(u))  BY <2>0, <2>2, DrawsStep
    <3>2. rest(u) \in SUBSET u /\ rest(u) \in SUBSET T /\ rest(u) # T  BY <1>5, <3>1
    <3>3. Draws(F(rest(u)), rest(u)) /\ rest(u) \in SUBSET Sessions  BY <1>4, <3>2
    <3>4. rest(u) \subseteq u /\ rest(u) \subseteq rest(u)  BY <3>2
    <3>6. f[u] = WithSession(F(rest(u))[rest(u)], Max(u))  BY <2>2
    <3> HIDE DEF rest, f
    <3>5. F(u)[rest(u)] = F(rest(u))[rest(u)]  BY <2>0, <3>3, <3>4, DrawsAgree
    <3> QED BY <3>1, <3>5, <3>6
  <2> QED BY <2>1, <2>2
<1>6. Draws(f, T)
  <2>1. ASSUME NEW s \in SUBSET T
        PROVE  f[s] = IF s = {} THEN <<>> ELSE WithSession(f[s \ {Max(s)}], Max(s))
    <3>1. CASE s = {}  BY <3>1
    <3>2. CASE s # {}
      <4>1. Max(s) \in s  BY <1>3, <3>2, LatestOf
      <4>2. rest(s) \in SUBSET T /\ rest(s) # T  BY <4>1
      <4>3. f[rest(s)] = F(rest(s))[rest(s)]
        <5> HIDE DEF rest, f
        <5> QED BY <1>5, <4>2
      <4>4. f[s] = WithSession(F(rest(s))[rest(s)], Max(s))  BY <3>2
      <4> HIDE DEF f
      <4> QED BY <3>2, <4>3, <4>4
    <3> QED BY <3>1, <3>2
  <2>2. f = [s \in SUBSET T |-> f[s]]  OBVIOUS
  <2> HIDE DEF f
  <2>3. f = [s \in SUBSET T |-> IF s = {} THEN <<>> ELSE WithSession(f[s \ {Max(s)}], Max(s))]  BY <2>1, <2>2
  <2> QED BY <2>3 DEF Draws
<1> QED BY <1>3, <1>6

\* What a graph of some sessions has.
Of(S, a) == {s \in S : tracked[s].agent = a}
TokensIn == [s \in Sessions |-> tracked[s].tokens]
Drawn(nodes, S) ==
  /\ DOMAIN nodes = {tracked[s].agent : s \in S}
  /\ \A a \in DOMAIN nodes : /\ nodes[a].cost = SumFunctionOnSet(TokensIn, Of(S, a))
                             /\ nodes[a].status = "error" <=> \E s \in Of(S, a) : tracked[s].status = "error"

\* It has one more after the session is added.
LEMMA AddsSession ==
  ASSUME TracesAssumption, TracesTyped, NEW S \in SUBSET Sessions, NEW s \in Sessions \ S, NEW nodes, Drawn(nodes, S)
  PROVE  Drawn(WithSession(nodes, s), S \cup {s})
<1> DEFINE a == tracked[s].agent
           new == WithSession(nodes, s)
           n == tracked[s].tokens
<1>1. /\ DOMAIN nodes = {tracked[t].agent : t \in S}
      /\ \A b \in DOMAIN nodes : /\ nodes[b].cost = SumFunctionOnSet(TokensIn, Of(S, b))
                                 /\ nodes[b].status = "error" <=> \E t \in Of(S, b) : tracked[t].status = "error"
  BY DEF Drawn
<1>2. /\ DOMAIN new = DOMAIN nodes \cup {a}
      /\ \A b \in DOMAIN nodes : b # a => new[b] = nodes[b]
      /\ a \notin DOMAIN nodes => new[a].cost = n /\ new[a].status = tracked[s].status
      /\ a \in DOMAIN nodes => /\ new[a].cost = nodes[a].cost + n
                               /\ new[a].status = IF tracked[s].status = "error" THEN "error" ELSE nodes[a].status
  BY DEF WithSession
<1>3. DOMAIN new = {tracked[t].agent : t \in S \cup {s}}
  <2> HIDE DEF new
  <2>1. {tracked[t].agent : t \in S \cup {s}} = {tracked[t].agent : t \in S} \cup {tracked[s].agent}  OBVIOUS
  <2> QED BY <1>1, <1>2, <2>1
<1> HIDE DEF new
<1>4. Of(S \cup {s}, a) = Of(S, a) \cup {s} /\ s \notin Of(S, a)  BY DEF Of
<1>5. \A b : b # a => Of(S \cup {s}, b) = Of(S, b)  BY DEF Of
<1>6. IsFiniteSet(Of(S, a)) /\ TokensIn[s] = n /\ n \in Nat /\ \A t \in Of(S, a) \cup {s} : TokensIn[t] \in Int
  <2>1. IsFiniteSet(Of(S, a))  BY FS_Subset DEF TracesAssumption, Of
  <2>2. \A t \in Sessions : TokensIn[t] = tracked[t].tokens /\ tracked[t].tokens \in Nat  BY DEF TokensIn, TracesTyped
  <2> QED BY <2>1, <2>2 DEF Of
<1>7. SumFunctionOnSet(TokensIn, Of(S \cup {s}, a)) = SumFunctionOnSet(TokensIn, Of(S, a)) + n
  <2>1. SumFunctionOnSet(TokensIn, Of(S, a) \cup {s}) = SumFunctionOnSet(TokensIn, Of(S, a)) + TokensIn[s]
    BY <1>4, <1>6, SumAdd
  <2> QED BY <1>4, <1>6, <2>1
<1>8. /\ new[a].cost = SumFunctionOnSet(TokensIn, Of(S \cup {s}, a))
      /\ new[a].status = "error" <=> \E t \in Of(S \cup {s}, a) : tracked[t].status = "error"
  <2>1. CASE a \in DOMAIN nodes
    <3>1. new[a].status = "error" <=> tracked[s].status = "error" \/ nodes[a].status = "error"  BY <1>2, <2>1
    <3> QED BY <1>1, <1>2, <1>4, <1>7, <2>1, <3>1
  <2>2. CASE a \notin DOMAIN nodes
    <3>1. Of(S, a) = {}  BY <1>1, <2>2 DEF Of
    <3>2. SumFunctionOnSet(TokensIn, Of(S, a)) = 0  BY <3>1, SumEmpty
    <3>3. new[a].cost = SumFunctionOnSet(TokensIn, Of(S \cup {s}, a))  BY <1>2, <1>6, <1>7, <2>2, <3>2
    <3>4. Of(S \cup {s}, a) = {s}  BY <1>4, <3>1
    <3>5. new[a].status = tracked[s].status  BY <1>2, <2>2
    <3> QED BY <3>3, <3>4, <3>5
  <2> QED BY <2>1, <2>2
<1>9. ASSUME NEW b \in DOMAIN new, b # a
      PROVE  /\ new[b].cost = SumFunctionOnSet(TokensIn, Of(S \cup {s}, b))
             /\ new[b].status = "error" <=> \E t \in Of(S \cup {s}, b) : tracked[t].status = "error"
  BY <1>1, <1>2, <1>5, <1>9
<1> QED BY <1>3, <1>8, <1>9 DEF Drawn, new

LEMMA GraphIsDrawn ==
  ASSUME TracesAssumption, TracesTyped
  PROVE  Drawn(FlowNodes, Sessions)
<1>1. PICK f : f = CHOOSE g : Draws(g, Sessions)  OBVIOUS
<1>2. Draws(f, Sessions)  BY <1>1, DrawsExist
<1>3. FlowNodes = f[Sessions]  BY <1>1, FlowIs
<1> SUFFICES ASSUME ~Drawn(f[Sessions], Sessions) PROVE FALSE  BY <1>3
<1> DEFINE C == {T \in SUBSET Sessions : ~Drawn(f[T], T)}
<1>4. C # {} /\ C \in SUBSET (SUBSET Sessions)  OBVIOUS
<1>5. PICK T \in C : \A U \in C : U \subseteq T => U = T
  <2>1. IsFiniteSet(Sessions)  BY DEF TracesAssumption
  <2> HIDE DEF C
  <2> QED BY ONLY <1>4, <2>1, Smallest
<1>6. T \in SUBSET Sessions /\ ~Drawn(f[T], T)  OBVIOUS
<1>7. T # {}
  <2>1. f[{}] = <<>>  BY <1>2, DrawsNothing
  <2>2. Drawn(<<>>, {})  BY DEF Drawn
  <2> QED BY <1>6, <2>1, <2>2
<1>8. PICK x, R : x = Max(T) /\ x \in T /\ R = T \ {x}  BY <1>6, <1>7, LatestOf
<1>9. f[T] = WithSession(f[R], x)  BY <1>2, <1>6, <1>7, <1>8, DrawsStep
<1>10. Drawn(f[R], R)
  <2>1. R \notin C /\ R \in SUBSET Sessions  BY <1>5, <1>6, <1>8
  <2> QED BY <2>1
<1>11. R \in SUBSET Sessions /\ x \in Sessions \ R /\ T = R \cup {x}  BY <1>6, <1>8
<1>12. Drawn(WithSession(f[R], x), R \cup {x})  BY <1>10, <1>11, AddsSession
<1> QED BY <1>6, <1>9, <1>11, <1>12

LEMMA EdgesOfTree ==
  ASSUME TracesAssumption, TracesTyped
  PROVE  FlowEdges = {<<tracked[p[1]].agent, tracked[p[2]].agent>> : p \in {q \in Sessions \X Sessions : q[2] \in Children(q[1])}}
<1>1. PICK E : E = {<<tracked[p[1]].agent, tracked[p[2]].agent>> : p \in {q \in Sessions \X Sessions : q[2] \in Children(q[1])}}
  OBVIOUS
<1>2. ASSUME NEW c \in Sessions PROVE tracked[c].parent # NoSession <=> tracked[c].parent \in Sessions
  BY DEF TracesAssumption, TracesTyped
<1>3. ASSUME NEW x \in FlowEdges PROVE x \in E
  <2>1. PICK c \in Sessions : tracked[c].parent # NoSession /\ x = <<tracked[tracked[c].parent].agent, tracked[c].agent>>
    BY <1>3 DEF FlowEdges
  <2>2. PICK p : p = <<tracked[c].parent, c>>  OBVIOUS
  <2>3. p \in Sessions \X Sessions /\ p[1] = tracked[c].parent /\ p[2] = c  BY <1>2, <2>1, <2>2
  <2>4. p[2] \in Children(p[1])  BY <2>3 DEF Children
  <2> QED BY <1>1, <2>1, <2>3, <2>4
<1>4. ASSUME NEW x \in E PROVE x \in FlowEdges
  <2>1. PICK p \in Sessions \X Sessions : p[2] \in Children(p[1]) /\ x = <<tracked[p[1]].agent, tracked[p[2]].agent>>
    BY <1>1, <1>4
  <2>2. PICK c \in Sessions : c = p[2]  BY <2>1
  <2>3. tracked[c].parent = p[1] /\ p[1] \in Sessions  BY <2>1, <2>2 DEF Children
  <2> QED BY <1>2, <2>1, <2>2, <2>3 DEF FlowEdges
<1> QED BY <1>1, <1>3, <1>4

\* The graph adds up in every state whose sessions have their types.
LEMMA FlowHolds == ASSUME TracesAssumption, TracesTyped PROVE FlowAddsUp
<1>1. \A a : {s \in Sessions : tracked[s].agent = a} = Of(Sessions, a)  BY DEF Of
<1>2. Drawn(FlowNodes, Sessions)  BY GraphIsDrawn
<1> QED BY <1>1, <1>2, EdgesOfTree DEF FlowAddsUp, Drawn, TokensIn, Of
----------------------------------------------------------------------------
(* What sessions have counted.                                             *)

TokensOf == [e \in events |-> e.tokens]
Timed(s) == {e \in getSessionTimeline(s) : ~EntryIs(e.id, "count") /\ ~entry[e.id].faulted}

\* While the trace is there every event that is still to be counted is, and sessions have counted
\* the others; a request whose count has failed is at its end.
CountedOK ==
  /\ \A p \in Entries : entry[p].faulted => entry[p].at = "refused"
  /\ kept => /\ \A p \in Entries : EntryIs(p, "count") => \E e \in events : e.id = p
             /\ \A s \in Sessions : tracked[s].tokens = SumFunctionOnSet(TokensOf, Timed(s))

\* The event of a request, of which there is one.
LEMMA EventOf ==
  ASSUME EventsOK, NEW e \in events
  PROVE  /\ e.id \in Entries /\ e.in = entry[e.id].in /\ e.tokens = entry[e.id].tokens /\ e.tokens \in Nat
         /\ entry[e.id].at \in {"count", "posted", "refused"}
         /\ \A x \in events : x.id = e.id => x = e
<1>1. \A x \in events : x = [id |-> x.id, in |-> entry[x.id].in, time |-> entry[x.id].time, tokens |-> entry[x.id].tokens,
                             ends |-> entry[x.id].ends]
  BY DEF EventsOK, EventOK
<1>2. \A x \in events : x.id = e.id => x = e  BY <1>1
<1>3. e.in = entry[e.id].in /\ e.tokens = entry[e.id].tokens  BY DEF EventsOK, EventOK
<1>4. e.id \in Entries /\ e.tokens \in Nat /\ entry[e.id].at \in {"count", "posted", "refused"}
  BY DEF EventsOK, EventOK, EventRow, EventStored
<1> QED  BY <1>2, <1>3, <1>4

LEMMA TimedIs ==
  ASSUME EventsOK, NEW s
  PROVE  IsFiniteSet(Timed(s)) /\ \A e \in Timed(s) : e \in events /\ TokensOf[e] = e.tokens /\ e.tokens \in Nat
<1>1. Timed(s) \subseteq events  BY DEF Timed, getSessionTimeline
<1>2. IsFiniteSet(Timed(s))  BY <1>1, FS_Subset DEF EventsOK
<1> QED  BY <1>1, <1>2, EventOf DEF TokensOf

\* Nothing is counted while a request does not come to its count or leave it.
LEMMA CountsStay ==
  ASSUME EventsOK, CountedOK, events' = events, tracked' = tracked, kept' = kept,
         \A p \in Entries : /\ entry'[p].faulted => entry'[p].at = "refused"
                            /\ entry'[p].at = "count" => entry[p].at = "count"
                            /\ entry[p].at \in {"count", "posted", "refused"} =>
                                 (entry'[p].at = "count" \/ entry'[p].faulted <=> entry[p].at = "count" \/ entry[p].faulted)
  PROVE  CountedOK'
<1>1. \A s : Timed(s)' = Timed(s)  BY EventOf DEF Timed, getSessionTimeline, EntryIs
<1>2. TokensOf' = TokensOf  BY DEF TokensOf
<1> QED  BY <1>1, <1>2 DEF CountedOK, EntryIs

\* What becomes of a request that moves on.
LEMMA FaultedIs ==
  ASSUME TracesTyped, NEW p \in Entries, NEW at, EntryGoes(p, at)
  PROVE  /\ entry'[p].at = at /\ entry'[p].faulted = entry[p].faulted
         /\ \A q \in Entries \ {p} : entry'[q] = entry[q]
<1>1. entry \in [Entries -> EntryRow]  BY DEF TracesTyped
<1>2. entry' = [entry EXCEPT ![p].at = at]  BY DEF EntryGoes
<1>3. PICK r \in EntryRow : r = entry[p]  BY <1>1
<1>4. PICK d : d = [r EXCEPT !.at = at]  OBVIOUS
<1>5. entry' = [entry EXCEPT ![p] = d]  BY <1>1, <1>2, <1>3, <1>4
<1>6. d.at = at /\ d.faulted = r.faulted  BY ONLY <1>3, <1>4 DEF EntryRow
<1> QED  BY <1>1, <1>3, <1>5, <1>6

LEMMA FindsCounts ==
  ASSUME TracesInv, CountedOK, NEW p \in Entries, NEW c \in Contents, FindTraceSession(p, c)
  PROVE  CountedOK'
<1>1. entry \in [Entries -> EntryRow] /\ EventsOK  BY DEF TracesInv, TracesTyped
<1>2. entry[p].at = "idle" /\ UNCHANGED <<kept, tracked, events>>  BY DEF FindTraceSession, EntryIs, StreamRests
<1>3. PICK r, at : r \in EntryRow /\ r = entry[p] /\ at = IF kept THEN "stamp" ELSE "refused"  BY <1>1
<1>4. PICK d : d = [r EXCEPT !.at = at, !.in = c.in, !.tokens = c.tokens, !.ends = c.ends]  OBVIOUS
<1>5. entry' = [entry EXCEPT ![p] = d]
  <2>1. entry' = [entry EXCEPT ![p].at = at, ![p].in = c.in, ![p].tokens = c.tokens, ![p].ends = c.ends]
    BY <1>3 DEF FindTraceSession
  <2> QED  BY <1>1, <1>3, <1>4, <2>1
<1>6. d.at = at /\ d.faulted = r.faulted  BY ONLY <1>3, <1>4 DEF EntryRow
<1>7. entry'[p].at \in {"stamp", "refused"} /\ entry'[p].faulted = entry[p].faulted /\ \A q \in Entries \ {p} : entry'[q] = entry[q]
  BY <1>1, <1>3, <1>5, <1>6
<1>8. ~entry[p].faulted  BY <1>2 DEF CountedOK
<1> QED  BY <1>1, <1>2, <1>7, <1>8, CountsStay DEF CountedOK

LEMMA StampCounts ==
  ASSUME TracesInv, CountedOK, NEW p \in Entries, StampEvent(p)
  PROVE  CountedOK'
<1>1. entry \in [Entries -> EntryRow] /\ EventsOK  BY DEF TracesInv, TracesTyped
<1>2. entry[p].at = "stamp" /\ UNCHANGED <<kept, tracked, events>>  BY DEF StampEvent, EntryIs, StreamRests
<1>3. PICK r : r \in EntryRow /\ r = entry[p]  BY <1>1
<1>4. PICK d : d = [r EXCEPT !.at = "store", !.time = clock]  OBVIOUS
<1>5. entry' = [entry EXCEPT ![p] = d]
  <2>1. entry' = [entry EXCEPT ![p].at = "store", ![p].time = clock]  BY DEF StampEvent
  <2> QED  BY <1>1, <1>3, <1>4, <2>1
<1>6. d.at = "store" /\ d.faulted = r.faulted  BY ONLY <1>3, <1>4 DEF EntryRow
<1>7. entry'[p].at = "store" /\ entry'[p].faulted = entry[p].faulted /\ \A q \in Entries \ {p} : entry'[q] = entry[q]
  BY <1>1, <1>3, <1>5, <1>6
<1>8. ~entry[p].faulted  BY <1>2 DEF CountedOK
<1> QED  BY <1>1, <1>2, <1>7, <1>8, CountsStay DEF CountedOK

LEMMA FaultCounts ==
  ASSUME TracesInv, CountedOK, NEW p \in Entries, TraceFault(p)
  PROVE  CountedOK'
<1>1. entry \in [Entries -> EntryRow] /\ EventsOK  BY DEF TracesInv, TracesTyped
<1>2. entry[p].at \in {"stamp", "store", "count"} /\ UNCHANGED <<kept, tracked, events>>  BY DEF TraceFault
<1>3. PICK r, f : r \in EntryRow /\ r = entry[p] /\ f = (r.faulted \/ EntryIs(p, "count"))  BY <1>1
<1>4. PICK d : d = [r EXCEPT !.at = "refused", !.faulted = f]  OBVIOUS
<1>5. entry' = [entry EXCEPT ![p] = d]
  <2>1. entry' = [entry EXCEPT ![p].at = "refused", ![p].faulted = (@ \/ EntryIs(p, "count"))]
    BY Zenon DEF TraceFault
  <2>2. entry' = [entry EXCEPT ![p] = [r EXCEPT !.at = "refused", !.faulted = (@ \/ EntryIs(p, "count"))]]
    BY <1>1, <1>3, <2>1
  <2>3. [r EXCEPT !.at = "refused", !.faulted = (@ \/ EntryIs(p, "count"))] = d
    BY ONLY <1>3, <1>4 DEF EntryRow
  <2> QED  BY <2>2, <2>3, Zenon
<1>6. d.at = "refused" /\ d.faulted = f  BY ONLY <1>3, <1>4 DEF EntryRow
<1>7. entry'[p].at = "refused" /\ entry'[p].faulted = f /\ \A q \in Entries \ {p} : entry'[q] = entry[q]
  BY <1>1, <1>3, <1>5, <1>6
<1>8. f <=> entry[p].at = "count" \/ entry[p].faulted  BY <1>3 DEF EntryIs
<1> QED  BY <1>1, <1>2, <1>7, <1>8, CountsStay DEF CountedOK

\* A session counts the tokens of an event once.
LEMMA CountCounts ==
  ASSUME TracesInv, CountedOK, NEW p \in Entries, CountTokens(p)
  PROVE  CountedOK'
<1>1. EventsOK /\ TracesTyped /\ tracked \in [Sessions -> [agent : Workers, parent : Sessions \cup {NoSession}, status : Statuses, tokens : Nat]]
  BY DEF TracesInv, TracesTyped
<1>2. PICK at : at = IF kept THEN "posted" ELSE "refused"  OBVIOUS
<1>3. /\ entry[p].at = "count" /\ EntryGoes(p, at) /\ UNCHANGED <<kept, events>>
      /\ kept => tracked' = [tracked EXCEPT ![entry[p].in].tokens = Counted(entry[p].in, entry[p].tokens)]
  BY <1>2 DEF CountTokens, EntryIs, StreamRests
<1>4. entry'[p].at = at /\ entry'[p].faulted = entry[p].faulted /\ \A q \in Entries \ {p} : entry'[q] = entry[q]
  BY <1>1, <1>3, FaultedIs
<1>5. ~entry[p].faulted  BY <1>3 DEF CountedOK
<1>6. \A q \in Entries : entry'[q].faulted => entry'[q].at = "refused"  BY <1>4, <1>5 DEF CountedOK
<1>7. CASE ~kept  BY <1>3, <1>6, <1>7 DEF CountedOK
<1>8. CASE kept
  <2>1. PICK e \in events : e.id = p  BY <1>3, <1>8 DEF CountedOK, EntryIs
  <2>2. /\ e.in = entry[p].in /\ e.tokens = entry[p].tokens /\ e.tokens \in Nat /\ \A x \in events : x.id = p => x = e
    BY <1>1, <2>1, EventOf
  <2>3. PICK s \in Sessions : s = e.in  BY <1>1 DEF EventsOK, EventOK, EventRow
  <2>4. /\ tracked'[s].tokens = tracked[s].tokens + e.tokens
        /\ \A q \in Sessions \ {s} : tracked'[q] = tracked[q]
    <3>1. tracked' = [tracked EXCEPT ![s].tokens = tracked[s].tokens + e.tokens]  BY <1>3, <1>8, <2>2, <2>3 DEF Counted
    <3> QED  BY <1>1, <3>1
  <2>5. \A x \in events \ {e} : entry'[x.id] = entry[x.id]  BY <1>1, <1>4, <2>1, <2>2, EventOf
  <2>6. entry'[p].at = "posted"  BY <1>2, <1>4, <1>8
  <2>7. e \notin Timed(s)  BY <1>3, <2>1 DEF Timed, EntryIs
  <2>8. Timed(s)' = Timed(s) \cup {e}
    BY <1>3, <1>4, <1>5, <2>1, <2>3, <2>5, <2>6 DEF Timed, EntryIs, getSessionTimeline
  <2>9. ASSUME NEW q \in Sessions \ {s} PROVE Timed(q)' = Timed(q)
    BY <1>3, <2>3, <2>5 DEF Timed, EntryIs, getSessionTimeline
  <2>10. TokensOf' = TokensOf  BY <1>3 DEF TokensOf
  <2>11. SumFunctionOnSet(TokensOf, Timed(s) \cup {e}) = SumFunctionOnSet(TokensOf, Timed(s)) + e.tokens
    <3>1. IsFiniteSet(Timed(s)) /\ TokensOf[e] = e.tokens /\ \A x \in Timed(s) \cup {e} : TokensOf[x] \in Int
      BY <1>1, <2>2, TimedIs DEF TokensOf
    <3>2. SumFunctionOnSet(TokensOf, Timed(s) \cup {e}) = SumFunctionOnSet(TokensOf, Timed(s)) + TokensOf[e]
      BY <2>7, <3>1, SumAdd
    <3> QED  BY <3>1, <3>2
  <2>12. \A q \in Sessions : tracked'[q].tokens = SumFunctionOnSet(TokensOf', Timed(q)')
    <3>1. \A q \in Sessions : tracked[q].tokens = SumFunctionOnSet(TokensOf, Timed(q))  BY <1>8 DEF CountedOK
    <3>2. tracked'[s].tokens = SumFunctionOnSet(TokensOf', Timed(s)')  BY <2>4, <2>8, <2>10, <2>11, <3>1
    <3>3. ASSUME NEW q \in Sessions \ {s} PROVE tracked'[q].tokens = SumFunctionOnSet(TokensOf', Timed(q)')
      BY <2>4, <2>9, <2>10, <3>1
    <3> QED  BY <3>2, <3>3
  <2>13. \A q \in Entries : EntryIs(q, "count")' => \E x \in events' : x.id = q
    BY <1>3, <1>4, <1>8, <2>6 DEF CountedOK, EntryIs
  <2> QED  BY <1>6, <2>12, <2>13 DEF CountedOK
<1> QED  BY <1>7, <1>8

\* An event is stored that is to be counted, or has nothing to count.
LEMMA StoreCounts ==
  ASSUME TracesInv, CountedOK, NEW p \in Entries, StoreEvent(p)
  PROVE  CountedOK'
<1>1. EventsOK /\ TracesTyped /\ entry[p] \in EntryRow  BY DEF TracesInv, TracesTyped
<1>2. PICK e : e = [id |-> p, in |-> entry[p].in, time |-> entry[p].time, tokens |-> entry[p].tokens, ends |-> entry[p].ends]
  OBVIOUS
<1>3. entry[p].at = "store" /\ UNCHANGED <<kept, tracked>>  BY DEF StoreEvent, EntryIs, StreamRests
<1>4. ~entry[p].faulted  BY <1>3 DEF CountedOK
<1>5. CASE ~kept
  <2>1. EntryGoes(p, "refused")  BY <1>5, Zenon DEF StoreEvent
  <2>2. entry'[p].at = "refused" /\ \A q \in Entries \ {p} : entry'[q] = entry[q]  BY <1>1, <2>1, FaultedIs
  <2> QED  BY <1>3, <1>5, <2>2 DEF CountedOK
<1>6. CASE kept
  <2>1. PICK at : at = IF entry[p].tokens > 0 THEN "count" ELSE "posted"  OBVIOUS
  <2>2. e.id = p /\ e.in = entry[p].in /\ e.tokens = entry[p].tokens /\ e.tokens \in Nat
    BY <1>1, <1>2 DEF EntryRow
  <2>3. events' = events \cup {e} /\ EntryGoes(p, at)
    <3>1. events' = events \cup {e} /\ EntryGoes(p, IF e.tokens > 0 THEN "count" ELSE "posted")
      BY <1>2, <1>6, Zenon DEF StoreEvent
    <3> QED  BY <2>1, <2>2, <3>1
  <2>4. entry'[p].at = at /\ entry'[p].faulted = entry[p].faulted /\ \A q \in Entries \ {p} : entry'[q] = entry[q]
    BY <1>1, <2>3, FaultedIs
  <2>5. \A x \in events : x.id # p /\ x.id \in Entries  BY <1>1, <1>3, EventOf
  <2>6. \A x \in events : TokensOf'[x] = TokensOf[x]  BY <2>3 DEF TokensOf
  <2>7. ASSUME NEW q \in Sessions PROVE tracked'[q].tokens = SumFunctionOnSet(TokensOf', Timed(q)')
    <3>1. tracked'[q].tokens = SumFunctionOnSet(TokensOf, Timed(q))  BY <1>3, <1>6 DEF CountedOK
    <3>2. IsFiniteSet(Timed(q)) /\ \A x \in Timed(q) : x \in events /\ TokensOf[x] = x.tokens /\ x.tokens \in Nat
      BY <1>1, TimedIs
    <3>3. SumFunctionOnSet(TokensOf', Timed(q)) = SumFunctionOnSet(TokensOf, Timed(q))
      <4>1. PICK f, g : f = TokensOf' /\ g = TokensOf  OBVIOUS
      <4>2. \A x \in Timed(q) : f[x] = g[x]  BY <2>6, <3>2, <4>1
      <4>3. SumFunctionOnSet(f, Timed(q)) = SumFunctionOnSet(g, Timed(q))  BY <3>2, <4>2, SumSame
      <4> QED  BY <4>1, <4>3
    <3>4. \A x \in events : x \in Timed(q)' <=> x \in Timed(q)
      BY <2>3, <2>4, <2>5 DEF Timed, EntryIs, getSessionTimeline
    <3>5. Timed(q)' \subseteq events \cup {e}  BY <2>3 DEF Timed, getSessionTimeline
    <3>6. CASE e \notin Timed(q)'
      <4>1. Timed(q)' = Timed(q)  BY <3>2, <3>4, <3>5, <3>6
      <4> QED  BY <3>1, <3>3, <4>1
    <3>7. CASE e \in Timed(q)'
      <4>1. Timed(q)' = Timed(q) \cup {e}  BY <3>2, <3>4, <3>5, <3>7
      <4>2. entry'[p].at # "count"  BY <2>2, <3>7 DEF Timed, EntryIs
      <4>3. e.tokens = 0  BY <2>1, <2>2, <2>4, <4>2
      <4>4. e \notin Timed(q)  BY <2>2, <2>5, <3>2
      <4>5. PICK f : f = TokensOf'  OBVIOUS
      <4>6. f[e] = 0 /\ \A x \in Timed(q) \cup {e} : f[x] \in Int
        <5>1. f[e] = e.tokens  BY <2>3, <4>5 DEF TokensOf
        <5>2. \A x \in Timed(q) : f[x] \in Int  BY <2>6, <3>2, <4>5
        <5> QED  BY <4>3, <5>1, <5>2
      <4>7. SumFunctionOnSet(f, Timed(q) \cup {e}) = SumFunctionOnSet(f, Timed(q)) + f[e]  BY <3>2, <4>4, <4>6, SumAdd
      <4>8. SumFunctionOnSet(f, Timed(q)) \in Int  BY <3>2, <4>6, SumInt
      <4> QED  BY <3>1, <3>3, <4>1, <4>5, <4>6, <4>7, <4>8
    <3> QED  BY <3>6, <3>7
  <2>8. \A q \in Entries : EntryIs(q, "count")' => \E x \in events' : x.id = q
    BY <1>6, <2>2, <2>3, <2>4 DEF CountedOK, EntryIs
  <2>9. \A q \in Entries : entry'[q].faulted => entry'[q].at = "refused"  BY <1>4, <2>4 DEF CountedOK
  <2> QED  BY <2>7, <2>8, <2>9 DEF CountedOK
<1> QED  BY <1>5, <1>6

LEMMA CountsStart == ASSUME TracesAssumption, InitTraces PROVE CountedOK
<1>1. entry = [p \in Entries |-> [at |-> "idle", in |-> NoSession, tokens |-> 0, ends |-> FALSE, time |-> 0, faulted |-> FALSE]]
  BY DEF InitTraces
<1>2. \A p \in Entries : entry[p].at = "idle" /\ ~entry[p].faulted  BY <1>1, Zenon
<1>3. events = {} /\ \A s \in Sessions : tracked[s].tokens = 0  BY DEF InitTraces
<1>4. \A s : Timed(s) = {}  BY <1>3 DEF Timed, getSessionTimeline
<1> QED  BY <1>2, <1>3, <1>4, SumEmpty DEF CountedOK, EntryIs

LEMMA CountsStep == ASSUME TracesInv, CountedOK, [NextTraces]_tracesVars PROVE CountedOK'
<1>1. EventsOK  BY DEF TracesInv
<1>2. ASSUME UNCHANGED <<kept, tracked, events, entry>> PROVE CountedOK'
  BY <1>1, <1>2, CountsStay DEF CountedOK
<1>3. ASSUME NEW k \in Editors, deleteTrace(k) PROVE CountedOK'  BY <1>3 DEF deleteTrace, CountedOK
<1>4. ASSUME NEW k \in Editors, updateTrace(k) \/ FindTrace(k, "update") \/ FindTrace(k, "delete") PROVE CountedOK'
  BY <1>2, <1>4 DEF updateTrace, FindTrace
<1>5. ASSUME Tick \/ OpenWatch \/ Poll \/ EndWatch \/ CloseWatch \/ \E a \in polls : Handle(a) \/ PollFails(a) PROVE CountedOK'
  BY <1>2, <1>5 DEF Tick, OpenWatch, Poll, EndWatch, CloseWatch, Handle, PollFails, EntriesRest
<1>6. ASSUME UNCHANGED tracesVars PROVE CountedOK'  BY <1>2, <1>6 DEF tracesVars
<1> QED  BY <1>3, <1>4, <1>5, <1>6, FindsCounts, StampCounts, FaultCounts, CountCounts, StoreCounts DEF NextTraces

\* Sessions count every event once, whoever posts at once and whatever fails, as long as their
\* trace is kept; and the graph drawn of them adds up (trace-service.ts:232-286,
\* flow-service.ts:19-89).
THEOREM TracesAlwaysAddUp == SpecTraces => []TracesAddUp
<1>1. InitTraces => TracesInv /\ CountedOK  BY TracesAssumption, TracesStart, CountsStart
<1>2. (TracesInv /\ CountedOK) /\ [NextTraces]_tracesVars => (TracesInv /\ CountedOK)'
  BY TracesAssumption, TracesStep, CountsStep
<1>3. TracesInv /\ CountedOK => TracesAddUp
  <2> SUFFICES ASSUME TracesInv, CountedOK PROVE TracesAddUp  OBVIOUS
  <2>1. FlowAddsUp  BY TracesAssumption, FlowHolds DEF TracesInv
  <2>2. SessionsCountEvents  BY DEF CountedOK, SessionsCountEvents, TokensOf, Timed
  <2> QED  BY <2>1, <2>2 DEF TracesAddUp
<1> QED  BY <1>1, <1>2, <1>3, PTL DEF SpecTraces

----------------------------------------------------------------------------
(***************************************************************************)
(* Proofs about the costs of an organisation, for any number of employees, *)
(* agents and requests that change a manager: an overview that is answered *)
(* adds up.  RollupAddsUp says of a climb under way only how long it is.   *)
(* Summed adds what everybody has at every point of it: the costs of those *)
(* in Given, who are below and were passed on; and the climb has taken as  *)
(* many steps as there are such pairs.  OnItsWay says where it can be: it  *)
(* never gets away from somebody who is above themselves.                  *)
(***************************************************************************)

\* Somebody is above themselves.
Circle == \E h \in Heads : h \in Above(h)

Places == {"idle", "read", "climb", "answered"}
Someone == Heads \cup {Nobody}
OverviewRow ==
  [at : Places, chart : [Heads -> Someone] \cup {<<>>}, own : [Heads -> Nat] \cup {<<>>},
   team : [Heads -> Nat] \cup {<<>>}, left : SUBSET Heads, from : Someone, to : Someone, hops : 0..MaxHops]

OrgTyped ==
  /\ manager \in [Heads -> Someone] /\ botCost \in [Bots -> 0..MaxBot] /\ moves \in 0..MaxMoves
  /\ move \in [Clerks -> [at : {"idle", "write"}, of : Someone, to : Someone]]
  /\ \A k \in Clerks : move[k].at = "write" => move[k].of \in Heads
  /\ overview \in OverviewRow
  /\ overview.at = "read" =>
       overview.chart \in [Heads -> Someone] /\ overview.from = Nobody /\ overview.to = Nobody /\ overview.hops = 0
  /\ overview.at \in {"climb", "answered"} =>
       overview.chart \in [Heads -> Someone] /\ overview.own \in [Heads -> Nat] /\ overview.team \in [Heads -> Nat]

\* The overview climbs from one employee at a time and is always at one above; it does not
\* leave an employee who is above themselves.
OnItsWay == overview.at \in {"climb", "answered"} =>
  /\ overview.from = Nobody => overview.left = Heads /\ overview.to = Nobody
  /\ overview.from # Nobody => overview.from \notin overview.left
  /\ overview.to # Nobody => overview.from # Nobody /\ overview.to \in Above(overview.from)
  /\ \A e \in Heads \ overview.left : e \in Above(e) => e = overview.from /\ overview.to # Nobody
  /\ overview.at = "answered" => overview.left = {} /\ overview.to = Nobody

\* An employee's cost was given to another: to all above, but for those the overview still has
\* to pass.
Given(e, h) ==
  /\ e \in Heads \ overview.left /\ h \in Above(e)
  /\ e = overview.from /\ overview.to # Nobody => h # overview.to /\ h \notin Above(overview.to)

Whose(h) == {e \in Heads : e = h \/ Given(e, h)}
Gifts == {p \in Heads \X Heads : Given(p[1], p[2])}

Summed == overview.at \in {"climb", "answered"} /\ ~Circle =>
  /\ \A h \in Heads : overview.team[h] = SumFunctionOnSet(overview.own, Whose(h))
  /\ overview.hops = Cardinality(Gifts)

OrgInv == OrgTyped /\ OnItsWay /\ Summed

----------------------------------------------------------------------------
\* Who is above whom.  The managers of those above are above; and no more are above than must be.
LEMMA AboveIs ==
  ASSUME Nobody \notin Heads, overview.chart \in [Heads -> Someone], NEW h \in Heads
  PROVE  /\ Above(h) \subseteq Heads
         /\ \A e \in Above(h) \cup {h} : overview.chart[e] \in Above(h) \cup {Nobody}
         /\ \A T \in SUBSET Heads :
              (\A e \in T \cup {h} : overview.chart[e] \in T \cup {Nobody}) => Above(h) \subseteq T
<1>1. ASSUME NEW e \in Above(h) \cup {h}, overview.chart[e] # Nobody
      PROVE  overview.chart[e] \in Above(h)
  <2>1. e \in Heads /\ overview.chart[e] \in Heads  BY <1>1 DEF Above, Someone
  <2>2. ASSUME NEW T \in SUBSET Heads, \A d \in T \cup {h} : overview.chart[d] \in T \cup {Nobody}
        PROVE  overview.chart[e] \in T
    <3>1. e \in T \cup {h}  BY <1>1, <2>2 DEF Above
    <3> QED BY <1>1, <2>2, <3>1
  <2> QED BY <2>1, <2>2 DEF Above
<1> QED BY <1>1 DEF Above

\* Above somebody are the manager and those above the manager.
LEMMA AboveSplits ==
  ASSUME Nobody \notin Heads, overview.chart \in [Heads -> Someone], NEW h \in Heads, NEW m \in Heads
  PROVE  m \in Above(h) <=> overview.chart[h] = m \/ (overview.chart[h] # Nobody /\ m \in Above(overview.chart[h]))
<1>1. /\ Above(h) \subseteq Heads /\ \A e \in Above(h) \cup {h} : overview.chart[e] \in Above(h) \cup {Nobody}
      /\ \A T \in SUBSET Heads :
           (\A e \in T \cup {h} : overview.chart[e] \in T \cup {Nobody}) => Above(h) \subseteq T
  BY AboveIs
<1>2. CASE overview.chart[h] = Nobody
  <2>1. \A e \in {} \cup {h} : overview.chart[e] \in {} \cup {Nobody}  BY <1>2
  <2>2. Above(h) \subseteq {}
    <3>1. {} \in SUBSET Heads  OBVIOUS
    <3> QED BY <1>1, <2>1, <3>1, Zenon
  <2> QED BY <1>2, <2>2
<1>3. CASE overview.chart[h] # Nobody
  <2>1. PICK g \in Heads : g = overview.chart[h]  BY <1>3 DEF Someone
  <2>2. /\ Above(g) \subseteq Heads /\ \A e \in Above(g) \cup {g} : overview.chart[e] \in Above(g) \cup {Nobody}
        /\ \A T \in SUBSET Heads :
             (\A e \in T \cup {g} : overview.chart[e] \in T \cup {Nobody}) => Above(g) \subseteq T
    BY AboveIs
  <2>3. g \in Above(h)  BY <1>1, <1>3, <2>1
  <2>4. Above(g) \subseteq Above(h)  BY <1>1, <2>2, <2>3
  <2>5. Above(h) \subseteq Above(g) \cup {g}
    <3>1. PICK T : T = Above(g) \cup {g}  OBVIOUS
    <3>2. T \in SUBSET Heads /\ \A e \in T \cup {h} : overview.chart[e] \in T \cup {Nobody}
      BY <2>1, <2>2, <3>1
    <3> QED BY <1>1, <3>1, <3>2
  <2> QED BY <1>3, <2>1, <2>3, <2>4, <2>5
<1> QED BY <1>2, <1>3

LEMMA AboveThose ==
  ASSUME Nobody \notin Heads, overview.chart \in [Heads -> Someone], NEW h \in Heads, NEW m \in Above(h)
  PROVE  m \in Heads /\ Above(m) \subseteq Above(h)
<1>1. /\ Above(h) \subseteq Heads /\ \A e \in Above(h) \cup {h} : overview.chart[e] \in Above(h) \cup {Nobody}
  BY AboveIs
<1>2. m \in Heads  BY <1>1
<1>3. \A T \in SUBSET Heads : (\A e \in T \cup {m} : overview.chart[e] \in T \cup {Nobody}) => Above(m) \subseteq T
  BY <1>2, AboveIs
<1> QED BY <1>1, <1>2, <1>3

\* Whoever is above themselves is above all who are above them.
LEMMA OnACircle ==
  ASSUME Nobody \notin Heads, overview.chart \in [Heads -> Someone], NEW h \in Heads, h \in Above(h), NEW m \in Above(h)
  PROVE  h \in Above(m)
<1>1. PICK T : T = {e \in Heads : h \in Above(e)}  OBVIOUS
<1>2. ASSUME NEW e \in T \cup {h} PROVE overview.chart[e] \in T \cup {Nobody}
  <2>1. e \in Heads /\ h \in Above(e)  BY <1>1, <1>2
  <2>2. overview.chart[e] = h \/ (overview.chart[e] # Nobody /\ h \in Above(overview.chart[e]))
    BY <2>1, AboveSplits
  <2>3. overview.chart[e] \in Someone  BY <2>1
  <2> QED BY <1>1, <2>2, <2>3 DEF Someone
<1>3. Above(h) \subseteq T
  <2>1. T \in SUBSET Heads  BY <1>1
  <2> QED BY <1>2, <2>1, AboveIs
<1> QED BY <1>1, <1>3

----------------------------------------------------------------------------
\* Of the pairs of different members of a set, at most half are in a relation that never goes
\* both ways.
LEMMA HalfOfPairs ==
  ASSUME NEW S, IsFiniteSet(S), NEW W \in SUBSET (S \X S), \A p \in W : p[1] # p[2] /\ <<p[2], p[1]>> \notin W
  PROVE  IsFiniteSet(W) /\ Cardinality(W) <= (Cardinality(S) * (Cardinality(S) - 1)) \div 2
<1>1. IsFiniteSet(S \X S) /\ Cardinality(S \X S) = Cardinality(S) * Cardinality(S)  BY FS_Product
<1>2. IsFiniteSet(W)  BY <1>1, FS_Subset
<1>3. PICK turn : turn = [p \in S \X S |-> <<p[2], p[1]>>]  OBVIOUS
<1>4. PICK V : V = {turn[p] : p \in W}  OBVIOUS
<1>5. PICK D : D = {<<x, x>> : x \in S}  OBVIOUS
<1>18. ASSUME NEW p \in S \X S
      PROVE  turn[p] = <<p[2], p[1]>> /\ p = <<p[1], p[2]>> /\ turn[p] \in S \X S /\ turn[p][1] = p[2] /\ turn[p][2] = p[1]
  BY <1>3
<1>6. V \subseteq S \X S /\ D \subseteq S \X S
  <2>1. V \subseteq S \X S  BY <1>4, <1>18
  <2>2. D \subseteq S \X S  BY <1>5
  <2> QED BY <2>1, <2>2
<1>7. IsFiniteSet(V) /\ IsFiniteSet(D)  BY <1>1, <1>6, FS_Subset
<1>8. Cardinality(V) = Cardinality(W)
  <2>1. \A p \in W : turn[p] \in V  BY <1>4
  <2>2. \A q \in V : \E p \in W : q = turn[p]  BY <1>4
  <2>3. ASSUME NEW p \in W, NEW q \in W, turn[p] = turn[q] PROVE p = q
    <3>1. p[1] = q[1] /\ p[2] = q[2]  BY <1>18, <2>3
    <3> QED BY <1>18, <3>1
  <2> QED BY <1>2, <1>7, <2>1, <2>2, <2>3, CountImage DEF Pairs
<1>9. Cardinality(D) = Cardinality(S)
  <2>1. PICK f : f = [x \in S |-> <<x, x>>]  OBVIOUS
  <2>2. \A x \in S : f[x] \in D  BY <1>5, <2>1
  <2>3. \A y \in D : \E x \in S : y = f[x]  BY <1>5, <2>1
  <2>4. ASSUME NEW x \in S, NEW y \in S, f[x] = f[y] PROVE x = y
    <3>1. f[x][1] = x /\ f[y][1] = y  BY <2>1
    <3> QED BY <2>4, <3>1
  <2> QED BY <1>7, <2>2, <2>3, <2>4, CountImage DEF Pairs
<1>10. W \cap V = {}  BY <1>3, <1>4
<1>11. (W \cup V) \cap D = {}
  <2>1. \A p \in W : p[1] # p[2] /\ turn[p][1] # turn[p][2]  BY <1>18
  <2>2. \A p \in D : p[1] = p[2]  BY <1>5
  <2> QED BY <1>4, <2>1, <2>2
<1>12. IsFiniteSet(W \cup V) /\ Cardinality(W \cup V) = Cardinality(W) + Cardinality(V) - Cardinality(W \cap V)
  BY <1>2, <1>7, FS_Union
<1>13. /\ IsFiniteSet((W \cup V) \cup D)
       /\ Cardinality((W \cup V) \cup D) = Cardinality(W \cup V) + Cardinality(D) - Cardinality((W \cup V) \cap D)
  BY <1>7, <1>12, FS_Union
<1>14. Cardinality((W \cup V) \cup D) <= Cardinality(S \X S)
  <2>1. (W \cup V) \cup D \in SUBSET (S \X S)  BY <1>6
  <2> QED BY <1>1, <2>1, FS_Subset
<1>15. PICK n \in Nat, w \in Nat : n = Cardinality(S) /\ w = Cardinality(W)  BY <1>2, FS_CardinalityType
<1>16. w + w + n <= n * n
  <2>1. Cardinality({}) = 0  BY FS_EmptySet
  <2>5. Cardinality(W \cap V) = 0 /\ Cardinality((W \cup V) \cap D) = 0  BY <1>10, <1>11, <2>1, Zenon
  <2>2. Cardinality(W \cup V) = w + w  BY ONLY <1>8, <1>12, <1>15, <2>5
  <2>3. Cardinality((W \cup V) \cup D) = (w + w) + n  BY ONLY <1>9, <1>13, <1>15, <2>5, <2>2
  <2>4. Cardinality(S \X S) = n * n  BY <1>1, <1>15
  <2> QED BY <1>14, <2>3, <2>4
<1>17. w <= (n * (n - 1)) \div 2
  <2>1. n * (n - 1) = n * n - n  BY <1>15
  <2>2. PICK q \in Int : q = n * n  BY <1>15
  <2>3. w <= (q - n) \div 2  BY <1>15, <1>16, <2>2
  <2> QED BY <2>1, <2>2, <2>3
<1> QED BY <1>2, <1>15, <1>17

\* The answer.
LEMMA WritesAt ==
  ASSUME NEW r \in OverviewRow, NEW at \in Places,
         NEW d, d = [r EXCEPT !.at = at]
  PROVE  /\ d \in OverviewRow
         /\ d.at = at /\ d.chart = r.chart /\ d.own = r.own /\ d.team = r.team
         /\ d.left = r.left /\ d.from = r.from /\ d.to = r.to /\ d.hops = r.hops
<1>1. PICK r1 : r1 = [r EXCEPT !.at = at]  OBVIOUS
<1>2. d = r1
  BY ONLY r \in OverviewRow, d = [r EXCEPT !.at = at], <1>1 DEF OverviewRow
<1>3. /\ r1 \in OverviewRow
      /\ r1.at = at /\ r1.chart = r.chart /\ r1.own = r.own /\ r1.team = r.team
      /\ r1.left = r.left /\ r1.from = r.from /\ r1.to = r.to /\ r1.hops = r.hops
  BY ONLY r \in OverviewRow, at \in Places, <1>1 DEF OverviewRow
<1> QED BY ONLY <1>2, <1>3

LEMMA AboveSame ==
  ASSUME overview'.chart = overview.chart
  PROVE  (\A h : Above(h)' = Above(h)) /\ Circle' = Circle
<1>1. \A h : Above(h)' = Above(h)  BY DEF Above
<1> QED BY <1>1 DEF Circle

\* The overview goes to the next employee, who has given nothing yet.
LEMMA NextKeeps ==
  ASSUME OrgAssumption, OrgInv, NEW h \in Heads, NextEmployee(h)
  PROVE  OrgInv'
<1>1. OrgTyped /\ OnItsWay /\ Summed /\ overview \in OverviewRow /\ Nobody \notin Heads
  BY DEF OrgInv, OrgTyped, OrgAssumption
<1>2. overview.at = "climb" /\ overview.to = Nobody /\ h \in overview.left /\ UNCHANGED <<manager, botCost, move, moves>>
  BY DEF NextEmployee, Climbing, OrgRests
<1>3. /\ overview.chart \in [Heads -> Someone] /\ overview.own \in [Heads -> Nat] /\ overview.team \in [Heads -> Nat]
      /\ overview.left \subseteq Heads
  BY <1>1, <1>2 DEF OrgTyped, OverviewRow
<1>4. PICK l \in SUBSET Heads, t \in Someone : l = overview.left \ {h} /\ t = overview.chart[h]  BY <1>3
<1>5. /\ overview' \in OverviewRow /\ overview'.at = overview.at /\ overview'.chart = overview.chart
      /\ overview'.own = overview.own /\ overview'.team = overview.team /\ overview'.hops = overview.hops
      /\ overview'.left = l /\ overview'.from = h /\ overview'.to = t
  <2>1. overview' = [overview EXCEPT !.left = l, !.from = h, !.to = t]  BY <1>4 DEF NextEmployee
  <2>2. h \in Someone  BY DEF Someone
  <2>3. PICK r, d : r = overview /\ d = overview'  OBVIOUS
  <2>4. d = [r EXCEPT !.left = l, !.from = h, !.to = t]  BY <2>1, <2>3
  <2>5. /\ d \in OverviewRow
        /\ d.at = r.at /\ d.chart = r.chart /\ d.own = r.own /\ d.team = r.team
        /\ d.left = l /\ d.from = h /\ d.to = t /\ d.hops = r.hops
    <3>1. r \in OverviewRow  BY <1>1, <2>3
    <3>2. PICK r1 : r1 = [r EXCEPT !.left = l]  OBVIOUS
    <3>3. PICK r2 : r2 = [r1 EXCEPT !.from = h]  OBVIOUS
    <3>4. d = [r2 EXCEPT !.to = t]  BY ONLY <2>4, <3>1, <3>2, <3>3 DEF OverviewRow
    <3>5. /\ r1 \in OverviewRow
          /\ r1.at = r.at /\ r1.chart = r.chart /\ r1.own = r.own /\ r1.team = r.team
          /\ r1.left = l /\ r1.from = r.from /\ r1.to = r.to /\ r1.hops = r.hops
      BY ONLY <3>1, l \in SUBSET Heads, <3>2 DEF OverviewRow
    <3>6. /\ r2 \in OverviewRow
          /\ r2.at = r.at /\ r2.chart = r.chart /\ r2.own = r.own /\ r2.team = r.team
          /\ r2.left = l /\ r2.from = h /\ r2.to = r.to /\ r2.hops = r.hops
      BY ONLY <3>5, <2>2, <3>3 DEF OverviewRow
    <3>7. /\ d \in OverviewRow
          /\ d.at = r.at /\ d.chart = r.chart /\ d.own = r.own /\ d.team = r.team
          /\ d.left = l /\ d.from = h /\ d.to = t /\ d.hops = r.hops
      BY ONLY <3>6, t \in Someone, <3>4 DEF OverviewRow
    <3> QED BY <3>7
  <2> QED BY <2>3, <2>5
<1>6. (\A g : Above(g)' = Above(g)) /\ Circle' = Circle  BY <1>5, AboveSame
<1>7. \A m \in Heads : m \in Above(h) <=> t = m \/ (t # Nobody /\ m \in Above(t))
  BY <1>1, <1>3, <1>4, AboveSplits
<1>8. h # Nobody /\ (t # Nobody => t \in Heads)  BY <1>1, <1>4 DEF Someone
<1>9. \A e \in Heads \ overview.left : e \notin Above(e)  BY <1>1, <1>2 DEF OnItsWay
<1>10. OnItsWay'
  <2>1. t # Nobody => t \in Above(h)  BY <1>7, <1>8
  <2>2. ASSUME NEW e \in Heads \ l, e \in Above(e) PROVE e = h /\ t # Nobody
    <3>1. e = h  BY <1>4, <1>9, <2>2
    <3> QED BY <1>7, <1>8, <2>2, <3>1
  <2>3. overview'.at # "answered"  BY <1>2, <1>5
  <2> QED BY <1>4, <1>5, <1>6, <1>8, <2>1, <2>2, <2>3 DEF OnItsWay
<1>11. ASSUME NEW e \in Heads, NEW g \in Heads PROVE Given(e, g)' <=> Given(e, g)
  <2>1. CASE e = h
    <3>1. ~Given(e, g)  BY <1>2, <2>1 DEF Given
    <3>2. ~Given(e, g)'  BY <1>5, <1>6, <1>7, <2>1 DEF Given
    <3> QED BY <3>1, <3>2
  <2>2. CASE e # h
    <3>1. Given(e, g) <=> e \notin overview.left /\ g \in Above(e)  BY <1>2 DEF Given
    <3>2. Given(e, g)' <=> e \notin l /\ g \in Above(e)  BY <1>5, <1>6, <2>2 DEF Given
    <3> QED BY <1>4, <2>2, <3>1, <3>2
  <2> QED BY <2>1, <2>2
<1>12. Summed'
  <2>1. \A g \in Heads : Whose(g)' = Whose(g)  BY <1>11 DEF Whose
  <2>2. Gifts' = Gifts
    <3>1. \A p \in Heads \X Heads : Given(p[1], p[2])' <=> Given(p[1], p[2])  BY <1>11
    <3> QED BY <3>1 DEF Gifts
  <2> QED BY <1>1, <1>5, <1>6, <2>1, <2>2 DEF Summed
<1>13. OrgTyped'
  BY <1>1, <1>2, <1>3, <1>5 DEF OrgTyped
<1> QED BY <1>10, <1>12, <1>13 DEF OrgInv

\* The overview gives an employee's cost to the one it is at, and climbs on.
LEMMA ClimbKeeps ==
  ASSUME OrgAssumption, OrgInv, Climb
  PROVE  OrgInv'
<1> DEFINE m == overview.to
           f == overview.from
<1>1. OrgTyped /\ OnItsWay /\ Summed /\ overview \in OverviewRow /\ Nobody \notin Heads /\ IsFiniteSet(Heads) /\ MaxHops \in Nat
  BY DEF OrgInv, OrgTyped, OrgAssumption
<1>2. overview.at = "climb" /\ m # Nobody /\ overview.hops < MaxHops /\ UNCHANGED <<manager, botCost, move, moves>>
  BY DEF Climb, Climbing, OrgRests
<1>3. /\ overview.chart \in [Heads -> Someone] /\ overview.own \in [Heads -> Nat] /\ overview.team \in [Heads -> Nat]
      /\ overview.left \subseteq Heads /\ overview.hops \in 0..MaxHops /\ f \in Someone /\ m \in Someone
  BY <1>1, <1>2 DEF OrgTyped, OverviewRow
<1>4. /\ m \in Heads /\ f \in Heads /\ f \notin overview.left /\ m \in Above(f)
      /\ \A e \in Heads \ overview.left : e \in Above(e) => e = f
  BY <1>1, <1>2, <1>3 DEF OnItsWay, Someone
<1>5. PICK t \in Someone, n \in 0..MaxHops, own \in Nat : t = overview.chart[m] /\ n = overview.hops + 1 /\ own = overview.own[f]
  BY <1>1, <1>2, <1>3, <1>4
<1>6. PICK team \in [Heads -> Nat] : team = [overview.team EXCEPT ![m] = @ + own]
  <2>1. PICK was \in [Heads -> Nat] : was = overview.team  BY <1>3
  <2>2. [was EXCEPT ![m] = @ + own] \in [Heads -> Nat]
    <3> HIDE DEF m
    <3>1. \A g \in Heads : was[g] + own \in Nat  BY <2>1
    <3> QED BY <1>4, <2>1, <3>1
  <2> QED BY <2>1, <2>2
<1>7. /\ overview' \in OverviewRow /\ overview'.at = overview.at /\ overview'.chart = overview.chart
      /\ overview'.own = overview.own /\ overview'.team = team /\ overview'.hops = n
      /\ overview'.left = overview.left /\ overview'.from = f /\ overview'.to = t
  <2>1. overview' = [overview EXCEPT !.team[m] = @ + own, !.to = t, !.hops = n]  BY <1>5 DEF Climb, Passed
  <2>3. PICK r, d : r = overview /\ d = overview'  OBVIOUS
  <2>4. d = [r EXCEPT !.team = team, !.to = t, !.hops = n]
    <3>1. d = [r EXCEPT !.team[m] = @ + own, !.to = t, !.hops = n]  BY <2>1, <2>3
    <3>2. team = [r.team EXCEPT ![m] = @ + own]  BY <1>6, <2>3
    <3> HIDE DEF m
    <3> QED BY ONLY <3>1, <3>2 DEF OverviewRow
  <2>5. /\ d \in OverviewRow
        /\ d.at = r.at /\ d.chart = r.chart /\ d.own = r.own /\ d.team = team
        /\ d.left = r.left /\ d.from = r.from /\ d.to = t /\ d.hops = n
    <3>1. r \in OverviewRow  BY <1>1, <2>3
    <3>2. PICK r1 : r1 = [r EXCEPT !.team = team]  OBVIOUS
    <3>3. PICK r2 : r2 = [r1 EXCEPT !.to = t]  OBVIOUS
    <3>4. d = [r2 EXCEPT !.hops = n]  BY ONLY <2>4, <3>1, <3>2, <3>3 DEF OverviewRow
    <3>5. /\ r1 \in OverviewRow
          /\ r1.at = r.at /\ r1.chart = r.chart /\ r1.own = r.own /\ r1.team = team
          /\ r1.left = r.left /\ r1.from = r.from /\ r1.to = r.to /\ r1.hops = r.hops
      BY ONLY <3>1, team \in [Heads -> Nat], <3>2 DEF OverviewRow
    <3>6. /\ r2 \in OverviewRow
          /\ r2.at = r.at /\ r2.chart = r.chart /\ r2.own = r.own /\ r2.team = team
          /\ r2.left = r.left /\ r2.from = r.from /\ r2.to = t /\ r2.hops = r.hops
      BY ONLY <3>5, t \in Someone, <3>3 DEF OverviewRow
    <3>7. /\ d \in OverviewRow
          /\ d.at = r.at /\ d.chart = r.chart /\ d.own = r.own /\ d.team = team
          /\ d.left = r.left /\ d.from = r.from /\ d.to = t /\ d.hops = n
      BY ONLY <3>6, n \in 0..MaxHops, <3>4 DEF OverviewRow
    <3> QED BY <3>7
  <2> QED BY <2>3, <2>5
<1>8. (\A g : Above(g)' = Above(g)) /\ Circle' = Circle  BY <1>7, AboveSame
<1>9. \A g \in Heads : g \in Above(m) <=> t = g \/ (t # Nobody /\ g \in Above(t))
  BY <1>1, <1>3, <1>4, <1>5, AboveSplits
<1>10. Above(m) \subseteq Above(f)  BY <1>1, <1>3, <1>4, AboveThose
<1>11. t # Nobody => t \in Above(m)  BY <1>9 DEF Someone
<1>12. f \in Above(f) => t # Nobody
  <2> SUFFICES ASSUME f \in Above(f) PROVE t # Nobody  OBVIOUS
  <2>1. f \in Above(m)  BY <1>1, <1>3, <1>4, OnACircle
  <2> QED BY <1>1, <1>4, <1>9, <2>1
<1>13. OnItsWay'
  <2>1. f # Nobody /\ overview'.at # "answered"  BY <1>1, <1>2, <1>4, <1>7
  <2>2. t # Nobody => t \in Above(f)  BY <1>10, <1>11
  <2> QED BY <1>4, <1>7, <1>8, <1>12, <2>1, <2>2 DEF OnItsWay
<1>14. ASSUME ~Circle, NEW e \in Heads, NEW g \in Heads
       PROVE  Given(e, g)' <=> Given(e, g) \/ (e = f /\ g = m)
  <2>1. CASE e # f  BY <1>7, <1>8, <2>1 DEF Given
  <2>2. CASE e = f
    <3>1. Given(e, g) <=> g \in Above(f) /\ g # m /\ g \notin Above(m)  BY <1>2, <1>4, <2>2 DEF Given
    <3>2. Given(e, g)' <=> g \in Above(f) /\ (t # Nobody => g # t /\ g \notin Above(t))
      BY <1>4, <1>7, <1>8, <2>2 DEF Given
    <3>3. (t # Nobody => g # t /\ g \notin Above(t)) <=> g \notin Above(m)
      <4>1. g # Nobody  BY <1>1
      <4> QED BY <1>9, <4>1
    <3>4. m \notin Above(m)  BY <1>4, <1>14 DEF Circle
    <3> QED BY <1>4, <2>2, <3>1, <3>2, <3>3, <3>4
  <2> QED BY <2>1, <2>2
<1>15. ~Given(f, m)  BY <1>2 DEF Given
<1>16. ASSUME ~Circle PROVE f # m  BY <1>4, <1>16 DEF Circle
<1>17. ASSUME ~Circle, NEW g \in Heads PROVE overview'.team[g] = SumFunctionOnSet(overview'.own, Whose(g)')
  <2>1. overview.team[g] = SumFunctionOnSet(overview.own, Whose(g))  BY <1>1, <1>2, <1>17 DEF Summed
  <2>2. IsFiniteSet(Whose(g))  BY <1>1, FS_Subset DEF Whose
  <2>3. Whose(g)' = {e \in Heads : e = g \/ Given(e, g) \/ (e = f /\ g = m)}  BY <1>14, <1>17 DEF Whose
  <2>4. CASE g # m
    <3>1. Whose(g)' = Whose(g)  BY <2>3, <2>4 DEF Whose
    <3> QED BY <1>3, <1>4, <1>6, <1>7, <2>1, <2>4, <3>1
  <2>5. CASE g = m
    <3>1. Whose(g)' = Whose(g) \cup {f} /\ f \notin Whose(g)  BY <1>4, <1>15, <1>16, <1>17, <2>3, <2>5 DEF Whose
    <3>2. \A e \in Whose(g) \cup {f} : overview.own[e] \in Int  BY <1>3, <1>4 DEF Whose
    <3>3. SumFunctionOnSet(overview.own, Whose(g) \cup {f}) = SumFunctionOnSet(overview.own, Whose(g)) + overview.own[f]
      BY <2>2, <3>1, <3>2, SumAdd
    <3>4. overview'.team[g] = overview.team[g] + overview.own[f]  BY <1>3, <1>4, <1>5, <1>6, <1>7, <2>5
    <3> QED BY <1>7, <2>1, <3>1, <3>3, <3>4
  <2> QED BY <2>4, <2>5
<1>18. ASSUME ~Circle PROVE overview'.hops = Cardinality(Gifts')
  <2>1. overview.hops = Cardinality(Gifts)  BY <1>1, <1>2, <1>18 DEF Summed
  <2>2. IsFiniteSet(Gifts)
    <3>1. IsFiniteSet(Heads \X Heads)  BY <1>1, FS_Product
    <3> QED BY <3>1, FS_Subset DEF Gifts
  <2>3. <<f, m>> \notin Gifts  BY <1>15 DEF Gifts
  <2>4. Gifts' = Gifts \cup {<<f, m>>}
    <3>1. \A p \in Heads \X Heads : Given(p[1], p[2])' <=> Given(p[1], p[2]) \/ (p[1] = f /\ p[2] = m)
      BY <1>14, <1>18
    <3>2. \A p \in Heads \X Heads : p[1] = f /\ p[2] = m <=> p = <<f, m>>  BY <1>4
    <3>3. <<f, m>> \in Heads \X Heads  BY <1>4
    <3> HIDE DEF f, m
    <3> QED BY <3>1, <3>2, <3>3 DEF Gifts
  <2>5. Cardinality(Gifts \cup {<<f, m>>}) = Cardinality(Gifts) + 1  BY <2>2, <2>3, FS_AddElement
  <2> QED BY <1>5, <1>7, <2>1, <2>4, <2>5
<1>19. Summed'
  BY <1>8, <1>17, <1>18 DEF Summed
<1>20. OrgTyped'
  BY <1>1, <1>2, <1>3, <1>7 DEF OrgTyped
<1> QED BY <1>13, <1>19, <1>20 DEF OrgInv

\* An overview begins and reads who is whose manager.
LEMMA RestingTyped ==
  ASSUME OrgAssumption
  PROVE  /\ Resting \in OverviewRow /\ Resting.at = "idle" /\ Resting.from = Nobody /\ Resting.to = Nobody
         /\ Resting.hops = 0
<1>1. 0 \in 0..MaxHops /\ Nobody \in Someone /\ {} \in SUBSET Heads /\ "idle" \in Places
  BY DEF OrgAssumption, Someone, Places
<1>2. /\ <<>> \in [Heads -> Someone] \cup {<<>>} /\ <<>> \in [Heads -> Nat] \cup {<<>>}  OBVIOUS
<1> QED BY <1>1, <1>2 DEF Resting, OverviewRow

LEMMA ReadEmployeesKeeps ==
  ASSUME OrgAssumption, OrgInv, ReadEmployees
  PROVE  OrgInv'
<1>1. OrgTyped /\ manager \in [Heads -> Someone]  BY DEF OrgInv, OrgTyped
<1>2. UNCHANGED <<manager, botCost, move, moves>>  BY DEF ReadEmployees, OrgRests
<1>3. PICK r, d, chart : r = Resting /\ d = overview' /\ chart = manager  OBVIOUS
<1>4. r \in OverviewRow /\ r.from = Nobody /\ r.to = Nobody /\ r.hops = 0  BY <1>3, RestingTyped
<1>5. d = [r EXCEPT !.at = "read", !.chart = chart]  BY <1>3 DEF ReadEmployees
<1>6. d \in OverviewRow /\ d.at = "read" /\ d.chart = chart /\ d.from = r.from /\ d.to = r.to /\ d.hops = r.hops
  <2>1. PICK r1 : r1 = [r EXCEPT !.at = "read"]  OBVIOUS
  <2>2. PICK r2 : r2 = [r1 EXCEPT !.chart = chart]  OBVIOUS
  <2>3. d = r2  BY ONLY <1>4, <1>5, <2>1, <2>2 DEF OverviewRow
  <2>4. "read" \in Places  BY DEF Places
  <2>5. r1 \in OverviewRow /\ r1.at = "read" /\ r1.from = r.from /\ r1.to = r.to /\ r1.hops = r.hops
    BY ONLY <1>4, <2>1, <2>4 DEF OverviewRow
  <2>6. chart \in [Heads -> Someone]  BY <1>1, <1>3
  <2>7. r2 \in OverviewRow /\ r2.at = "read" /\ r2.chart = chart /\ r2.from = r.from /\ r2.to = r.to /\ r2.hops = r.hops
    BY ONLY <2>2, <2>5, <2>6 DEF OverviewRow
  <2> QED BY ONLY <2>3, <2>7
<1>7. /\ overview' \in OverviewRow /\ overview'.at = "read" /\ overview'.chart \in [Heads -> Someone]
      /\ overview'.from = Nobody /\ overview'.to = Nobody /\ overview'.hops = 0
  BY <1>1, <1>3, <1>4, <1>6
<1>8. OrgTyped'  BY <1>1, <1>2, <1>7 DEF OrgTyped
<1>9. OnItsWay' /\ Summed'  BY <1>7 DEF OnItsWay, Summed
<1> QED BY <1>8, <1>9 DEF OrgInv

\* Then it reads costs: everybody has their own, and nobody has given anything.
LEMMA ReadCostsKeeps ==
  ASSUME OrgAssumption, OrgInv, ReadCosts
  PROVE  OrgInv'
<1>1. OrgTyped /\ overview \in OverviewRow /\ IsFiniteSet(Bots) /\ Nobody \notin Heads /\ MaxBot \in Nat
  BY DEF OrgInv, OrgTyped, OrgAssumption
<1>2. overview.at = "read" /\ UNCHANGED <<manager, botCost, move, moves>>  BY DEF ReadCosts, OrgRests
<1>3. PICK own : own = [h \in Heads |-> CostOf(h)]  OBVIOUS
<1>4. own \in [Heads -> Nat]
  <2>1. ASSUME NEW h \in Heads PROVE CostOf(h) \in Nat
    <3>1. PICK S : S = {b \in Bots : MakerOf[b] = h}  OBVIOUS
    <3>2. IsFiniteSet(S)  BY <1>1, <3>1, FS_Subset
    <3>3. \A b \in S : botCost[b] \in Nat  BY <1>1, <3>1 DEF OrgTyped
    <3>4. SumFunctionOnSet(botCost, S) \in Nat  BY <3>2, <3>3, SumNat
    <3> QED BY <3>1, <3>4 DEF CostOf
  <2> QED BY <1>3, <2>1
<1>5. PICK r, d : r = overview /\ d = overview'  OBVIOUS
<1>6. d = [r EXCEPT !.at = "climb", !.own = own, !.team = own, !.left = Heads]  BY <1>3, <1>5 DEF ReadCosts
<1>7. /\ d \in OverviewRow
      /\ d.at = "climb" /\ d.chart = r.chart /\ d.own = own /\ d.team = own
      /\ d.left = Heads /\ d.from = r.from /\ d.to = r.to /\ d.hops = r.hops
  <2>1. "climb" \in Places /\ Heads \in SUBSET Heads  BY DEF Places
  <2>2. r \in OverviewRow  BY <1>1, <1>5
  <2>3. PICK r1 : r1 = [r EXCEPT !.at = "climb"]  OBVIOUS
  <2>4. PICK r2 : r2 = [r1 EXCEPT !.own = own]  OBVIOUS
  <2>5. PICK r3 : r3 = [r2 EXCEPT !.team = own]  OBVIOUS
  <2>6. d = [r3 EXCEPT !.left = Heads]  BY ONLY <1>6, <2>2, <2>3, <2>4, <2>5 DEF OverviewRow
  <2>7. /\ r1 \in OverviewRow
        /\ r1.at = "climb" /\ r1.chart = r.chart /\ r1.own = r.own /\ r1.team = r.team
        /\ r1.left = r.left /\ r1.from = r.from /\ r1.to = r.to /\ r1.hops = r.hops
    BY ONLY <2>2, <2>1, <2>3 DEF OverviewRow
  <2>8. /\ r2 \in OverviewRow
        /\ r2.at = "climb" /\ r2.chart = r.chart /\ r2.own = own /\ r2.team = r.team
        /\ r2.left = r.left /\ r2.from = r.from /\ r2.to = r.to /\ r2.hops = r.hops
    BY ONLY <2>7, <1>4, <2>4 DEF OverviewRow
  <2>9. /\ r3 \in OverviewRow
        /\ r3.at = "climb" /\ r3.chart = r.chart /\ r3.own = own /\ r3.team = own
        /\ r3.left = r.left /\ r3.from = r.from /\ r3.to = r.to /\ r3.hops = r.hops
    BY ONLY <2>8, <1>4, <2>5 DEF OverviewRow
  <2>10. /\ d \in OverviewRow
        /\ d.at = "climb" /\ d.chart = r.chart /\ d.own = own /\ d.team = own
        /\ d.left = Heads /\ d.from = r.from /\ d.to = r.to /\ d.hops = r.hops
    BY ONLY <2>9, <2>1, <2>6 DEF OverviewRow
  <2> QED BY <2>10
<1>8. /\ overview' \in OverviewRow /\ overview'.at = "climb" /\ overview'.chart \in [Heads -> Someone]
      /\ overview'.own = own /\ overview'.team = own /\ overview'.left = Heads
      /\ overview'.from = Nobody /\ overview'.to = Nobody /\ overview'.hops = 0
  BY <1>1, <1>2, <1>5, <1>7 DEF OrgTyped
<1>9. OrgTyped'  BY <1>1, <1>2, <1>4, <1>8 DEF OrgTyped
<1>10. OnItsWay'  BY <1>8 DEF OnItsWay
<1>11. Summed'
  <2>1. \A e, h : ~Given(e, h)'  BY <1>8 DEF Given
  <2>2. ASSUME NEW h \in Heads PROVE own[h] = SumFunctionOnSet(own, Whose(h)')
    <3>1. Whose(h)' = {} \cup {h}  BY <2>1 DEF Whose
    <3>2. IsFiniteSet({}) /\ h \notin {} /\ \A y \in {} \cup {h} : own[y] \in Int  BY <1>4, FS_EmptySet
    <3>3. SumFunctionOnSet(own, {} \cup {h}) = SumFunctionOnSet(own, {}) + own[h]  BY <3>2, SumAdd
    <3> QED BY <1>4, <3>1, <3>3, SumEmpty
  <2>3. Gifts' = {}  BY <2>1 DEF Gifts
  <2>4. Cardinality({}) = 0  BY FS_EmptySet
  <2>5. Cardinality(Gifts') = 0  BY ONLY <2>3, <2>4
  <2> QED BY <1>8, <2>2, <2>5 DEF Summed
<1> QED BY <1>9, <1>10, <1>11 DEF OrgInv

LEMMA ReplyKeeps ==
  ASSUME OrgAssumption, OrgInv, Reply
  PROVE  OrgInv'
<1>1. OrgTyped /\ OnItsWay /\ Summed /\ overview \in OverviewRow  BY DEF OrgInv, OrgTyped
<1>2. overview.at = "climb" /\ overview.to = Nobody /\ overview.left = {} /\ UNCHANGED <<manager, botCost, move, moves>>
  BY DEF Reply, Climbing, OrgRests
<1>3. PICK r, d : r = overview /\ d = overview'  OBVIOUS
<1>4. d = [r EXCEPT !.at = "answered"]  BY <1>3 DEF Reply
<1>5. /\ d \in OverviewRow
      /\ d.at = "answered" /\ d.chart = r.chart /\ d.own = r.own /\ d.team = r.team
      /\ d.left = r.left /\ d.from = r.from /\ d.to = r.to /\ d.hops = r.hops
  <2>1. "answered" \in Places  BY DEF Places
  <2>2. r \in OverviewRow  BY <1>1, <1>3
  <2> QED BY ONLY <1>4, <2>1, <2>2, WritesAt
<1>6. /\ overview' \in OverviewRow /\ overview'.at = "answered" /\ overview'.chart = overview.chart
      /\ overview'.own = overview.own /\ overview'.team = overview.team /\ overview'.left = overview.left
      /\ overview'.from = overview.from /\ overview'.to = overview.to /\ overview'.hops = overview.hops
  BY <1>3, <1>5
<1>7. (\A g : Above(g)' = Above(g)) /\ Circle' = Circle  BY <1>6, AboveSame
<1>8. OrgTyped'  BY <1>1, <1>2, <1>6 DEF OrgTyped
<1>9. OnItsWay'  BY <1>1, <1>2, <1>6, <1>7 DEF OnItsWay
<1>10. \A e, h : Given(e, h)' <=> Given(e, h)  BY <1>6, <1>7 DEF Given
<1>11. (\A h : Whose(h)' = Whose(h)) /\ Gifts' = Gifts  BY <1>10 DEF Whose, Gifts
<1>12. Summed'  BY <1>1, <1>2, <1>6, <1>7, <1>11 DEF Summed
<1> QED BY <1>8, <1>9, <1>12 DEF OrgInv

\* While nothing of the overview changes, what it has done stays done.
LEMMA OverviewStays ==
  ASSUME OnItsWay, Summed, overview' = overview
  PROVE  OnItsWay' /\ Summed'
<1>1. (\A g : Above(g)' = Above(g)) /\ Circle' = Circle  BY AboveSame
<1>2. \A e, h : Given(e, h)' <=> Given(e, h)  BY <1>1 DEF Given
<1>3. (\A h : Whose(h)' = Whose(h)) /\ Gifts' = Gifts  BY <1>2 DEF Whose, Gifts
<1>4. OnItsWay'  BY <1>1 DEF OnItsWay
<1> QED BY <1>1, <1>3, <1>4 DEF Summed

LEMMA OrgInit ==
  ASSUME OrgAssumption, InitOrg
  PROVE  OrgInv
<1>1. overview \in OverviewRow /\ overview.at = "idle"  BY RestingTyped DEF InitOrg
<1>2. OrgTyped  BY <1>1 DEF InitOrg, OrgTyped, OrgAssumption, Someone
<1> QED BY <1>1, <1>2 DEF OrgInv, OnItsWay, Summed

LEMMA OrgStep ==
  ASSUME OrgAssumption, OrgInv, [NextOrg]_orgVars
  PROVE  OrgInv'
<1> USE DEF OrgInv
<1>1. OrgTyped /\ OnItsWay /\ Summed  OBVIOUS
<1>2. ASSUME NEW b \in Bots, Spend(b) PROVE OrgInv'
  <2>1. UNCHANGED <<manager, move, moves, overview>>  BY <1>2 DEF Spend
  <2>2. botCost' \in [Bots -> 0..MaxBot]
    <3>1. botCost[b] \in 0..MaxBot /\ botCost[b] < MaxBot /\ MaxBot \in Nat  BY <1>1, <1>2 DEF Spend, OrgTyped, OrgAssumption
    <3>2. botCost[b] + 1 \in 0..MaxBot  BY <3>1
    <3> QED BY <1>1, <1>2, <3>2 DEF Spend, OrgTyped
  <2>3. OrgTyped'  BY <1>1, <2>1, <2>2 DEF OrgTyped
  <2> QED BY <1>1, <2>1, <2>3, OverviewStays
<1>3. ASSUME NEW k \in Clerks, WriteManager(k) PROVE OrgInv'
  <2>1. UNCHANGED <<botCost, moves, overview>>  BY <1>3 DEF WriteManager
  <2>2. move[k].at = "write" /\ move[k].of \in Heads /\ move[k].to \in Someone  BY <1>1, <1>3 DEF WriteManager, OrgTyped
  <2>3. manager' \in [Heads -> Someone]  BY <1>1, <1>3, <2>2 DEF WriteManager, OrgTyped
  <2>4. /\ move' \in [Clerks -> [at : {"idle", "write"}, of : Someone, to : Someone]]
        /\ \A i \in Clerks : move'[i].at = "write" => move'[i].of \in Heads
    BY <1>1, <1>3 DEF WriteManager, OrgTyped
  <2>5. OrgTyped'  BY <1>1, <2>1, <2>3, <2>4 DEF OrgTyped
  <2> QED BY <1>1, <2>1, <2>5, OverviewStays
<1>4. ASSUME NEW k \in Clerks, NEW h \in Heads, NEW m \in Heads \cup {Nobody}, FindManager(k, h, m) PROVE OrgInv'
  <2>1. UNCHANGED <<manager, botCost, overview>>  BY <1>4 DEF FindManager
  <2>2. moves' \in 0..MaxMoves  BY <1>1, <1>4 DEF FindManager, OrgTyped, OrgAssumption
  <2>3. /\ move' \in [Clerks -> [at : {"idle", "write"}, of : Someone, to : Someone]]
        /\ \A i \in Clerks : move'[i].at = "write" => move'[i].of \in Heads
    BY <1>1, <1>4 DEF FindManager, OrgTyped, Someone
  <2>4. OrgTyped'  BY <1>1, <2>1, <2>2, <2>3 DEF OrgTyped
  <2> QED BY <1>1, <2>1, <2>4, OverviewStays
<1>5. ASSUME AskAgain PROVE OrgInv'
  <2>1. overview' \in OverviewRow /\ overview'.at = "idle"  BY <1>5, RestingTyped DEF AskAgain
  <2>2. UNCHANGED <<manager, botCost, move, moves>>  BY <1>5 DEF AskAgain, OrgRests
  <2>3. OrgTyped'  BY <1>1, <2>1, <2>2 DEF OrgTyped
  <2> QED BY <2>1, <2>3 DEF OnItsWay, Summed
<1>6. ASSUME UNCHANGED orgVars PROVE OrgInv'
  <2>1. UNCHANGED <<manager, botCost, move, moves, overview>>  BY <1>6 DEF orgVars
  <2>2. OrgTyped'  BY <1>1, <2>1 DEF OrgTyped
  <2> QED BY <1>1, <2>1, <2>2, OverviewStays
<1> QED BY <1>2, <1>3, <1>4, <1>5, <1>6, ReadEmployeesKeeps, ReadCostsKeeps, ClimbKeeps, ReplyKeeps, NextKeeps DEF NextOrg

LEMMA OrgInvariant == SpecOrg => []OrgInv
<1>1. InitOrg => OrgInv  BY OrgAssumption, OrgInit
<1>2. OrgInv /\ [NextOrg]_orgVars => OrgInv'  BY OrgAssumption, OrgStep
<1> QED BY <1>1, <1>2, PTL DEF SpecOrg

\* The types of the organisation's managers, costs and overview are kept by every operation.
THEOREM OrgTypeCorrect == SpecOrg => []OrgTypeOK
<1>1. OrgInv => OrgTypeOK  BY DEF OrgInv, OrgTyped, OverviewRow, Someone, OrgTypeOK
<1> QED BY <1>1, OrgInvariant, PTL

\* An overview that is answered has given everybody the cost of all below, each once, whatever
\* managers are given while it is asked for; it is never answered when somebody is above
\* themselves, and climbs over no more than half the pairs of employees when nobody is.
THEOREM RollupAlwaysAddsUp == SpecOrg => []RollupAddsUp
<1>1. ASSUME OrgInv, overview.at = "answered"
      PROVE  ~Circle /\ \A h \in Heads :
               overview.team[h] = SumFunctionOnSet(overview.own, {e \in Heads : e = h \/ h \in Above(e)})
  <2>1. overview.left = {} /\ overview.to = Nobody /\ Summed  BY <1>1 DEF OrgInv, OnItsWay
  <2>2. ~Circle  BY <1>1, <2>1 DEF OrgInv, OnItsWay, Circle
  <2>3. \A h \in Heads : Whose(h) = {e \in Heads : e = h \/ h \in Above(e)}  BY <2>1 DEF Whose, Given
  <2> QED BY <1>1, <2>1, <2>2, <2>3 DEF Summed
<1>2. ASSUME OrgInv, overview.at \in {"climb", "answered"}, ~Circle
      PROVE  overview.hops <= (Cardinality(Heads) * (Cardinality(Heads) - 1)) \div 2
  <2>1. IsFiniteSet(Heads) /\ Nobody \notin Heads /\ overview.chart \in [Heads -> Someone]
    BY <1>2, OrgAssumption DEF OrgAssumption, OrgInv, OrgTyped
  <2>2. overview.hops = Cardinality(Gifts)  BY <1>2 DEF OrgInv, Summed
  <2>3. Gifts \in SUBSET (Heads \X Heads)  BY DEF Gifts
  <2>4. ASSUME NEW p \in Gifts PROVE p[1] # p[2] /\ <<p[2], p[1]>> \notin Gifts
    <3>1. p[1] \in Heads /\ p[2] \in Heads /\ p[2] \in Above(p[1])  BY <2>4 DEF Gifts, Given
    <3>2. p[1] # p[2]  BY <1>2, <3>1 DEF Circle
    <3>3. p[1] \notin Above(p[2])
      <4>1. Above(p[2]) \subseteq Above(p[1])  BY <2>1, <3>1, AboveThose
      <4> QED BY <1>2, <3>1, <4>1 DEF Circle
    <3> QED BY <3>2, <3>3 DEF Gifts, Given
  <2>5. Cardinality(Gifts) <= (Cardinality(Heads) * (Cardinality(Heads) - 1)) \div 2
    BY <2>1, <2>3, <2>4, HalfOfPairs
  <2> QED BY <2>2, <2>5
<1>3. OrgInv => RollupAddsUp  BY <1>1, <1>2 DEF RollupAddsUp, Circle
<1> QED BY <1>3, OrgInvariant, PTL

----------------------------------------------------------------------------
(***************************************************************************)
(* The five components side by side.                                       *)
(***************************************************************************)

\* A behaviour of all of them is one of each, which makes its own steps or stutters.
LEMMA EachFloor == SpecTracing => SpecNodes /\ SpecProxy /\ SpecTraces /\ SpecOrg /\ SpecRegistry
<1>1. InitTracing => InitNodes /\ InitProxy /\ InitTraces /\ InitOrg /\ InitRegistry  BY DEF InitTracing
<1>2. [NextTracing]_tracingVars =>
        /\ [NextNodes]_nodeVars /\ [NextProxy]_proxyVars /\ [NextTraces]_tracesVars
        /\ [NextOrg]_orgVars /\ [NextRegistry]_registryVars
  BY DEF NextTracing, tracingVars
<1> QED BY <1>1, <1>2, PTL DEF SpecTracing, SpecNodes, SpecProxy, SpecTraces, SpecOrg, SpecRegistry

\* Every variable of nodes, proxy, traces, costs and registry keeps its type, however many
\* sockets, posts, events, employees and callers there are.
THEOREM TracingTypeCorrect == SpecTracing => []TracingTypeOK
<1>1. TypeOK /\ ProxyTypeOK /\ TracesTypeOK /\ OrgTypeOK /\ RegistryTypeOK => TracingTypeOK  BY DEF TracingTypeOK
<1> QED BY <1>1, EachFloor, NodesTypeCorrect, ProxyTypeCorrect, TracesTypeCorrect, OrgTypeCorrect,
           RegistryTypeCorrect, PTL
=============================================================================
