---------------------------- MODULE WorkspaceProofs ----------------------------
(***************************************************************************)
(* Proofs about accounts, keys and requests (Access), about personnel      *)
(* (Personnel) and about the reports of costs (CostReports), and at the    *)
(* end about the six components of the workspace side by side (PortalMC);  *)
(* those about the other three are in PortalProofs.                        *)
(*                                                                         *)
(* Access: only a visit that a logout let in brings the session back, a    *)
(* rotated key is dead, a key for the gateway that was sent works until a  *)
(* regeneration replaced it, and a request is decided once.  Each rests on *)
(* what a visit that is under way has found.                               *)
(***************************************************************************)
EXTENDS PortalMC, PortalProofs, Sums

VisitPlaces == {"away", "create", "verify", "store", "revoke", "replace", "hash", "insert", "update", "show", "decide"}
Purposes == {NoToken, "register", "login", "rotate", "revoke", "new", "again", "APPROVED", "REJECTED", "CANCELLED"} \cup Nat
Things == {NoToken, <<"account">>, <<"session">>}
          \cup ({"gateway"} \X Nat) \cup ({"key"} \X Nat) \cup ({"request"} \X AccessRequests)

VisitRow == [at : VisitPlaces, op : Purposes, on : Things]

RowsTyped ==
  /\ now \in 0..MaxSecond /\ issued \subseteq 0..MaxSecond /\ visits \in 0..MaxVisits
  /\ account \in [exists : BOOLEAN, token : issued \cup {NoToken}]
  /\ agentKeys \in Seq([active : BOOLEAN, from : Nat])
  /\ \A i \in DOMAIN agentKeys : agentKeys[i].from < i
  /\ gatewayKey \in Nat \cup {NoToken} /\ shown \subseteq Nat
  /\ decision \in [AccessRequests -> [status : {"none", "PENDING", "APPROVED", "REJECTED", "CANCELLED"}, reviewed : BOOLEAN]]
  /\ out \in BOOLEAN

VisitsTyped == RowsTyped /\ visit \in [Visits -> VisitRow]

\* What a visit that has come to a place has with it.
Carries(v) == LET j == visit[v] IN
  /\ j.at \in {"verify", "store"} => j.on = <<"session">>
  /\ j.at = "store" => j.op \in 0..MaxSecond
  /\ j.at \in {"revoke", "replace"} => j.on \in {"key"} \X DOMAIN agentKeys
  /\ j.at = "hash" => j.on \in {"gateway"} \X Nat
  /\ j.at \in {"insert", "update", "show"} => j.op \in Nat
  /\ j.at = "decide" => j.on \in {"request"} \X AccessRequests /\ j.op \in {"APPROVED", "REJECTED", "CANCELLED"}

WellFormed == VisitsTyped /\ \A v \in Visits : Carries(v)

\* While a logout lasts, it has let in every visit that can store a token.
SessionOver == out =>
  account.token = NoToken /\ \A v \in Visits : visit[v].at \in {"verify", "store"} => v \in letIn

\* A key that is about to be replaced has been revoked.
KeysDead ==
  /\ RotationLeavesOne
  /\ \A v \in Visits : visit[v].at = "replace" => ~agentKeys[visit[v].on[2]].active

\* Every key for the gateway that was sent, or that is stored and about to be sent, is the one
\* that works or was replaced, and the one that works is among them.
GatewayKnown ==
  /\ \A k \in shown : k \in retired \/ k = gatewayKey
  /\ \A v \in Visits : visit[v].at = "show" => visit[v].op \in retired \/ visit[v].op = gatewayKey
  /\ gatewayKey = NoToken \/ gatewayKey \in shown
     \/ \E v \in Visits : visit[v].at = "show" /\ visit[v].op = gatewayKey

\* Until two have met at a request, one visit at most decides it, and finds it pending.
Deciding(v, r) == visit[v].at = "decide" /\ visit[v].on = <<"request", r>>

DecidedOnce == \A r \in AccessRequests : <<"request", r>> \notin raced =>
  /\ decision[r].reviewed <=> decision[r].status \in {"APPROVED", "REJECTED"}
  /\ \A v \in Visits : Deciding(v, r) => decision[r].status = "PENDING"
  /\ \A v, w \in Visits : Deciding(v, r) /\ Deciding(w, r) => v = w

AccessInv == WellFormed /\ SessionOver /\ KeysDead /\ GatewayKnown /\ DecidedOnce

----------------------------------------------------------------------------
\* The invariant holds at the start.
LEMMA AccessStarts == InitAccess => AccessInv
<1> USE AccessAssumption
<1> SUFFICES ASSUME InitAccess PROVE AccessInv
  OBVIOUS
<1>1. \A v \in Visits : visit[v].at = "away"
  BY DEF InitAccess, Away
<1>a. decision = [r \in AccessRequests |-> [status |-> "none", reviewed |-> FALSE]]
  BY Zenon DEF InitAccess
<1>c. now = 0 /\ visits = 0 /\ gatewayKey = NoToken /\ shown = {}
  BY Zenon DEF InitAccess
<1>d. out = FALSE
  BY Zenon DEF InitAccess
<1>b. account \in [exists : BOOLEAN, token : {NoToken}] /\ issued = {}
  BY Zenon DEF InitAccess
<1>2. VisitsTyped
  <2>1. Away \in VisitRow
    BY DEF Away, VisitRow, VisitPlaces, Purposes, Things
  <2>2. visit \in [Visits -> VisitRow]
    BY <2>1 DEF InitAccess
  <2>3. decision \in [AccessRequests -> [status : {"none", "PENDING", "APPROVED", "REJECTED", "CANCELLED"}, reviewed : BOOLEAN]]
    BY <1>a
  <2>4. account \in [exists : BOOLEAN, token : issued \cup {NoToken}] /\ issued \subseteq 0..MaxSecond
    BY <1>b
  <2>5. agentKeys \in Seq([active : BOOLEAN, from : Nat]) /\ DOMAIN agentKeys = {}
    BY DEF InitAccess
  <2>6. now \in 0..MaxSecond /\ visits \in 0..MaxVisits /\ gatewayKey \in Nat \cup {NoToken} /\ shown \subseteq Nat
    BY <1>c
  <2>7. out \in BOOLEAN
    BY <1>d, Zenon
  <2>. QED  BY <2>2, <2>3, <2>4, <2>5, <2>6, <2>7 DEF VisitsTyped, RowsTyped
<1>3. \A v \in Visits : Carries(v)
  BY <1>1 DEF Carries
<1>4. SessionOver /\ KeysDead
  BY <1>1 DEF InitAccess, SessionOver, KeysDead, RotationLeavesOne
<1>5. GatewayKnown
  BY <1>1, <1>c DEF GatewayKnown
<1>6. DecidedOnce
  <2>1. \A r \in AccessRequests : decision[r] = [status |-> "none", reviewed |-> FALSE]
    BY <1>a
  <2>2. \A r \in AccessRequests : decision[r].reviewed <=> decision[r].status \in {"APPROVED", "REJECTED"}
    <3>1. SUFFICES ASSUME NEW r \in AccessRequests
                   PROVE  decision[r].reviewed <=> decision[r].status \in {"APPROVED", "REJECTED"}
      OBVIOUS
    <3>2. decision[r].reviewed = FALSE /\ decision[r].status = "none"
      BY <2>1
    <3>. QED  BY <3>2
  <2>3. \A v \in Visits, r \in AccessRequests : ~Deciding(v, r)
    BY <1>1 DEF Deciding
  <2>. QED  BY ONLY <2>2, <2>3 DEF DecidedOnce
<1>. QED  BY <1>2, <1>3, <1>4, <1>5, <1>6 DEF AccessInv, WellFormed

----------------------------------------------------------------------------
(* The steps of a visit, by what they touch.                               *)

AccountSteps(v) ==
  \/ FindAddress(v) \/ CreateUser(v) \/ FindUser(v) \/ VerifyPassword(v) \/ StoreToken(v) \/ Logout(v)
  \/ \E t \in 0..MaxSecond : Refresh(v, t)

KeySteps(v) ==
  \/ GenerateKey(v) \/ RevokeKey(v) \/ ReplaceKey(v)
  \/ \E i \in 1..MaxVisits, op \in {"rotate", "revoke"} : FindKey(v, op, i)

GatewaySteps(v) == FindGatewayKey(v) \/ HashKey(v) \/ StoreGatewayKey(v) \/ ShowKey(v)

RequestSteps(v) ==
  \/ Decide(v)
  \/ \E r \in AccessRequests :
       \/ CreateRequest(v, r)
       \/ \E op \in {"APPROVED", "REJECTED", "CANCELLED"} : FindRequest(v, r, op)

\* A step of a visit is one of these, or its failure.
LEMMA StepsByTouch ==
  ASSUME NEW v \in Visits
  PROVE  (\/ FindAddress(v) \/ CreateUser(v) \/ FindUser(v) \/ VerifyPassword(v) \/ StoreToken(v) \/ Logout(v)
          \/ (\E t \in 0..MaxSecond : Refresh(v, t))
          \/ GenerateKey(v) \/ RevokeKey(v) \/ ReplaceKey(v)
          \/ (\E i \in 1..MaxVisits, op \in {"rotate", "revoke"} : FindKey(v, op, i))
          \/ FindGatewayKey(v) \/ HashKey(v) \/ StoreGatewayKey(v) \/ ShowKey(v) \/ Decide(v) \/ VisitFault(v)
          \/ \E r \in AccessRequests :
               \/ CreateRequest(v, r)
               \/ \E op \in {"APPROVED", "REJECTED", "CANCELLED"} : FindRequest(v, r, op))
         => AccountSteps(v) \/ KeySteps(v) \/ GatewaySteps(v) \/ RequestSteps(v) \/ VisitFault(v)
  BY Zenon DEF AccountSteps, KeySteps, GatewaySteps, RequestSteps

\* What the others carry stays theirs.
LEMMA OthersCarry ==
  ASSUME WellFormed, NEW v \in Visits, \A w \in Visits \ {v} : visit'[w] = visit[w],
         DOMAIN agentKeys \subseteq DOMAIN agentKeys', Carries(v)'
  PROVE  \A w \in Visits : Carries(w)'
  BY DEF WellFormed, Carries

\* The forms that the next record of a visit takes.
LEMMA NextRecord ==
  ASSUME VisitsTyped, NEW v \in Visits, NEW at \in VisitPlaces, NEW op \in Purposes
  PROVE  /\ [visit EXCEPT ![v].at = at] = [visit EXCEPT ![v] = [at |-> at, op |-> visit[v].op, on |-> visit[v].on]]
         /\ [visit EXCEPT ![v].at = at, ![v].op = op] = [visit EXCEPT ![v] = [at |-> at, op |-> op, on |-> visit[v].on]]
         /\ [at |-> at, op |-> visit[v].op, on |-> visit[v].on] \in VisitRow
         /\ [at |-> at, op |-> op, on |-> visit[v].on] \in VisitRow
         /\ Away \in VisitRow
<1> DEFINE j == visit[v]
<1>1. j \in VisitRow /\ visit \in [Visits -> VisitRow]
  BY DEF VisitsTyped, VisitRow
<1> HIDE DEF j
<1>2. j = [at |-> j.at, op |-> j.op, on |-> j.on]
  BY <1>1 DEF VisitRow
<1>3. [j EXCEPT !.at = at] = [at |-> at, op |-> j.op, on |-> j.on]
  BY ONLY <1>2
<1>4. [[j EXCEPT !.at = at] EXCEPT !.op = op] = [at |-> at, op |-> op, on |-> j.on]
  <2>1. [[at |-> at, op |-> j.op, on |-> j.on] EXCEPT !.op = op] = [at |-> at, op |-> op, on |-> j.on]
    BY ONLY TRUE
  <2>. QED  BY ONLY <1>3, <2>1, Zenon
<1>5. [at |-> at, op |-> j.op, on |-> j.on] \in VisitRow /\ [at |-> at, op |-> op, on |-> j.on] \in VisitRow
  BY <1>1 DEF VisitRow
<1>6. Away \in VisitRow
  BY DEF Away, VisitRow, VisitPlaces, Purposes, Things
<1>7. [visit EXCEPT ![v].at = at] = [visit EXCEPT ![v] = [at |-> at, op |-> j.op, on |-> j.on]]
  BY <1>3 DEF j
<1>8. [visit EXCEPT ![v].at = at, ![v].op = op] = [visit EXCEPT ![v] = [at |-> at, op |-> op, on |-> j.on]]
  <2>1. [visit EXCEPT ![v].at = at, ![v].op = op] = [visit EXCEPT ![v] = [[j EXCEPT !.at = at] EXCEPT !.op = op]]
    BY <1>1 DEF j
  <2>. QED  BY <2>1, <1>4
<1>. QED  BY <1>5, <1>6, <1>7, <1>8 DEF j

\* A visit arrives, goes on, or leaves; the others stay where they are.
VisitIs(v, j) ==
  /\ visit' \in [Visits -> VisitRow] /\ visit'[v] = j
  /\ \A w \in Visits \ {v} : visit'[w] = visit[w]

LEMMA Arrives ==
  ASSUME VisitsTyped, NEW v \in Visits, NEW op \in Purposes, NEW on \in Things, NEW at \in VisitPlaces, Arrive(v, op, on, at)
  PROVE  /\ VisitIs(v, [at |-> at, op |-> op, on |-> on])
         /\ visits' \in 0..MaxVisits /\ visit[v].at = "away"
         /\ raced \subseteq raced'
         /\ \A w \in Visits \ {v} : visit[w].at # "away" /\ visit[w].on = on => on \in raced'
<1>1. [at |-> at, op |-> op, on |-> on] \in VisitRow
  BY DEF VisitRow
<1>2. VisitIs(v, [at |-> at, op |-> op, on |-> on])
  BY <1>1 DEF Arrive, VisitsTyped, VisitIs
<1>3. visits' \in 0..MaxVisits /\ visit[v].at = "away"
  BY AccessAssumption DEF Arrive, VisitAt, VisitsTyped, RowsTyped
<1>4. raced \subseteq raced' /\ \A w \in Visits \ {v} : visit[w].at # "away" /\ visit[w].on = on => on \in raced'
  BY DEF Arrive, Company, VisitAt
<1>. QED  BY <1>2, <1>3, <1>4

LEMMA GoesTo ==
  ASSUME VisitsTyped, NEW v \in Visits, NEW at \in VisitPlaces, visit' = [visit EXCEPT ![v].at = at]
  PROVE  VisitIs(v, [at |-> at, op |-> visit[v].op, on |-> visit[v].on])
<1>1. PICK op \in Purposes : TRUE
  BY DEF Purposes
<1>2. visit' = [visit EXCEPT ![v] = [at |-> at, op |-> visit[v].op, on |-> visit[v].on]]
  BY <1>1, NextRecord
<1>3. [at |-> at, op |-> visit[v].op, on |-> visit[v].on] \in VisitRow
  BY <1>1, NextRecord
<1>. QED  BY <1>2, <1>3 DEF VisitsTyped, VisitIs

LEMMA GoesToWith ==
  ASSUME VisitsTyped, NEW v \in Visits, NEW at \in VisitPlaces, NEW op \in Purposes,
         visit' = [visit EXCEPT ![v].at = at, ![v].op = op]
  PROVE  VisitIs(v, [at |-> at, op |-> op, on |-> visit[v].on])
<1> DEFINE j == [at |-> at, op |-> visit[v].op, on |-> visit[v].on]
           k == [at |-> at, op |-> op, on |-> visit[v].on]
           e == [visit EXCEPT ![v].at = at]
<1>1. j \in VisitRow /\ k \in VisitRow /\ e = [visit EXCEPT ![v] = j]
  BY ONLY VisitsTyped, v \in Visits, at \in VisitPlaces, op \in Purposes, NextRecord
<1>2. [j EXCEPT !.op = op] = k
  OBVIOUS
<1>3. visit' = [e EXCEPT ![v] = [e[v] EXCEPT !.op = op]]
  OBVIOUS
<1> HIDE DEF j, k, e
<1>4. e \in [Visits -> VisitRow] /\ e[v] = j /\ \A w \in Visits \ {v} : e[w] = visit[w]
  BY <1>1 DEF VisitsTyped
<1>5. visit' = [e EXCEPT ![v] = k]
  BY ONLY <1>2, <1>3, <1>4, Zenon
<1>6. VisitIs(v, k)
  BY <1>1, <1>4, <1>5 DEF VisitIs
<1>. QED  BY <1>6 DEF k

LEMMA Gone ==
  ASSUME VisitsTyped, NEW v \in Visits, Leaves(v)
  PROVE  VisitIs(v, Away) /\ visit'[v].at = "away" /\ Carries(v)'
<1>1. Away \in VisitRow
  BY DEF Away, VisitRow, VisitPlaces, Purposes, Things
<1>2. VisitIs(v, Away)
  BY <1>1 DEF Leaves, VisitsTyped, VisitIs
<1>3. visit'[v].at = "away"
  BY <1>2 DEF VisitIs, Away
<1>. QED  BY <1>2, <1>3 DEF Carries

----------------------------------------------------------------------------
----------------------------------------------------------------------------
(* The rows of one area change, and the visit goes among its places.       *)

\* A step gives a visit a place out of some, and leaves the others where they are.
Moves(v, at) == visit'[v].at \in at /\ \A w \in Visits \ {v} : visit'[w] = visit[w]

\* Visits to the account and the session.
AccountPlaces == {"away", "create", "verify", "store"}

LEMMA AccountWellFormed ==
  ASSUME WellFormed, NEW v \in Visits, AccountSteps(v)
  PROVE  WellFormed' /\ Moves(v, AccountPlaces) /\ raced \subseteq raced' /\ KeysRest
<1> USE AccessAssumption
<1>1. VisitsTyped /\ RowsTyped /\ Carries(v)
  BY DEF WellFormed, VisitsTyped
<1>2. SUFFICES /\ RowsTyped' /\ visit' \in [Visits -> VisitRow] /\ Carries(v)'
               /\ Moves(v, AccountPlaces) /\ raced \subseteq raced' /\ KeysRest
  <2>1. (\A w \in Visits \ {v} : visit'[w] = visit[w]) /\ DOMAIN agentKeys \subseteq DOMAIN agentKeys'
    BY <1>2 DEF Moves, KeysRest
  <2>2. \A w \in Visits : Carries(w)'
    BY <1>2, <2>1, OthersCarry
  <2>. QED  BY <1>2, <2>2 DEF WellFormed, VisitsTyped
<1>3. CASE FindAddress(v)
  <2>1. Arrive(v, "register", <<"account">>, "create") /\ AccountRest /\ KeysRest
    BY <1>3 DEF FindAddress
  <2>2. <<"account">> \in Things /\ "register" \in Purposes /\ "create" \in VisitPlaces
    BY DEF Things, Purposes, VisitPlaces
  <2>3. VisitIs(v, [at |-> "create", op |-> "register", on |-> <<"account">>]) /\ visits' \in 0..MaxVisits /\ raced \subseteq raced'
    BY <1>1, <2>1, <2>2, Arrives
  <2>4. RowsTyped'
    BY <1>1, <2>1, <2>3 DEF AccountRest, KeysRest, GatewayRest, RowsTyped
  <2>5. Carries(v)'
    BY <2>3 DEF VisitIs, Carries
  <2>. QED  BY <2>1, <2>3, <2>4, <2>5 DEF VisitIs, Moves, AccountPlaces
<1>4. CASE FindUser(v)
  <2>1. Arrive(v, "login", <<"session">>, "verify") /\ KeysRest /\ UNCHANGED <<now, account, issued, out>>
    BY <1>4 DEF FindUser
  <2>2. <<"session">> \in Things /\ "login" \in Purposes /\ "verify" \in VisitPlaces
    BY DEF Things, Purposes, VisitPlaces
  <2>3. VisitIs(v, [at |-> "verify", op |-> "login", on |-> <<"session">>]) /\ visits' \in 0..MaxVisits /\ raced \subseteq raced'
    BY <1>1, <2>1, <2>2, Arrives
  <2>4. RowsTyped'
    BY <1>1, <2>1, <2>3 DEF KeysRest, GatewayRest, RowsTyped
  <2>5. Carries(v)'
    BY <2>3 DEF VisitIs, Carries
  <2>. QED  BY <2>1, <2>3, <2>4, <2>5 DEF VisitIs, Moves, AccountPlaces
<1>5. CASE \E t \in 0..MaxSecond : Refresh(v, t)
  <2>1. Arrive(v, now, <<"session">>, "store") /\ UNCHANGED <<now, account, issued, out>> /\ KeysRest
    BY <1>5 DEF Refresh
  <2>2. <<"session">> \in Things /\ now \in Purposes /\ "store" \in VisitPlaces
    BY <1>1 DEF Things, Purposes, VisitPlaces, RowsTyped
  <2>3. VisitIs(v, [at |-> "store", op |-> now, on |-> <<"session">>]) /\ visits' \in 0..MaxVisits /\ raced \subseteq raced'
    BY <1>1, <2>1, <2>2, Arrives
  <2>4. RowsTyped'
    BY <1>1, <2>1, <2>3 DEF KeysRest, GatewayRest, RowsTyped
  <2>5. Carries(v)'
    BY <1>1, <2>3 DEF VisitIs, Carries, RowsTyped
  <2>. QED  BY <2>1, <2>3, <2>4, <2>5 DEF VisitIs, Moves, AccountPlaces
<1>6. CASE CreateUser(v)
  <2>1. Leaves(v) /\ Stays /\ KeysRest /\ UNCHANGED <<now, issued, out>> /\ account' = [account EXCEPT !.exists = TRUE]
    BY <1>6 DEF CreateUser
  <2>2. VisitIs(v, Away) /\ visit'[v].at = "away" /\ Carries(v)'
    BY <1>1, <2>1, Gone
  <2>3. account' \in [exists : BOOLEAN, token : issued' \cup {NoToken}]
    BY <1>1, <2>1 DEF RowsTyped
  <2>4. RowsTyped'
    BY <1>1, <2>1, <2>3 DEF KeysRest, GatewayRest, Stays, RowsTyped
  <2>. QED  BY <2>1, <2>2, <2>4 DEF VisitIs, Moves, AccountPlaces, Stays
<1>7. CASE VerifyPassword(v)
  <2>1. VisitAt(v, "verify") /\ Stays /\ AccountRest /\ KeysRest
    BY <1>7 DEF VerifyPassword
  <2>2. RowsTyped'
    BY <1>1, <2>1 DEF AccountRest, KeysRest, GatewayRest, Stays, RowsTyped
  <2>3. CASE visit' = [visit EXCEPT ![v].at = "store", ![v].op = now]
    <3>1. visit[v].on = <<"session">> /\ now \in 0..MaxSecond /\ now \in Purposes /\ "store" \in VisitPlaces
      BY <1>1, <2>1 DEF Carries, VisitAt, RowsTyped, Purposes, VisitPlaces
    <3>2. VisitIs(v, [at |-> "store", op |-> now, on |-> visit[v].on])
      BY <1>1, <2>3, <3>1, GoesToWith
    <3>3. Carries(v)'
      BY <3>1, <3>2 DEF VisitIs, Carries
    <3>. QED  BY <2>1, <2>2, <3>2, <3>3 DEF VisitIs, Moves, AccountPlaces, Stays
  <2>4. CASE Leaves(v)
    <3>1. VisitIs(v, Away) /\ visit'[v].at = "away" /\ Carries(v)'
      BY <1>1, <2>4, Gone
    <3>. QED  BY <2>1, <2>2, <3>1 DEF VisitIs, Moves, AccountPlaces, Stays
  <2>. QED  BY <1>7, <2>3, <2>4 DEF VerifyPassword
<1>8. CASE StoreToken(v)
  <2>1. VisitAt(v, "store") /\ Leaves(v) /\ Stays /\ KeysRest /\ UNCHANGED now
    BY <1>8 DEF StoreToken
  <2>2. account' = [account EXCEPT !.token = visit[v].op] /\ issued' = issued \cup {visit[v].op}
    BY <1>8 DEF StoreToken
  <2>3. visit[v].op \in 0..MaxSecond
    BY <1>1, <2>1 DEF Carries, VisitAt
  <2>4. VisitIs(v, Away) /\ visit'[v].at = "away" /\ Carries(v)'
    BY <1>1, <2>1, Gone
  <2>5. account' \in [exists : BOOLEAN, token : issued' \cup {NoToken}] /\ issued' \subseteq 0..MaxSecond
    BY <1>1, <2>2, <2>3 DEF RowsTyped
  <2>6. out' \in BOOLEAN
    BY <1>8, Zenon DEF StoreToken
  <2>7. RowsTyped'
    BY <1>1, <2>1, <2>5, <2>6 DEF KeysRest, GatewayRest, Stays, RowsTyped
  <2>. QED  BY <2>1, <2>4, <2>7 DEF VisitIs, Moves, AccountPlaces, Stays
<1>9. CASE Logout(v)
  <2>1. AtOnce(v) /\ KeysRest /\ UNCHANGED <<now, issued>> /\ account' = [account EXCEPT !.token = NoToken]
    BY <1>9 DEF Logout
  <2>2. visit[v].at = "away" /\ visits' \in 0..MaxVisits /\ UNCHANGED <<visit, raced>>
    BY <1>1, <2>1 DEF AtOnce, VisitAt, RowsTyped
  <2>3. account' \in [exists : BOOLEAN, token : issued' \cup {NoToken}]
    BY <1>1, <2>1 DEF RowsTyped
  <2>4. out' \in BOOLEAN
    BY <1>9, Zenon DEF Logout
  <2>5. RowsTyped'
    BY <1>1, <2>1, <2>2, <2>3, <2>4 DEF KeysRest, GatewayRest, RowsTyped
  <2>6. Carries(v)'
    BY <2>2 DEF Carries
  <2>. QED  BY <1>1, <2>1, <2>2, <2>5, <2>6 DEF Moves, AccountPlaces, VisitsTyped
<1>. QED  BY <1>3, <1>4, <1>5, <1>6, <1>7, <1>8, <1>9 DEF AccountSteps

\* Visits to the keys of an agent.
KeyPlaces == {"away", "revoke", "replace"}
KeyRow == [active : BOOLEAN, from : Nat]

\* One more key, made from an older one or from none.
LEMMA OneMoreKey ==
  ASSUME RowsTyped, NEW from \in Nat, from <= Len(agentKeys), agentKeys' = NewKey(from)
  PROVE  /\ agentKeys' \in Seq(KeyRow) /\ DOMAIN agentKeys \subseteq DOMAIN agentKeys'
         /\ \A i \in DOMAIN agentKeys' : agentKeys'[i].from < i
         /\ \A i \in DOMAIN agentKeys : agentKeys'[i] = agentKeys[i]
         /\ \A i \in DOMAIN agentKeys' \ DOMAIN agentKeys : agentKeys'[i].from = from
<1> DEFINE k == [active |-> TRUE, from |-> from]
<1>1. agentKeys \in Seq(KeyRow) /\ \A i \in DOMAIN agentKeys : agentKeys[i].from < i
  BY DEF RowsTyped, KeyRow
<1>2. k \in KeyRow /\ agentKeys' = Append(agentKeys, k) /\ k.from = from
  BY DEF NewKey, KeyRow
<1> HIDE DEF k
<1>3. /\ agentKeys' \in Seq(KeyRow) /\ DOMAIN agentKeys' = 1..(Len(agentKeys) + 1) /\ DOMAIN agentKeys = 1..Len(agentKeys)
      /\ Len(agentKeys) \in Nat /\ agentKeys'[Len(agentKeys) + 1] = k
      /\ \A i \in 1..Len(agentKeys) : agentKeys'[i] = agentKeys[i]
  BY <1>1, <1>2
<1>4. \A i \in DOMAIN agentKeys' : i \in DOMAIN agentKeys \/ i = Len(agentKeys) + 1
  BY <1>3
<1>5. \A i \in DOMAIN agentKeys' : agentKeys'[i].from < i
  BY <1>1, <1>2, <1>3, <1>4
<1>6. \A i \in DOMAIN agentKeys' \ DOMAIN agentKeys : agentKeys'[i].from = from
  BY <1>2, <1>3, <1>4
<1>. QED  BY <1>3, <1>5, <1>6

\* A key is switched off.
LEMMA OneKeyOff ==
  ASSUME RowsTyped, NEW k \in DOMAIN agentKeys, agentKeys' = [agentKeys EXCEPT ![k].active = FALSE]
  PROVE  /\ agentKeys' \in Seq(KeyRow) /\ DOMAIN agentKeys' = DOMAIN agentKeys
         /\ \A i \in DOMAIN agentKeys : agentKeys'[i].from = agentKeys[i].from
         /\ \A i \in DOMAIN agentKeys \ {k} : agentKeys'[i] = agentKeys[i]
         /\ ~agentKeys'[k].active
<1>1. agentKeys \in Seq(KeyRow) /\ Len(agentKeys) \in Nat /\ DOMAIN agentKeys = 1..Len(agentKeys)
  BY DEF RowsTyped, KeyRow
<1>2. agentKeys \in [1..Len(agentKeys) -> KeyRow]
  BY <1>1
<1> DEFINE row == [agentKeys[k] EXCEPT !.active = FALSE]
<1>3. row \in KeyRow /\ row.active = FALSE /\ row.from = agentKeys[k].from
  BY <1>1, <1>2 DEF KeyRow
<1>4. agentKeys' = [agentKeys EXCEPT ![k] = row]
  OBVIOUS
<1> HIDE DEF row
<1>5. agentKeys' \in [1..Len(agentKeys) -> KeyRow] /\ agentKeys'[k] = row
      /\ \A i \in DOMAIN agentKeys \ {k} : agentKeys'[i] = agentKeys[i]
  BY <1>1, <1>2, <1>3, <1>4
<1>6. agentKeys' \in Seq(KeyRow) /\ DOMAIN agentKeys' = DOMAIN agentKeys
  BY <1>1, <1>5
<1>7. \A i \in DOMAIN agentKeys : agentKeys'[i].from = agentKeys[i].from
  BY <1>3, <1>5
<1>8. ~agentKeys'[k].active
  BY <1>3, <1>5
<1>. QED  BY <1>5, <1>6, <1>7, <1>8

LEMMA KeyWellFormed ==
  ASSUME WellFormed, NEW v \in Visits, KeySteps(v)
  PROVE  WellFormed' /\ Moves(v, KeyPlaces) /\ raced \subseteq raced' /\ AccountRest /\ GatewayRest /\ UNCHANGED decision
<1> USE AccessAssumption
<1> DEFINE Rest == AccountRest /\ GatewayRest /\ UNCHANGED decision
<1>1. VisitsTyped /\ RowsTyped /\ Carries(v) /\ Len(agentKeys) \in Nat /\ DOMAIN agentKeys = 1..Len(agentKeys)
  BY DEF WellFormed, VisitsTyped, RowsTyped
<1>2. SUFFICES /\ RowsTyped' /\ visit' \in [Visits -> VisitRow] /\ Carries(v)' /\ DOMAIN agentKeys \subseteq DOMAIN agentKeys'
               /\ Moves(v, KeyPlaces) /\ raced \subseteq raced' /\ Rest
  <2>1. \A w \in Visits \ {v} : visit'[w] = visit[w]
    BY <1>2 DEF Moves
  <2>2. \A w \in Visits : Carries(w)'
    BY <1>2, <2>1, OthersCarry
  <2>. QED  BY <1>2, <2>2 DEF WellFormed, VisitsTyped
<1>3. CASE GenerateKey(v)
  <2>1. AtOnce(v) /\ Rest /\ agentKeys' = NewKey(0)
    BY <1>3 DEF GenerateKey
  <2>2. visit[v].at = "away" /\ visits' \in 0..MaxVisits /\ UNCHANGED <<visit, raced>>
    BY <1>1, <2>1 DEF AtOnce, VisitAt, RowsTyped
  <2>3. /\ agentKeys' \in Seq(KeyRow) /\ DOMAIN agentKeys \subseteq DOMAIN agentKeys'
        /\ \A i \in DOMAIN agentKeys' : agentKeys'[i].from < i
    BY <1>1, <2>1, OneMoreKey
  <2>4. RowsTyped'
    BY <1>1, <2>1, <2>2, <2>3 DEF AccountRest, GatewayRest, RowsTyped, KeyRow
  <2>5. Carries(v)'
    BY <2>2 DEF Carries
  <2>. QED  BY <1>1, <2>1, <2>2, <2>3, <2>4, <2>5 DEF Moves, KeyPlaces, VisitsTyped
<1>4. CASE \E i \in 1..MaxVisits, op \in {"rotate", "revoke"} : FindKey(v, op, i)
  <2>1. PICK i \in 1..MaxVisits, op \in {"rotate", "revoke"} : FindKey(v, op, i)
    BY <1>4
  <2>2. Arrive(v, op, <<"key", i>>, "revoke") /\ AccountRest /\ KeysRest /\ i \in DOMAIN agentKeys
    BY <2>1 DEF FindKey
  <2>3. <<"key", i>> \in Things /\ op \in Purposes /\ "revoke" \in VisitPlaces
    BY DEF Things, Purposes, VisitPlaces
  <2>4. VisitIs(v, [at |-> "revoke", op |-> op, on |-> <<"key", i>>]) /\ visits' \in 0..MaxVisits /\ raced \subseteq raced'
    BY <1>1, <2>2, <2>3, Arrives
  <2>5. RowsTyped'
    BY <1>1, <2>2, <2>4 DEF AccountRest, KeysRest, GatewayRest, RowsTyped
  <2>6. Carries(v)'
    BY <2>2, <2>4 DEF VisitIs, Carries, KeysRest
  <2>. QED  BY <2>2, <2>4, <2>5, <2>6 DEF VisitIs, Moves, KeyPlaces, KeysRest
<1>5. CASE RevokeKey(v)
  <2>1. VisitAt(v, "revoke") /\ Stays /\ Rest /\ agentKeys' = [agentKeys EXCEPT ![visit[v].on[2]].active = FALSE]
    BY <1>5 DEF RevokeKey
  <2>2. visit[v].on \in {"key"} \X DOMAIN agentKeys
    BY <1>1, <2>1 DEF Carries, VisitAt
  <2>3. visit[v].on[2] \in DOMAIN agentKeys
    BY <2>2
  <2>4. /\ agentKeys' \in Seq(KeyRow) /\ DOMAIN agentKeys' = DOMAIN agentKeys
        /\ \A i \in DOMAIN agentKeys : agentKeys'[i].from = agentKeys[i].from
    BY <1>1, <2>1, <2>3, OneKeyOff
  <2>5. \A i \in DOMAIN agentKeys' : agentKeys'[i].from < i
    BY <1>1, <2>4 DEF RowsTyped
  <2>6. RowsTyped'
    BY <1>1, <2>1, <2>4, <2>5 DEF AccountRest, GatewayRest, Stays, RowsTyped, KeyRow
  <2>7. CASE VisitTo(v, "replace")
    <3>1. VisitIs(v, [at |-> "replace", op |-> visit[v].op, on |-> visit[v].on])
      BY <1>1, <2>7, GoesTo DEF VisitTo, VisitPlaces
    <3>2. Carries(v)'
      BY <2>2, <2>4, <3>1 DEF VisitIs, Carries
    <3>. QED  BY <2>1, <2>4, <2>6, <3>1, <3>2 DEF VisitIs, Moves, KeyPlaces, Stays
  <2>8. CASE Leaves(v)
    <3>1. VisitIs(v, Away) /\ visit'[v].at = "away" /\ Carries(v)'
      BY <1>1, <2>8, Gone
    <3>. QED  BY <2>1, <2>4, <2>6, <3>1 DEF VisitIs, Moves, KeyPlaces, Stays
  <2>. QED  BY <1>5, <2>7, <2>8 DEF RevokeKey
<1>6. CASE ReplaceKey(v)
  <2>1. VisitAt(v, "replace") /\ Leaves(v) /\ Stays /\ Rest /\ agentKeys' = NewKey(visit[v].on[2])
    BY <1>6 DEF ReplaceKey
  <2>2. visit[v].on \in {"key"} \X DOMAIN agentKeys
    BY <1>1, <2>1 DEF Carries, VisitAt
  <2>3. visit[v].on[2] \in Nat /\ visit[v].on[2] <= Len(agentKeys)
    BY <1>1, <2>2
  <2>4. /\ agentKeys' \in Seq(KeyRow) /\ DOMAIN agentKeys \subseteq DOMAIN agentKeys'
        /\ \A i \in DOMAIN agentKeys' : agentKeys'[i].from < i
    BY <1>1, <2>1, <2>3, OneMoreKey
  <2>5. RowsTyped'
    BY <1>1, <2>1, <2>4 DEF AccountRest, GatewayRest, Stays, RowsTyped, KeyRow
  <2>6. VisitIs(v, Away) /\ visit'[v].at = "away" /\ Carries(v)'
    BY <1>1, <2>1, Gone
  <2>. QED  BY <2>1, <2>4, <2>5, <2>6 DEF VisitIs, Moves, KeyPlaces, Stays
<1>. QED  BY <1>3, <1>4, <1>5, <1>6 DEF KeySteps

\* Visits to the user's key for the gateway.
GatewayPlaces == {"away", "hash", "insert", "update", "show"}

LEMMA GatewayWellFormed ==
  ASSUME WellFormed, NEW v \in Visits, GatewaySteps(v)
  PROVE  WellFormed' /\ Moves(v, GatewayPlaces) /\ raced \subseteq raced' /\ AccountRest /\ UNCHANGED <<agentKeys, decision>>
<1> USE AccessAssumption
<1> DEFINE Rest == AccountRest /\ UNCHANGED <<agentKeys, decision>>
<1>1. VisitsTyped /\ RowsTyped /\ Carries(v)
  BY DEF WellFormed, VisitsTyped
<1>2. SUFFICES /\ RowsTyped' /\ visit' \in [Visits -> VisitRow] /\ Carries(v)'
               /\ Moves(v, GatewayPlaces) /\ raced \subseteq raced' /\ Rest
  <2>1. (\A w \in Visits \ {v} : visit'[w] = visit[w]) /\ DOMAIN agentKeys \subseteq DOMAIN agentKeys'
    BY <1>2 DEF Moves
  <2>2. \A w \in Visits : Carries(w)'
    BY <1>2, <2>1, OthersCarry
  <2>. QED  BY <1>2, <2>2 DEF WellFormed, VisitsTyped
<1>3. CASE FindGatewayKey(v)
  <2>1. PICK op \in {"new", "again"} : Arrive(v, op, <<"gateway", visits + 1>>, "hash") /\ AccountRest /\ KeysRest
    BY <1>3 DEF FindGatewayKey
  <2>2. <<"gateway", visits + 1>> \in Things /\ op \in Purposes /\ "hash" \in VisitPlaces
    BY <1>1 DEF Things, Purposes, VisitPlaces, RowsTyped
  <2>3. VisitIs(v, [at |-> "hash", op |-> op, on |-> <<"gateway", visits + 1>>]) /\ visits' \in 0..MaxVisits /\ raced \subseteq raced'
    BY <1>1, <2>1, <2>2, Arrives
  <2>4. RowsTyped'
    BY <1>1, <2>1, <2>3 DEF AccountRest, KeysRest, GatewayRest, RowsTyped
  <2>5. Carries(v)'
    BY <1>1, <2>3 DEF VisitIs, Carries, RowsTyped
  <2>. QED  BY <2>1, <2>3, <2>4, <2>5 DEF VisitIs, Moves, GatewayPlaces, KeysRest
<1>4. CASE HashKey(v)
  <2>1. VisitAt(v, "hash") /\ Stays /\ AccountRest /\ KeysRest
    BY <1>4 DEF HashKey
  <2>2. PICK at \in {"insert", "update"} : /\ at = (IF visit[v].op = "new" THEN "insert" ELSE "update")
                                           /\ visit' = [visit EXCEPT ![v].at = at, ![v].op = visit[v].on[2]]
    BY <1>4 DEF HashKey
  <2>3. visit[v].on \in {"gateway"} \X Nat
    BY <1>1, <2>1 DEF Carries, VisitAt
  <2>4. at \in VisitPlaces /\ visit[v].on[2] \in Purposes /\ visit[v].on[2] \in Nat
    BY <2>3 DEF VisitPlaces, Purposes
  <2>5. VisitIs(v, [at |-> at, op |-> visit[v].on[2], on |-> visit[v].on])
    BY <1>1, <2>2, <2>4, GoesToWith
  <2>6. RowsTyped'
    BY <1>1, <2>1 DEF AccountRest, KeysRest, GatewayRest, Stays, RowsTyped
  <2>7. Carries(v)'
    BY <2>2, <2>4, <2>5 DEF VisitIs, Carries
  <2>. QED  BY <2>1, <2>2, <2>5, <2>6, <2>7 DEF VisitIs, Moves, GatewayPlaces, KeysRest, Stays
<1>5. CASE StoreGatewayKey(v)
  <2>1. (VisitAt(v, "insert") \/ VisitAt(v, "update")) /\ Stays /\ Rest /\ UNCHANGED shown
    BY <1>5 DEF StoreGatewayKey
  <2>2. CASE Leaves(v) /\ UNCHANGED gatewayKey
    <3>1. VisitIs(v, Away) /\ visit'[v].at = "away" /\ Carries(v)'
      BY <1>1, <2>2, Gone
    <3>2. RowsTyped'
      BY <1>1, <2>1, <2>2 DEF AccountRest, Stays, RowsTyped
    <3>. QED  BY <2>1, <3>1, <3>2 DEF VisitIs, Moves, GatewayPlaces, Stays
  <2>3. CASE VisitTo(v, "show") /\ gatewayKey' = visit[v].op
    <3>1. visit[v].op \in Nat
      BY <1>1, <2>1 DEF Carries, VisitAt
    <3>2. VisitIs(v, [at |-> "show", op |-> visit[v].op, on |-> visit[v].on])
      BY <1>1, <2>3, GoesTo DEF VisitTo, VisitPlaces
    <3>3. Carries(v)'
      BY <3>1, <3>2 DEF VisitIs, Carries
    <3>4. RowsTyped'
      BY <1>1, <2>1, <2>3, <3>1 DEF AccountRest, Stays, RowsTyped
    <3>. QED  BY <2>1, <3>2, <3>3, <3>4 DEF VisitIs, Moves, GatewayPlaces, Stays
  <2>. QED  BY <1>5, <2>2, <2>3 DEF StoreGatewayKey
<1>6. CASE ShowKey(v)
  <2>1. Leaves(v) /\ Stays /\ Rest /\ UNCHANGED gatewayKey
    BY <1>6 DEF ShowKey
  <2>2. VisitIs(v, Away) /\ visit'[v].at = "away" /\ Carries(v)'
    BY <1>1, <2>1, Gone
  <2>3. visit[v].op \in Nat /\ shown' = shown \cup {visit[v].op}
    BY <1>1, <1>6 DEF ShowKey, Carries, VisitAt
  <2>4. RowsTyped'
    BY <1>1, <2>1, <2>3 DEF AccountRest, Stays, RowsTyped
  <2>. QED  BY <2>1, <2>2, <2>4 DEF VisitIs, Moves, GatewayPlaces, Stays
<1>. QED  BY <1>3, <1>4, <1>5, <1>6 DEF GatewaySteps

\* Visits to requests for access.
RequestPlaces == {"away", "decide"}
RequestRow == [status : {"none", "PENDING", "APPROVED", "REJECTED", "CANCELLED"}, reviewed : BOOLEAN]

LEMMA RequestWellFormed ==
  ASSUME WellFormed, NEW v \in Visits, RequestSteps(v)
  PROVE  WellFormed' /\ Moves(v, RequestPlaces) /\ raced \subseteq raced' /\ AccountRest /\ GatewayRest /\ UNCHANGED agentKeys
<1> USE AccessAssumption
<1> DEFINE Rest == AccountRest /\ GatewayRest /\ UNCHANGED agentKeys
<1>1. VisitsTyped /\ RowsTyped /\ Carries(v) /\ decision \in [AccessRequests -> RequestRow]
  BY DEF WellFormed, VisitsTyped, RowsTyped, RequestRow
<1>2. SUFFICES /\ RowsTyped' /\ visit' \in [Visits -> VisitRow] /\ Carries(v)'
               /\ Moves(v, RequestPlaces) /\ raced \subseteq raced' /\ Rest
  <2>1. (\A w \in Visits \ {v} : visit'[w] = visit[w]) /\ DOMAIN agentKeys \subseteq DOMAIN agentKeys'
    BY <1>2 DEF Moves
  <2>2. \A w \in Visits : Carries(w)'
    BY <1>2, <2>1, OthersCarry
  <2>. QED  BY <1>2, <2>2 DEF WellFormed, VisitsTyped
<1>3. CASE \E r \in AccessRequests : CreateRequest(v, r)
  <2>1. PICK r \in AccessRequests : CreateRequest(v, r)
    BY <1>3
  <2>2. AtOnce(v) /\ Rest /\ decision' = [decision EXCEPT ![r].status = "PENDING"]
    BY <2>1 DEF CreateRequest
  <2>3. visit[v].at = "away" /\ visits' \in 0..MaxVisits /\ UNCHANGED <<visit, raced>>
    BY <1>1, <2>2 DEF AtOnce, VisitAt, RowsTyped
  <2>4. decision' \in [AccessRequests -> RequestRow]
    BY <1>1, <2>2 DEF RequestRow
  <2>5. RowsTyped'
    BY <1>1, <2>2, <2>3, <2>4 DEF AccountRest, GatewayRest, RowsTyped, RequestRow
  <2>6. Carries(v)'
    BY <2>3 DEF Carries
  <2>. QED  BY <1>1, <2>2, <2>3, <2>5, <2>6 DEF Moves, RequestPlaces, VisitsTyped
<1>4. CASE \E r \in AccessRequests, op \in {"APPROVED", "REJECTED", "CANCELLED"} : FindRequest(v, r, op)
  <2>1. PICK r \in AccessRequests, op \in {"APPROVED", "REJECTED", "CANCELLED"} : FindRequest(v, r, op)
    BY <1>4
  <2>2. Arrive(v, op, <<"request", r>>, "decide") /\ AccountRest /\ KeysRest
    BY <2>1 DEF FindRequest
  <2>3. <<"request", r>> \in Things /\ op \in Purposes /\ "decide" \in VisitPlaces
    BY DEF Things, Purposes, VisitPlaces
  <2>4. VisitIs(v, [at |-> "decide", op |-> op, on |-> <<"request", r>>]) /\ visits' \in 0..MaxVisits /\ raced \subseteq raced'
    BY <1>1, <2>2, <2>3, Arrives
  <2>5. RowsTyped'
    BY <1>1, <2>2, <2>4 DEF AccountRest, KeysRest, GatewayRest, RowsTyped
  <2>6. Carries(v)'
    BY <2>4 DEF VisitIs, Carries
  <2>. QED  BY <2>2, <2>4, <2>5, <2>6 DEF VisitIs, Moves, RequestPlaces, KeysRest
<1>5. CASE Decide(v)
  <2>1. VisitAt(v, "decide") /\ Leaves(v) /\ Stays /\ Rest
    BY <1>5 DEF Decide
  <2>2. decision' = [decision EXCEPT ![visit[v].on[2]].status = visit[v].op, ![visit[v].on[2]].reviewed = @ \/ visit[v].op # "CANCELLED"]
    BY <1>5 DEF Decide
  <2>3. visit[v].on \in {"request"} \X AccessRequests /\ visit[v].op \in {"APPROVED", "REJECTED", "CANCELLED"}
    BY <1>1, <2>1 DEF Carries, VisitAt
  <2>4. decision' \in [AccessRequests -> RequestRow]
    BY <1>1, <2>2, <2>3 DEF RequestRow
  <2>5. VisitIs(v, Away) /\ visit'[v].at = "away" /\ Carries(v)'
    BY <1>1, <2>1, Gone
  <2>6. RowsTyped'
    BY <1>1, <2>1, <2>4 DEF AccountRest, GatewayRest, Stays, RowsTyped, RequestRow
  <2>. QED  BY <2>1, <2>5, <2>6 DEF VisitIs, Moves, RequestPlaces, Stays
<1>. QED  BY <1>3, <1>4, <1>5 DEF RequestSteps

\* A failure takes a visit away that is not about to show a key.
LEMMA FaultWellFormed ==
  ASSUME WellFormed, NEW v \in Visits, VisitFault(v)
  PROVE  WellFormed' /\ Moves(v, {"away"}) /\ visit[v].at # "show" /\ AccountRest /\ KeysRest /\ UNCHANGED raced
<1> USE AccessAssumption
<1>1. VisitsTyped /\ RowsTyped
  BY DEF WellFormed, VisitsTyped
<1>2. Leaves(v) /\ AccountRest /\ KeysRest /\ UNCHANGED raced /\ visit[v].at # "show"
  BY DEF VisitFault, VisitAt
<1>3. visits' \in 0..MaxVisits
  BY <1>1 DEF VisitFault, RowsTyped
<1>4. VisitIs(v, Away) /\ visit'[v].at = "away" /\ Carries(v)'
  BY <1>1, <1>2, Gone
<1>5. RowsTyped'
  BY <1>1, <1>2, <1>3 DEF AccountRest, KeysRest, GatewayRest, RowsTyped
<1>6. \A w \in Visits : Carries(w)'
  <2>1. (\A w \in Visits \ {v} : visit'[w] = visit[w]) /\ DOMAIN agentKeys \subseteq DOMAIN agentKeys'
    BY <1>2, <1>4 DEF VisitIs, KeysRest
  <2>. QED  BY <1>4, <2>1, OthersCarry
<1>. QED  BY <1>2, <1>4, <1>5, <1>6 DEF VisitIs, Moves, WellFormed, VisitsTyped

----------------------------------------------------------------------------
(* A step leaves alone what is promised of the other areas.                *)

\* A visit keeps to the places of its area.
LEMMA KeepsToItsArea ==
  ASSUME NEW v \in Visits
  PROVE  /\ AccountSteps(v) => visit[v].at \in AccountPlaces
         /\ KeySteps(v) => visit[v].at \in KeyPlaces
         /\ GatewaySteps(v) => visit[v].at \in GatewayPlaces
         /\ RequestSteps(v) => visit[v].at \in RequestPlaces
<1>1. AccountSteps(v) => visit[v].at \in AccountPlaces
  BY DEF AccountSteps, FindAddress, CreateUser, FindUser, VerifyPassword, StoreToken, Logout, Refresh,
         Arrive, AtOnce, VisitAt, AccountPlaces
<1>2. KeySteps(v) => visit[v].at \in KeyPlaces
  BY DEF KeySteps, GenerateKey, RevokeKey, ReplaceKey, FindKey, Arrive, AtOnce, VisitAt, KeyPlaces
<1>3. GatewaySteps(v) => visit[v].at \in GatewayPlaces
  BY DEF GatewaySteps, FindGatewayKey, HashKey, StoreGatewayKey, ShowKey, Arrive, VisitAt, GatewayPlaces
<1>4. RequestSteps(v) => visit[v].at \in RequestPlaces
  BY DEF RequestSteps, Decide, CreateRequest, FindRequest, Arrive, AtOnce, VisitAt, RequestPlaces
<1>. QED  BY <1>1, <1>2, <1>3, <1>4

LEMMA SessionElsewhere ==
  ASSUME SessionOver, NEW v \in Visits, NEW places, Moves(v, places), places \cap {"verify", "store"} = {},
         UNCHANGED <<account, out, letIn>>
  PROVE  SessionOver'
<1>1. \A w \in Visits : visit'[w].at \in {"verify", "store"} => visit[w].at \in {"verify", "store"}
  BY DEF Moves
<1>. QED  BY <1>1 DEF SessionOver

LEMMA KeysElsewhere ==
  ASSUME KeysDead, NEW v \in Visits, NEW places, Moves(v, places), "replace" \notin places, UNCHANGED agentKeys
  PROVE  KeysDead'
BY DEF KeysDead, RotationLeavesOne, Moves

LEMMA GatewayElsewhere ==
  ASSUME GatewayKnown, NEW v \in Visits, NEW places, Moves(v, places), "show" \notin places,
         visit[v].at # "show", GatewayRest
  PROVE  GatewayKnown'
<1>1. \A w \in Visits : visit'[w].at = "show" <=> visit[w].at = "show"
  BY DEF Moves
<1>2. \A w \in Visits : visit'[w].at = "show" => visit'[w] = visit[w]
  BY DEF Moves
<1>. QED  BY <1>1, <1>2 DEF GatewayKnown, GatewayRest

LEMMA RequestsElsewhere ==
  ASSUME DecidedOnce, NEW v \in Visits, NEW places, Moves(v, places), "decide" \notin places,
         UNCHANGED decision, raced \subseteq raced'
  PROVE  DecidedOnce'
<1>1. \A w \in Visits, r \in AccessRequests : Deciding(w, r)' => Deciding(w, r)
  BY DEF Moves, Deciding
<1>. QED  BY <1>1 DEF DecidedOnce

----------------------------------------------------------------------------
(* A step keeps what is promised of its own area.                          *)

\* A session that was ended is brought back by a visit that the logout let in, and by no other.
LEMMA SessionKept ==
  ASSUME WellFormed, SessionOver, NEW v \in Visits, AccountSteps(v)
  PROVE  SessionOver'
<1>1. Moves(v, AccountPlaces)
  BY AccountWellFormed
<1>2. VisitsTyped /\ RowsTyped /\ (\A w \in Visits : Carries(w)) /\ NoToken \notin 0..MaxSecond
  BY AccessAssumption DEF WellFormed, VisitsTyped
<1>3. CASE ~out'
  BY <1>3 DEF SessionOver
<1>4. ASSUME out, account'.token = account.token, letIn \ {v} \subseteq letIn',
             visit'[v].at \in {"verify", "store"} => v \in letIn'
      PROVE  SessionOver'
  BY <1>1, <1>4 DEF SessionOver, Moves
<1>5. CASE FindAddress(v)
  <2>1. Arrive(v, "register", <<"account">>, "create") /\ AccountRest
    BY <1>5 DEF FindAddress
  <2>2. visit'[v].at = "create"
    BY <1>2, <2>1 DEF Arrive, VisitsTyped
  <2>. QED  BY <1>3, <1>4, <2>1, <2>2 DEF AccountRest
<1>6. CASE FindUser(v)
  BY <1>3, <1>4, <1>6 DEF FindUser
<1>7. CASE \E t \in 0..MaxSecond : Refresh(v, t)
  <2>1. account.token \in 0..MaxSecond /\ UNCHANGED out
    BY <1>7 DEF Refresh, Accepted
  <2>. QED  BY <1>2, <1>3, <2>1 DEF SessionOver
<1>8. CASE CreateUser(v)
  <2>1. account'.token = account.token /\ UNCHANGED <<out, letIn>> /\ Leaves(v)
    BY <1>2, <1>8 DEF CreateUser, RowsTyped
  <2>2. visit'[v].at = "away"
    BY <1>2, <2>1, Gone
  <2>. QED  BY <1>3, <1>4, <2>1, <2>2
<1>9. CASE VerifyPassword(v)
  <2>1. visit[v].at = "verify" /\ AccountRest
    BY <1>9 DEF VerifyPassword, VisitAt
  <2>2. out => v \in letIn
    BY <2>1 DEF SessionOver
  <2>. QED  BY <1>3, <1>4, <2>1, <2>2 DEF AccountRest
<1>10. CASE StoreToken(v)
  <2>1. visit[v].at = "store" /\ (out' => v \notin letIn /\ out)
    BY <1>10, Zenon DEF StoreToken, VisitAt
  <2>2. ~out'
    BY <2>1 DEF SessionOver
  <2>. QED  BY <1>3, <2>2
<1>11. CASE Logout(v)
  <2>1. account'.token = NoToken /\ UNCHANGED visit /\ visit[v].at = "away"
    BY <1>2, <1>11 DEF Logout, AtOnce, VisitAt, RowsTyped
  <2>2. letIn' = {w \in Company(v) : visit[w].on = <<"session">>}
    BY <1>11, Zenon DEF Logout
  <2>3. \A w \in Visits : visit[w].at \in {"verify", "store"} => w \in Company(v) /\ visit[w].on = <<"session">>
    BY <1>2, <2>1 DEF Carries, Company, VisitAt
  <2>. QED  BY <2>1, <2>2, <2>3 DEF SessionOver
<1>. QED  BY <1>5, <1>6, <1>7, <1>8, <1>9, <1>10, <1>11 DEF AccountSteps

\* A key that was rotated stays dead.
LEMMA KeysKept ==
  ASSUME WellFormed, KeysDead, NEW v \in Visits, KeySteps(v)
  PROVE  KeysDead'
<1>1. Moves(v, KeyPlaces)
  BY KeyWellFormed
<1>2. VisitsTyped /\ RowsTyped /\ \A w \in Visits : Carries(w)
  BY DEF WellFormed, VisitsTyped
<1>3. \A i \in DOMAIN agentKeys : agentKeys[i].from # 0 => agentKeys[i].from \in DOMAIN agentKeys
  <2>1. agentKeys \in Seq(KeyRow) /\ \A i \in DOMAIN agentKeys : agentKeys[i].from < i
    BY <1>2 DEF RowsTyped, KeyRow
  <2>2. Len(agentKeys) \in Nat /\ DOMAIN agentKeys = 1..Len(agentKeys)
    BY <2>1
  <2>3. \A i \in DOMAIN agentKeys : agentKeys[i] \in KeyRow
    BY <2>1
  <2>4. \A i \in DOMAIN agentKeys : agentKeys[i].from \in Nat
    BY <2>3 DEF KeyRow
  <2>. QED  BY <2>1, <2>2, <2>4
<1>4. \A w \in Visits : visit[w].at = "replace" => visit[w].on[2] \in DOMAIN agentKeys /\ ~agentKeys[visit[w].on[2]].active
  BY <1>2 DEF Carries, KeysDead
<1>5. CASE GenerateKey(v)
  <2>1. agentKeys' = NewKey(0) /\ UNCHANGED visit
    BY <1>5 DEF GenerateKey, AtOnce
  <2>2. /\ \A i \in DOMAIN agentKeys : agentKeys'[i] = agentKeys[i]
        /\ \A i \in DOMAIN agentKeys' \ DOMAIN agentKeys : agentKeys'[i].from = 0
    BY <1>2, <2>1, OneMoreKey DEF RowsTyped
  <2>3. RotationLeavesOne'
    BY <1>3, <2>2 DEF KeysDead, RotationLeavesOne
  <2>. QED  BY <1>4, <2>1, <2>2, <2>3 DEF KeysDead
<1>6. CASE \E i \in 1..MaxVisits, op \in {"rotate", "revoke"} : FindKey(v, op, i)
  <2>1. visit'[v].at = "revoke" /\ UNCHANGED agentKeys
    BY <1>2, <1>6 DEF FindKey, Arrive, KeysRest, VisitsTyped
  <2>. QED  BY <1>1, <2>1 DEF KeysDead, RotationLeavesOne, Moves
<1>7. CASE RevokeKey(v)
  <2>1. VisitAt(v, "revoke") /\ agentKeys' = [agentKeys EXCEPT ![visit[v].on[2]].active = FALSE]
    BY <1>7 DEF RevokeKey
  <2>2. visit[v].on \in {"key"} \X DOMAIN agentKeys
    BY <1>2, <2>1 DEF Carries, VisitAt
  <2>3. PICK k \in DOMAIN agentKeys : k = visit[v].on[2]
    BY <2>2
  <2>4. /\ DOMAIN agentKeys' = DOMAIN agentKeys /\ ~agentKeys'[k].active
        /\ \A i \in DOMAIN agentKeys : agentKeys'[i].from = agentKeys[i].from
        /\ \A i \in DOMAIN agentKeys \ {k} : agentKeys'[i] = agentKeys[i]
    BY <1>2, <2>1, <2>3, OneKeyOff
  <2>5. \A i \in DOMAIN agentKeys : ~agentKeys[i].active => ~agentKeys'[i].active
    BY <2>4
  <2>6. RotationLeavesOne'
    BY <1>3, <2>4, <2>5 DEF KeysDead, RotationLeavesOne
  <2>7. visit'[v].at = "replace" => visit'[v].on = visit[v].on
    <3>1. CASE VisitTo(v, "replace")
      BY <1>2, <3>1, GoesTo DEF VisitTo, VisitPlaces, VisitIs
    <3>2. CASE Leaves(v)
      BY <1>2, <3>2, Gone
    <3>. QED  BY <1>7, <3>1, <3>2 DEF RevokeKey
  <2>8. ASSUME NEW w \in Visits, visit'[w].at = "replace"  PROVE ~agentKeys'[visit'[w].on[2]].active
    <3>1. CASE w = v
      BY <2>3, <2>4, <2>7, <2>8, <3>1
    <3>2. CASE w # v
      BY <1>1, <1>4, <2>5, <2>8, <3>2 DEF Moves
    <3>. QED  BY <3>1, <3>2
  <2>. QED  BY <2>6, <2>8 DEF KeysDead
<1>8. CASE ReplaceKey(v)
  <2>1. VisitAt(v, "replace") /\ Leaves(v) /\ agentKeys' = NewKey(visit[v].on[2])
    BY <1>8 DEF ReplaceKey
  <2>2. PICK k \in DOMAIN agentKeys : k = visit[v].on[2] /\ ~agentKeys[k].active
    BY <1>4, <2>1 DEF VisitAt
  <2>3. k \in Nat /\ k <= Len(agentKeys)
    BY <1>2 DEF RowsTyped
  <2>4. /\ \A i \in DOMAIN agentKeys : agentKeys'[i] = agentKeys[i]
        /\ \A i \in DOMAIN agentKeys' \ DOMAIN agentKeys : agentKeys'[i].from = k
    BY <1>2, <2>1, <2>2, <2>3, OneMoreKey
  <2>5. RotationLeavesOne'
    BY <1>3, <2>2, <2>4 DEF KeysDead, RotationLeavesOne
  <2>6. visit'[v].at = "away"
    BY <1>2, <2>1, Gone
  <2>. QED  BY <1>1, <1>4, <2>4, <2>5, <2>6 DEF KeysDead, Moves
<1>. QED  BY <1>5, <1>6, <1>7, <1>8 DEF KeySteps

\* A key for the gateway that was sent, or is to be sent, works until another replaces it.
LEMMA GatewayKept ==
  ASSUME WellFormed, GatewayKnown, NEW v \in Visits, GatewaySteps(v)
  PROVE  GatewayKnown'
<1>1. Moves(v, GatewayPlaces)
  BY GatewayWellFormed
<1>2. VisitsTyped /\ RowsTyped /\ (\A w \in Visits : Carries(w)) /\ NoToken \notin Nat
  BY AccessAssumption DEF WellFormed, VisitsTyped
<1>3. ASSUME GatewayRest, visit[v].at # "show", visit'[v].at # "show"  PROVE GatewayKnown'
  <2>1. \A w \in Visits : /\ visit'[w].at = "show" <=> visit[w].at = "show"
                          /\ visit'[w].at = "show" => visit'[w] = visit[w]
    BY <1>1, <1>3 DEF Moves
  <2>. QED  BY <1>3, <2>1 DEF GatewayKnown, GatewayRest
<1>4. CASE FindGatewayKey(v)
  <2>1. GatewayRest /\ visit[v].at = "away" /\ visit'[v].at = "hash"
    BY <1>2, <1>4 DEF FindGatewayKey, KeysRest, Arrive, VisitAt, VisitsTyped
  <2>. QED  BY <1>3, <2>1
<1>5. CASE HashKey(v)
  <2>1. VisitAt(v, "hash") /\ KeysRest
    BY <1>5 DEF HashKey
  <2>2. PICK at \in {"insert", "update"} : visit' = [visit EXCEPT ![v].at = at, ![v].op = visit[v].on[2]]
    BY <1>5 DEF HashKey
  <2>3. visit[v].on \in {"gateway"} \X Nat
    BY <1>2, <2>1 DEF Carries, VisitAt
  <2>4. at \in VisitPlaces /\ visit[v].on[2] \in Purposes
    BY <2>3 DEF VisitPlaces, Purposes
  <2>5. VisitIs(v, [at |-> at, op |-> visit[v].on[2], on |-> visit[v].on])
    BY <1>2, <2>2, <2>4, GoesToWith
  <2>. QED  BY <1>3, <2>1, <2>2, <2>5 DEF VisitIs, VisitAt, KeysRest
<1>6. CASE StoreGatewayKey(v)
  <2>1. visit[v].at \in {"insert", "update"} /\ UNCHANGED shown /\ visit[v].op \in Nat
    BY <1>2, <1>6 DEF StoreGatewayKey, VisitAt, Carries
  <2>2. retired' = IF visit[v].at = "update" THEN retired \cup {gatewayKey} ELSE retired
    BY <1>6 DEF StoreGatewayKey, VisitAt
  <2>3. CASE Refused(v)
    <3>1. Leaves(v) /\ UNCHANGED <<gatewayKey, retired>>
      BY <1>6, <2>2, <2>3 DEF StoreGatewayKey, Refused, VisitAt
    <3>2. visit'[v].at = "away"
      BY <1>2, <3>1, Gone
    <3>. QED  BY <1>3, <2>1, <3>1, <3>2 DEF GatewayRest
  <2>4. CASE ~Refused(v)
    <3>1. VisitTo(v, "show") /\ gatewayKey' = visit[v].op
      BY <1>6, <2>4 DEF StoreGatewayKey
    <3>2. VisitIs(v, [at |-> "show", op |-> visit[v].op, on |-> visit[v].on])
      BY <1>2, <3>1, GoesTo DEF VisitTo, VisitPlaces
    <3>3. visit'[v].at = "show" /\ visit'[v].op = visit[v].op /\ \A w \in Visits \ {v} : visit'[w] = visit[w]
      BY <3>2 DEF VisitIs
    <3>4. \A k \in Nat : k \in retired \/ k = gatewayKey => k \in retired'
      BY <1>2, <2>1, <2>2, <2>4 DEF Refused, VisitAt
    <3>5. \A w \in Visits \ {v} : visit'[w].at = "show" => visit'[w].op \in Nat /\ visit'[w].op \in retired'
      BY <1>2, <3>3, <3>4 DEF Carries, GatewayKnown
    <3>6. \A k \in shown' : k \in retired'
      BY <1>2, <2>1, <3>4 DEF RowsTyped, GatewayKnown
    <3>. QED  BY <3>1, <3>3, <3>5, <3>6 DEF GatewayKnown
  <2>. QED  BY <2>3, <2>4
<1>7. CASE ShowKey(v)
  <2>1. visit[v].at = "show" /\ shown' = shown \cup {visit[v].op} /\ UNCHANGED <<gatewayKey, retired>> /\ Leaves(v)
    BY <1>7 DEF ShowKey, VisitAt
  <2>2. visit'[v].at = "away" /\ \A w \in Visits \ {v} : visit'[w] = visit[w]
    BY <1>1, <1>2, <2>1, Gone DEF Moves
  <2>. QED  BY <2>1, <2>2 DEF GatewayKnown
<1>. QED  BY <1>4, <1>5, <1>6, <1>7 DEF GatewaySteps

\* A request that one visit decides is decided once.
LEMMA RequestsKept ==
  ASSUME WellFormed, DecidedOnce, NEW v \in Visits, RequestSteps(v)
  PROVE  DecidedOnce'
<1>1. Moves(v, RequestPlaces) /\ raced \subseteq raced'
  BY RequestWellFormed
<1>2. VisitsTyped /\ Carries(v) /\ decision \in [AccessRequests -> RequestRow]
  BY DEF WellFormed, VisitsTyped, RowsTyped, RequestRow
<1>3. \A w \in Visits \ {v}, r \in AccessRequests : Deciding(w, r)' <=> Deciding(w, r)
  BY <1>1 DEF Moves, Deciding
<1>4. SUFFICES ASSUME NEW q \in AccessRequests, <<"request", q>> \notin raced'
      PROVE  /\ decision'[q].reviewed <=> decision'[q].status \in {"APPROVED", "REJECTED"}
             /\ \A w \in Visits : Deciding(w, q)' => decision'[q].status = "PENDING"
             /\ \A u, w \in Visits : Deciding(u, q)' /\ Deciding(w, q)' => u = w
  BY DEF DecidedOnce
<1>5. /\ decision[q].reviewed <=> decision[q].status \in {"APPROVED", "REJECTED"}
      /\ \A w \in Visits : Deciding(w, q) => decision[q].status = "PENDING"
      /\ \A u, w \in Visits : Deciding(u, q) /\ Deciding(w, q) => u = w
  BY <1>1, <1>4 DEF DecidedOnce
<1>6. CASE \E r \in AccessRequests : CreateRequest(v, r)
  <2>1. PICK r \in AccessRequests : CreateRequest(v, r)
    BY <1>6
  <2>2. decision[r].status = "none" /\ UNCHANGED visit /\ decision' = [decision EXCEPT ![r].status = "PENDING"]
    BY <2>1 DEF CreateRequest, AtOnce
  <2>3. \A w \in Visits : Deciding(w, q)' <=> Deciding(w, q)
    BY <2>2 DEF Deciding
  <2>4. CASE q = r
    <3>1. decision'[q].status = "PENDING" /\ decision'[q].reviewed = decision[q].reviewed
      BY <1>2, <2>2, <2>4 DEF RequestRow
    <3>. QED  BY <1>5, <2>2, <2>3, <2>4, <3>1
  <2>5. CASE q # r
    <3>1. decision'[q] = decision[q]
      BY <1>2, <2>2, <2>5
    <3>. QED  BY <1>5, <2>3, <3>1
  <2>. QED  BY <2>4, <2>5
<1>7. CASE \E r \in AccessRequests, op \in {"APPROVED", "REJECTED", "CANCELLED"} : FindRequest(v, r, op)
  <2>1. PICK r \in AccessRequests, op \in {"APPROVED", "REJECTED", "CANCELLED"} : FindRequest(v, r, op)
    BY <1>7
  <2>2. Arrive(v, op, <<"request", r>>, "decide") /\ UNCHANGED decision /\ decision[r].status = "PENDING"
    BY <2>1 DEF FindRequest, KeysRest, Open
  <2>3. <<"request", r>> \in Things /\ op \in Purposes /\ "decide" \in VisitPlaces
    BY DEF Things, Purposes, VisitPlaces
  <2>4. VisitIs(v, [at |-> "decide", op |-> op, on |-> <<"request", r>>])
    BY <1>2, <2>2, <2>3, Arrives
  <2>5. \A w \in Visits \ {v} : visit[w].at # "away" /\ visit[w].on = <<"request", r>> => <<"request", r>> \in raced'
    BY <1>2, <2>2, <2>3, Arrives
  <2>6. visit'[v].on = <<"request", r>>
    BY <2>4 DEF VisitIs
  <2>7. CASE q = r
    <3>1. \A w \in Visits \ {v} : ~Deciding(w, q)'
      BY <1>3, <1>4, <2>5, <2>7 DEF Deciding
    <3>. QED  BY <1>5, <2>2, <2>7, <3>1
  <2>8. CASE q # r
    <3>1. ~Deciding(v, q)'
      BY <2>6, <2>8 DEF Deciding
    <3>. QED  BY <1>3, <1>5, <2>2, <3>1
  <2>. QED  BY <2>7, <2>8
<1>8. CASE Decide(v)
  <2>1. visit[v].at = "decide" /\ Leaves(v)
    BY <1>8 DEF Decide, VisitAt
  <2>2. PICK r \in AccessRequests, op \in {"APPROVED", "REJECTED", "CANCELLED"} :
           visit[v].on = <<"request", r>> /\ visit[v].op = op /\ visit[v].on[2] = r
    BY <1>2, <2>1 DEF Carries
  <2>3. decision' = [decision EXCEPT ![r].status = op, ![r].reviewed = @ \/ op # "CANCELLED"]
    BY <1>8, <2>2 DEF Decide
  <2>4. visit'[v].at = "away"
    BY <1>2, <2>1, Gone
  <2>5. ~Deciding(v, q)'
    BY <2>4 DEF Deciding
  <2>6. CASE q = r
    <3>1. Deciding(v, q)
      BY <2>1, <2>2, <2>6 DEF Deciding
    <3>2. decision[q].status = "PENDING" /\ ~decision[q].reviewed /\ \A w \in Visits \ {v} : ~Deciding(w, q)'
      BY <1>3, <1>5, <3>1
    <3>3. decision'[q].status = op /\ (decision'[q].reviewed <=> (decision[q].reviewed \/ op # "CANCELLED"))
      BY <1>2, <2>3, <2>6 DEF RequestRow
    <3>. QED  BY <2>5, <3>2, <3>3
  <2>7. CASE q # r
    <3>1. decision'[q] = decision[q]
      BY <1>2, <2>3, <2>7
    <3>. QED  BY <1>3, <1>5, <2>5, <3>1
  <2>. QED  BY <2>6, <2>7
<1>. QED  BY <1>6, <1>7, <1>8 DEF RequestSteps

----------------------------------------------------------------------------
LEMMA AccessStep == AccessInv /\ [NextAccess]_accessVars => AccessInv'
<1> SUFFICES ASSUME AccessInv, [NextAccess]_accessVars PROVE AccessInv'
  OBVIOUS
<1>1. WellFormed /\ SessionOver /\ KeysDead /\ GatewayKnown /\ DecidedOnce
  BY DEF AccessInv
<1>2. CASE UNCHANGED accessVars
  <2>1. UNCHANGED <<now, account, issued, agentKeys, gatewayKey, shown, retired, decision, visit, visits, out, letIn, raced>>
    BY <1>2 DEF accessVars
  <2>2. WellFormed'
    BY <1>1, <2>1 DEF WellFormed, VisitsTyped, RowsTyped, Carries
  <2>3. SessionOver' /\ KeysDead'
    BY <1>1, <2>1 DEF SessionOver, KeysDead, RotationLeavesOne
  <2>4. GatewayKnown' /\ DecidedOnce'
    BY <1>1, <2>1, Zenon DEF GatewayKnown, DecidedOnce, Deciding
  <2>. QED  BY <2>2, <2>3, <2>4 DEF AccessInv
<1>3. CASE Tick
  <2>1. UNCHANGED <<account, issued, agentKeys, gatewayKey, shown, retired, decision, visit, visits, out, letIn, raced>> /\ now' \in 0..MaxSecond
    BY <1>1, <1>3, AccessAssumption DEF Tick, Stays, KeysRest, GatewayRest, WellFormed, VisitsTyped, RowsTyped
  <2>2. WellFormed'
    BY <1>1, <2>1 DEF WellFormed, VisitsTyped, RowsTyped, Carries
  <2>3. SessionOver' /\ KeysDead'
    BY <1>1, <2>1 DEF SessionOver, KeysDead, RotationLeavesOne
  <2>4. GatewayKnown' /\ DecidedOnce'
    BY <1>1, <2>1, Zenon DEF GatewayKnown, DecidedOnce, Deciding
  <2>. QED  BY <2>2, <2>3, <2>4 DEF AccessInv
<1>4. ASSUME NEW v \in Visits, AccountSteps(v)  PROVE AccessInv'
  <2>1. WellFormed' /\ Moves(v, AccountPlaces) /\ raced \subseteq raced' /\ KeysRest
    BY <1>1, <1>4, AccountWellFormed
  <2>2. visit[v].at # "show"
    BY <1>4, KeepsToItsArea DEF AccountPlaces
  <2>3. SessionOver'
    BY <1>1, <1>4, SessionKept
  <2>4. KeysDead'
    BY <1>1, <2>1, KeysElsewhere DEF AccountPlaces, KeysRest
  <2>5. GatewayKnown'
    BY <1>1, <2>1, <2>2, GatewayElsewhere DEF AccountPlaces, KeysRest
  <2>6. DecidedOnce'
    BY <1>1, <2>1, RequestsElsewhere DEF AccountPlaces, KeysRest
  <2>. QED  BY <2>1, <2>3, <2>4, <2>5, <2>6 DEF AccessInv
<1>5. ASSUME NEW v \in Visits, KeySteps(v)  PROVE AccessInv'
  <2>1. WellFormed' /\ Moves(v, KeyPlaces) /\ raced \subseteq raced' /\ AccountRest /\ GatewayRest /\ UNCHANGED decision
    BY <1>1, <1>5, KeyWellFormed
  <2>2. visit[v].at # "show"
    BY <1>5, KeepsToItsArea DEF KeyPlaces
  <2>3. SessionOver'
    BY <1>1, <2>1, SessionElsewhere DEF KeyPlaces, AccountRest
  <2>4. KeysDead'
    BY <1>1, <1>5, KeysKept
  <2>5. GatewayKnown'
    BY <1>1, <2>1, <2>2, GatewayElsewhere DEF KeyPlaces
  <2>6. DecidedOnce'
    BY <1>1, <2>1, RequestsElsewhere DEF KeyPlaces
  <2>. QED  BY <2>1, <2>3, <2>4, <2>5, <2>6 DEF AccessInv
<1>6. ASSUME NEW v \in Visits, GatewaySteps(v)  PROVE AccessInv'
  <2>1. WellFormed' /\ Moves(v, GatewayPlaces) /\ raced \subseteq raced' /\ AccountRest /\ UNCHANGED <<agentKeys, decision>>
    BY <1>1, <1>6, GatewayWellFormed
  <2>2. SessionOver'
    BY <1>1, <2>1, SessionElsewhere DEF GatewayPlaces, AccountRest
  <2>3. KeysDead'
    BY <1>1, <2>1, KeysElsewhere DEF GatewayPlaces
  <2>4. GatewayKnown'
    BY <1>1, <1>6, GatewayKept
  <2>5. DecidedOnce'
    BY <1>1, <2>1, RequestsElsewhere DEF GatewayPlaces
  <2>. QED  BY <2>1, <2>2, <2>3, <2>4, <2>5 DEF AccessInv
<1>7. ASSUME NEW v \in Visits, RequestSteps(v)  PROVE AccessInv'
  <2>1. WellFormed' /\ Moves(v, RequestPlaces) /\ raced \subseteq raced' /\ AccountRest /\ GatewayRest /\ UNCHANGED agentKeys
    BY <1>1, <1>7, RequestWellFormed
  <2>2. visit[v].at # "show"
    BY <1>7, KeepsToItsArea DEF RequestPlaces
  <2>3. SessionOver'
    BY <1>1, <2>1, SessionElsewhere DEF RequestPlaces, AccountRest
  <2>4. KeysDead'
    BY <1>1, <2>1, KeysElsewhere DEF RequestPlaces
  <2>5. GatewayKnown'
    BY <1>1, <2>1, <2>2, GatewayElsewhere DEF RequestPlaces
  <2>6. DecidedOnce'
    BY <1>1, <1>7, RequestsKept
  <2>. QED  BY <2>1, <2>3, <2>4, <2>5, <2>6 DEF AccessInv
<1>8. ASSUME NEW v \in Visits, VisitFault(v)  PROVE AccessInv'
  <2>1. WellFormed' /\ Moves(v, {"away"}) /\ visit[v].at # "show" /\ AccountRest /\ KeysRest /\ UNCHANGED raced
    BY <1>1, <1>8, FaultWellFormed
  <2>2. SessionOver'
    BY <1>1, <2>1, SessionElsewhere DEF AccountRest
  <2>3. KeysDead'
    BY <1>1, <2>1, KeysElsewhere DEF KeysRest
  <2>4. GatewayKnown'
    BY <1>1, <2>1, GatewayElsewhere DEF KeysRest
  <2>5. DecidedOnce'
    BY <1>1, <2>1, RequestsElsewhere DEF KeysRest
  <2>. QED  BY <2>1, <2>2, <2>3, <2>4, <2>5 DEF AccessInv
<1>. QED  BY <1>2, <1>3, <1>4, <1>5, <1>6, <1>7, <1>8, StepsByTouch DEF NextAccess

\* The invariant holds, however many visits are under way.
THEOREM AccessHolds == SpecAccess => []AccessInv
<1>1. InitAccess => AccessInv
  BY AccessStarts
<1>. QED  BY <1>1, AccessStep, PTL DEF SpecAccess

\* However visits overlap: after a logout no token is stored until a visit stores one that the
\* logout let in, that is, a log-in begun since or a visit that was past its check when the
\* logout came; a key that was rotated is dead; every key for the gateway that was sent works
\* until a regeneration replaced it, and the one that works was sent or is about to be
\* (auth.service.ts, api-key.service.ts, gateway-key.service.ts), for any number of visits.
THEOREM CredentialsAlwaysEnd == SpecAccess => []CredentialsEnd
<1>1. AccessInv => CredentialsEnd
  BY DEF AccessInv, SessionOver, KeysDead, GatewayKnown, CredentialsEnd, LogoutLasts, ShownKeyWorks, VisitAt
<1>. QED  BY <1>1, AccessHolds, PTL

\* A request has a reviewer exactly when it was approved or rejected, unless two visits met
\* at it (agent-request.service.ts).
THEOREM DecisionsAlwaysFinal == SpecAccess => []DecisionsFinal
<1>1. AccessInv => DecisionsFinal
  BY DEF AccessInv, DecidedOnce, DecisionsFinal
<1>. QED  BY <1>1, AccessHolds, PTL

\* Accounts, keys and visits have their types, and a key that replaced another is younger
\* (auth.service.ts, api-key.service.ts).
THEOREM AccessTypeCorrect == SpecAccess => []AccessTypeOK
<1>1. ASSUME AccessInv  PROVE AccessTypeOK
  <2>1. RowsTyped
    BY <1>1 DEF AccessInv, WellFormed, VisitsTyped
  <2>2. now \in 0..MaxSecond /\ issued \subseteq 0..MaxSecond /\ visits \in 0..MaxVisits
    BY <2>1 DEF RowsTyped
  <2>3. account.token \in issued \cup {NoToken}
    BY <2>1 DEF RowsTyped
  <2>4. ASSUME NEW i \in DOMAIN agentKeys  PROVE agentKeys[i].active \in BOOLEAN /\ agentKeys[i].from < i
    <3>1. agentKeys \in Seq(KeyRow) /\ agentKeys[i].from < i
      BY <2>1 DEF RowsTyped, KeyRow
    <3>2. agentKeys[i] \in KeyRow
      BY <3>1
    <3>3. agentKeys[i].active \in BOOLEAN
      BY ONLY <3>2, Zenon DEF KeyRow
    <3> QED BY <3>1, <3>3
  <2> QED BY <2>2, <2>3, <2>4 DEF AccessTypeOK
<1> QED BY <1>1, AccessHolds, PTL

(***************************************************************************)
(* Personnel: codes without a gap, names that are unique, and employees    *)
(* in units that are there.                                                *)
(***************************************************************************)

ErrandEntry ==
  [at : {"home", "check", "code", "insert", "update", "open", "rename", "close"},
   do : {NoOne, "hire", "move", "activate", "terminate"} \cup Kinds,
   on : Users \cup Numbers \cup {NoOne},
   to : (SUBSET Numbers) \cup Numbers \cup UnitNames \cup {NoOne},
   code : Nat]

PersonnelTyped ==
  /\ unit \in [Numbers -> UnitRow \cup {NoOne}]
  /\ employee \in [Users -> EmployeeRow \cup {NoOne}]
  /\ errand \in [Officers -> ErrandEntry]

\* What an errand that has come to a place has with it.
Carrying(e) ==
  /\ e.at \in {"check", "code", "insert"} => e.on \in Users /\ e.to \in SUBSET Numbers
  /\ e.at = "insert" => e.code \in 1..(Cardinality(Employees) + 1)
  /\ e.at = "update" => e.on \in Employees /\ e.do \in {"move", "activate", "terminate"} /\ (e.do = "move" => e.to \in Numbers)
  /\ e.at = "open" => e.do \in Kinds /\ e.to \in UnitNames
  /\ e.at = "rename" => e.on \in Units /\ e.to \in UnitNames
  /\ e.at = "close" => e.on \in Units

Codes == {employee[u].code : u \in Employees}

CodesInOrder == IsFiniteSet(Employees) /\ Codes = 1..Cardinality(Employees)

NamesUnique == \A m, n \in Units : m[1] = n[1] /\ unit[m].name = unit[n].name => m = n

PersonnelInv == PersonnelTyped /\ (\A o \in Officers : Carrying(errand[o])) /\ CodesInOrder /\ NamesUnique

----------------------------------------------------------------------------
\* The invariant holds at the start.
LEMMA PersonnelStarts == InitPersonnel => PersonnelInv
<1> USE PersonnelAssumption
<1> SUFFICES ASSUME InitPersonnel PROVE PersonnelInv
  OBVIOUS
<1>1. PICK name \in UnitNames : unit = [n \in Numbers |-> IF n[2] = 1 THEN [name |-> name, active |-> TRUE] ELSE NoOne]
  BY Zenon DEF InitPersonnel
<1>2. employee = [u \in Users |-> NoOne] /\ errand = [o \in Officers |-> Home]
  BY Zenon DEF InitPersonnel
<1>3. unit \in [Numbers -> UnitRow \cup {NoOne}]
  BY <1>1 DEF UnitRow
<1>4. Home \in ErrandEntry /\ Home.at = "home"
  BY DEF Home, Begun, ErrandEntry
<1>5. PersonnelTyped
  BY <1>2, <1>3, <1>4 DEF PersonnelTyped
<1>6. \A o \in Officers : Carrying(errand[o])
  BY <1>2, <1>4 DEF Carrying
<1>7. Employees = {} /\ Codes = {}
  BY <1>2 DEF Employees, Codes
<1>8. CodesInOrder
  BY <1>7, FS_EmptySet DEF CodesInOrder
<1>9. \A n \in Units : n[2] = 1
  BY <1>1 DEF Units
<1>10. NamesUnique
  BY <1>9 DEF NamesUnique, Units, Numbers
<1>. QED  BY <1>2, <1>5, <1>6, <1>8, <1>10 DEF PersonnelInv

----------------------------------------------------------------------------
\* What the new entry of an errand becomes, of the forms that actions give it.
LEMMA EntryChanges ==
  ASSUME NEW e \in ErrandEntry, NEW at, NEW code
  PROVE  /\ [e EXCEPT !.at = at] = [at |-> at, do |-> e.do, on |-> e.on, to |-> e.to, code |-> e.code]
         /\ [[e EXCEPT !.at = at] EXCEPT !.code = code]
              = [at |-> at, do |-> e.do, on |-> e.on, to |-> e.to, code |-> code]
<1>1. e = [at |-> e.at, do |-> e.do, on |-> e.on, to |-> e.to, code |-> e.code]
  BY DEF ErrandEntry
<1>2. [e EXCEPT !.at = at] = [at |-> at, do |-> e.do, on |-> e.on, to |-> e.to, code |-> e.code]
  BY ONLY <1>1
<1>3. [[at |-> at, do |-> e.do, on |-> e.on, to |-> e.to, code |-> e.code] EXCEPT !.code = code]
        = [at |-> at, do |-> e.do, on |-> e.on, to |-> e.to, code |-> code]
  BY ONLY TRUE
<1>. QED  BY ONLY <1>2, <1>3, Zenon

\* An errand goes on and no row changes.
LEMMA OnlyErrand ==
  ASSUME PersonnelInv, NEW o \in Officers, NEW e \in ErrandEntry, errand' = [errand EXCEPT ![o] = e],
         UNCHANGED <<unit, employee>>, Carrying(e)
  PROVE  PersonnelInv'
<1>1. Employees' = Employees /\ Units' = Units
  BY DEF Employees, Units
<1>2. PersonnelTyped'
  BY DEF PersonnelInv, PersonnelTyped
<1>3. \A p \in Officers : Carrying(errand'[p])
  BY DEF PersonnelInv, PersonnelTyped
<1>4. \A p \in Officers : Carrying(errand[p])'
  BY <1>1, <1>3 DEF Carrying
<1>5. CodesInOrder' /\ NamesUnique'
  BY <1>1 DEF PersonnelInv, CodesInOrder, Codes, NamesUnique
<1>. QED  BY <1>2, <1>4, <1>5 DEF PersonnelInv

\* An errand ends.
LEMMA EndsWell == Home \in ErrandEntry /\ Home.at = "home" /\ Carrying(Home)
  BY DEF Home, Begun, ErrandEntry, Carrying

\* The errand of one officer changes.
Apart(o) == \A p \in Officers \ {o} : errand'[p] = errand[p]

\* What the others carry stays true when rows are added.
LEMMA OthersErrands ==
  ASSUME PersonnelInv, NEW o \in Officers, Apart(o), Employees \subseteq Employees', Units \subseteq Units',
         Cardinality(Employees) \in Nat, Cardinality(Employees)' \in Nat, Cardinality(Employees) <= Cardinality(Employees)',
         Carrying(errand[o])'
  PROVE  \A p \in Officers : Carrying(errand[p])'
<1> SUFFICES ASSUME NEW p \in Officers \ {o} PROVE Carrying(errand[p])'
  OBVIOUS
<1>1. Carrying(errand[p])
  BY DEF PersonnelInv
<1>2. errand'[p] = errand[p]
  BY DEF Apart
<1>. QED  BY <1>1, <1>2 DEF Carrying

----------------------------------------------------------------------------
\* The next code is one more than the number of employees.
LEMMA NextIsOneMore ==
  ASSUME CodesInOrder
  PROVE  NextCode = Cardinality(Employees) + 1 /\ Cardinality(Employees) \in Nat
<1>1. Cardinality(Employees) \in Nat
  BY FS_CardinalityType DEF CodesInOrder
<1> DEFINE n == Cardinality(Employees)
           S == {0} \cup 1..n
<1>2. n \in S /\ \A y \in S : n >= y
  BY <1>1
<1>3. Max(S) \in S /\ \A y \in S : Max(S) >= y
  BY <1>2 DEF Max
<1>4. Max(S) = n
  BY <1>1, <1>2, <1>3
<1>5. NextCode = 1 + Max(S)
  BY DEF NextCode, CodesInOrder, Codes
<1>. QED  BY <1>1, <1>4, <1>5

\* The steps that look and change no row.
LEMMA LookingKeeps ==
  ASSUME PersonnelInv, NEW o \in Officers,
         \/ FindRecord(o) \/ generateEmployeeCode(o) \/ ErrandFault(o)
         \/ (\E u \in Users, d, g \in Numbers : FindReferences(o, u, d, g))
         \/ (\E u \in Users, do \in {"activate", "terminate"} : FindEmployee(o, u, do, NoOne))
         \/ \E n \in Numbers :
              \/ (\E u \in Users : FindEmployee(o, u, "move", n))
              \/ FindEmptyUnit(o, n)
              \/ \E name \in UnitNames : FindName(o, n, name) \/ FindUnit(o, n, name)
  PROVE  PersonnelInv'
<1>1. PersonnelTyped /\ Carrying(errand[o]) /\ CodesInOrder /\ errand[o] \in ErrandEntry
  BY DEF PersonnelInv, PersonnelTyped
<1>2. CASE FindRecord(o)
  <2>1. errand[o].at = "check" /\ UNCHANGED <<unit, employee>>
    BY <1>2 DEF FindRecord, ErrandAt
  <2>2. CASE ErrandEnds(o)
    BY <2>1, <2>2, EndsWell, OnlyErrand DEF ErrandEnds
  <2>3. CASE ErrandTo(o, "code")
    <3> DEFINE e == [at |-> "code", do |-> errand[o].do, on |-> errand[o].on, to |-> errand[o].to,
                     code |-> errand[o].code]
    <3>1. errand' = [errand EXCEPT ![o] = e]
      <4>1. errand' = [errand EXCEPT ![o] = [errand[o] EXCEPT !.at = "code"]]
        BY <1>1, <2>3 DEF ErrandTo, PersonnelTyped
      <4>. QED  BY <1>1, <4>1, EntryChanges, Zenon
    <3>2. e \in ErrandEntry /\ Carrying(e)
      BY <1>1, <2>1 DEF ErrandEntry, Carrying
    <3> HIDE DEF e
    <3>. QED  BY <2>1, <3>1, <3>2, OnlyErrand
  <2>. QED  BY <1>2, <2>2, <2>3 DEF FindRecord
<1>3. CASE generateEmployeeCode(o)
  <2>1. errand[o].at = "code" /\ UNCHANGED <<unit, employee>>
    BY <1>3 DEF generateEmployeeCode, ErrandAt
  <2> DEFINE e == [at |-> "insert", do |-> errand[o].do, on |-> errand[o].on, to |-> errand[o].to,
                   code |-> NextCode]
             f == [errand EXCEPT ![o].at = "insert"]
  <2>2. errand' = [f EXCEPT ![o] = [f[o] EXCEPT !.code = NextCode]]
    BY <1>3 DEF generateEmployeeCode
  <2>3. f[o] = [errand[o] EXCEPT !.at = "insert"]
    BY <1>1 DEF PersonnelTyped
  <2>4. [[errand[o] EXCEPT !.at = "insert"] EXCEPT !.code = NextCode] = e
    BY <1>1, EntryChanges, Zenon
  <2>5. errand' = [f EXCEPT ![o] = e]
    BY ONLY <2>2, <2>3, <2>4, Zenon
  <2>6. [f EXCEPT ![o] = e] = [errand EXCEPT ![o] = e]
    BY <1>1 DEF PersonnelTyped
  <2>7. e \in ErrandEntry /\ Carrying(e)
    BY <1>1, <2>1, NextIsOneMore DEF ErrandEntry, Carrying
  <2> HIDE DEF e, f
  <2>. QED  BY <2>1, <2>5, <2>6, <2>7, OnlyErrand
<1>4. CASE ErrandFault(o)
  <2>1. ErrandEnds(o) /\ UNCHANGED <<unit, employee>>
    BY <1>4 DEF ErrandFault
  <2>. QED  BY <2>1, EndsWell, OnlyErrand DEF ErrandEnds
<1>5. CASE \E u \in Users, d, g \in Numbers : FindReferences(o, u, d, g)
  <2>1. PICK u \in Users, d \in Numbers, g \in Numbers : FindReferences(o, u, d, g)
    BY <1>5
  <2> DEFINE e == Begun("check", "hire", u, {d, g})
  <2>2. UNCHANGED <<unit, employee>>
    BY <2>1 DEF FindReferences, Errand
  <2>3. errand' = [errand EXCEPT ![o] = e]
    BY <2>1 DEF FindReferences, Errand
  <2>4. e \in ErrandEntry /\ Carrying(e)
    BY <2>1, <2>2 DEF ErrandEntry, Carrying, Begun
  <2> HIDE DEF e
  <2>. QED  BY <2>2, <2>3, <2>4, OnlyErrand
<1>6. CASE \/ (\E u \in Users, do \in {"activate", "terminate"} : FindEmployee(o, u, do, NoOne))
           \/ (\E n \in Numbers, u \in Users : FindEmployee(o, u, "move", n))
  <2>1. PICK u \in Users, do \in {"activate", "terminate", "move"}, n \in Numbers \cup {NoOne} :
           FindEmployee(o, u, do, n) /\ (do = "move" => n \in Numbers)
    BY <1>6
  <2> DEFINE e == Begun("update", do, u, n)
  <2>2. UNCHANGED <<unit, employee>> /\ u \in Employees
    BY <2>1 DEF FindEmployee, Errand
  <2>3. errand' = [errand EXCEPT ![o] = e]
    BY <2>1 DEF FindEmployee, Errand
  <2>4. e \in ErrandEntry /\ Carrying(e)
    BY <2>1, <2>2 DEF ErrandEntry, Carrying, Begun
  <2> HIDE DEF e
  <2>. QED  BY <2>2, <2>3, <2>4, OnlyErrand
<1>7. CASE \E n \in Numbers : FindEmptyUnit(o, n)
  <2>1. PICK n \in Numbers : FindEmptyUnit(o, n)
    BY <1>7
  <2> DEFINE e == Begun("close", NoOne, n, NoOne)
  <2>2. UNCHANGED <<unit, employee>> /\ n \in Units /\ ActiveIn(n) = {}
    BY <2>1 DEF FindEmptyUnit, Errand
  <2>3. errand' = [errand EXCEPT ![o] = e]
    BY <2>1 DEF FindEmptyUnit, Errand
  <2>4. e \in ErrandEntry /\ Carrying(e)
    BY <2>1, <2>2 DEF ErrandEntry, Carrying, Begun
  <2> HIDE DEF e
  <2>. QED  BY <2>2, <2>3, <2>4, OnlyErrand
<1>8. CASE \E n \in Numbers, name \in UnitNames : FindName(o, n, name)
  <2>1. PICK n \in Numbers, name \in UnitNames : FindName(o, n, name)
    BY <1>8
  <2> DEFINE e == Begun("open", n[1], NoOne, name)
  <2>2. UNCHANGED <<unit, employee>> /\ n[1] \in Kinds
    BY <2>1 DEF FindName, Errand, Numbers
  <2>3. errand' = [errand EXCEPT ![o] = e]
    BY <2>1 DEF FindName, Errand, Numbers
  <2>4. e \in ErrandEntry /\ Carrying(e)
    BY <2>1, <2>2 DEF ErrandEntry, Carrying, Begun
  <2> HIDE DEF e
  <2>. QED  BY <2>2, <2>3, <2>4, OnlyErrand
<1>9. CASE \E n \in Numbers, name \in UnitNames : FindUnit(o, n, name)
  <2>1. PICK n \in Numbers, name \in UnitNames : FindUnit(o, n, name)
    BY <1>9
  <2> DEFINE e == Begun("rename", NoOne, n, name)
  <2>2. UNCHANGED <<unit, employee>> /\ n \in Units
    BY <2>1 DEF FindUnit, Errand
  <2>3. errand' = [errand EXCEPT ![o] = e]
    BY <2>1 DEF FindUnit, Errand
  <2>4. e \in ErrandEntry /\ Carrying(e)
    BY <2>1, <2>2 DEF ErrandEntry, Carrying, Begun
  <2> HIDE DEF e
  <2>. QED  BY <2>2, <2>3, <2>4, OnlyErrand
<1>. QED  BY <1>2, <1>3, <1>4, <1>5, <1>6, <1>7, <1>8, <1>9

----------------------------------------------------------------------------
\* An errand ends, and the others are left alone.
LEMMA EndsApart ==
  ASSUME PersonnelTyped, NEW o \in Officers, ErrandEnds(o)
  PROVE  /\ errand' \in [Officers -> ErrandEntry] /\ errand'[o] = Home /\ Apart(o)
  BY EndsWell DEF ErrandEnds, PersonnelTyped, Apart

\* A row of an employee changes, and the errand ends.
LEMMA StaffChanges ==
  ASSUME PersonnelInv, NEW o \in Officers, NEW u \in Users, NEW row \in EmployeeRow,
         employee' = [employee EXCEPT ![u] = row], UNCHANGED unit, ErrandEnds(o),
         CodesInOrder', Cardinality(Employees) <= Cardinality(Employees)'
  PROVE  PersonnelInv'
<1> USE PersonnelAssumption
<1>1. PersonnelTyped /\ CodesInOrder /\ NamesUnique
  BY DEF PersonnelInv
<1>2. errand' \in [Officers -> ErrandEntry] /\ errand'[o] = Home /\ Apart(o)
  BY <1>1, EndsApart
<1>3. PersonnelTyped'
  BY <1>1, <1>2 DEF PersonnelTyped
<1>4. employee'[u] = row /\ \A w \in Users \ {u} : employee'[w] = employee[w]
  BY <1>1 DEF PersonnelTyped
<1>5. Employees \subseteq Employees' /\ Units' = Units
  BY <1>4 DEF Employees, Units
<1>6. Cardinality(Employees) \in Nat /\ Cardinality(Employees)' \in Nat
  BY <1>1, FS_CardinalityType DEF CodesInOrder
<1>7. Carrying(errand[o])'
  BY <1>2, EndsWell DEF Home, Begun, Carrying
<1>8. \A p \in Officers : Carrying(errand[p])'
  BY <1>2, <1>5, <1>6, <1>7, OthersErrands
<1>9. NamesUnique'
  BY <1>1, <1>5 DEF NamesUnique
<1>. QED  BY <1>3, <1>8, <1>9 DEF PersonnelInv

\* createEmployee: the code is free only when it is the next.
LEMMA InsertKeeps ==
  ASSUME PersonnelInv, NEW o \in Officers, InsertEmployee(o)
  PROVE  PersonnelInv'
<1> USE PersonnelAssumption
<1> DEFINE e == errand[o]
           n == Cardinality(Employees)
<1>1. PersonnelTyped /\ CodesInOrder /\ e \in ErrandEntry /\ Carrying(e) /\ n \in Nat
  BY FS_CardinalityType DEF PersonnelInv, PersonnelTyped, CodesInOrder
<1>2. e.on \in Users /\ e.to \in SUBSET Numbers /\ e.code \in 1..(n + 1) /\ UNCHANGED unit /\ ErrandEnds(o)
  BY <1>1 DEF InsertEmployee, ErrandAt, Carrying
<1>3. CASE UsedAlready(e.on, e.code)
  <2>1. errand' = [errand EXCEPT ![o] = Home] /\ UNCHANGED <<unit, employee>>
    BY <1>2, <1>3 DEF InsertEmployee, ErrandEnds
  <2>. QED  BY <2>1, EndsWell, OnlyErrand
<1>4. CASE ~UsedAlready(e.on, e.code)
  <2> DEFINE row == [code |-> e.code, status |-> "ACTIVE", in |-> e.to]
  <2>1. row \in EmployeeRow /\ row.in = e.to /\ row.code = e.code
    BY <1>1, <1>2 DEF EmployeeRow
  <2>2. employee' = [employee EXCEPT ![e.on] = row]
    BY <1>4 DEF InsertEmployee
  <2>3. e.on \notin Employees /\ e.code \notin Codes
    BY <1>4 DEF UsedAlready, Codes
  <2>4. e.code = n + 1
    BY <1>1, <1>2, <2>3 DEF CodesInOrder
  <2> HIDE DEF row
  <2>5. employee'[e.on] = row /\ (\A w \in Users \ {e.on} : employee'[w] = employee[w]) /\ row # NoOne
    BY <1>1, <1>2, <2>1, <2>2 DEF PersonnelTyped
  <2>6. Employees' = Employees \cup {e.on}
    BY <1>2, <2>5 DEF Employees
  <2>7. IsFiniteSet(Employees') /\ Cardinality(Employees') = n + 1
    BY <1>1, <2>3, <2>6, FS_AddElement DEF CodesInOrder
  <2>8. Codes' = Codes \cup {n + 1}
    <3>1. Codes' = {employee'[w].code : w \in Employees'}
      BY DEF Codes
    <3>2. \A w \in Employees : w \in Users /\ w # e.on
      BY <2>3 DEF Employees
    <3>. QED  BY <2>1, <2>4, <2>5, <2>6, <3>1, <3>2 DEF Codes
  <2>9. CodesInOrder'
    <3>1. 1..(n + 1) = (1..n) \cup {n + 1}
      BY <1>1
    <3>. QED  BY <1>1, <2>7, <2>8, <3>1 DEF CodesInOrder
  <2>10. Cardinality(Employees) <= Cardinality(Employees)'
    BY <1>1, <2>7
  <2>. QED  BY <1>2, <2>1, <2>2, <2>9, <2>10, StaffChanges
<1>. QED  BY <1>3, <1>4

\* updateEmployee and deleteEmployee keep the code.
LEMMA UpdateKeeps ==
  ASSUME PersonnelInv, NEW o \in Officers, UpdateEmployee(o)
  PROVE  PersonnelInv'
<1> USE PersonnelAssumption
<1> DEFINE e == errand[o]
           old == employee[e.on]
           row == Edited(old, e)
<1>1. PersonnelTyped /\ CodesInOrder /\ e \in ErrandEntry /\ Carrying(e)
  BY DEF PersonnelInv, PersonnelTyped
<1>2. /\ e.on \in Employees /\ e.do \in {"move", "activate", "terminate"} /\ (e.do = "move" => e.to \in Numbers)
      /\ UNCHANGED unit /\ employee' = [employee EXCEPT ![e.on] = row] /\ ErrandEnds(o)
  BY <1>1 DEF UpdateEmployee, ErrandAt, Carrying
<1>3. e.on \in Users /\ old \in EmployeeRow
  BY <1>1, <1>2 DEF Employees, PersonnelTyped
<1>4. row \in EmployeeRow /\ row.code = old.code
  <2>1. CASE e.do = "move"
    <3>1. row = [old EXCEPT !.in = {m \in @ : m[1] # e.to[1]} \cup {e.to}]
      BY <2>1 DEF Edited
    <3>. QED  BY <1>2, <1>3, <2>1, <3>1 DEF EmployeeRow
  <2>2. CASE e.do = "activate"
    <3>1. row = [old EXCEPT !.status = "ACTIVE"]
      BY <2>2 DEF Edited
    <3>. QED  BY <1>3, <3>1 DEF EmployeeRow
  <2>3. CASE e.do = "terminate"
    <3>1. row = [old EXCEPT !.status = "TERMINATED"]
      BY <2>3 DEF Edited
    <3>. QED  BY <1>3, <3>1 DEF EmployeeRow
  <2>. QED  BY <1>2, <2>1, <2>2, <2>3
<1> HIDE DEF row
<1>5. employee'[e.on] = row /\ (\A w \in Users \ {e.on} : employee'[w] = employee[w]) /\ row # NoOne
  BY <1>1, <1>2, <1>3, <1>4 DEF PersonnelTyped
<1>6. Employees' = Employees
  BY <1>2, <1>3, <1>5 DEF Employees
<1>7. \A w \in Employees : employee'[w].code = employee[w].code
  BY <1>4, <1>5 DEF Employees
<1>8. Codes' = Codes
  BY <1>6, <1>7 DEF Codes
<1>9. CodesInOrder' /\ Cardinality(Employees) <= Cardinality(Employees)'
  <2>1. Cardinality(Employees) \in Nat
    BY <1>1, FS_CardinalityType DEF CodesInOrder
  <2>. QED  BY <1>1, <1>6, <1>8, <2>1 DEF CodesInOrder
<1>. QED  BY <1>2, <1>3, <1>4, <1>9, StaffChanges

\* A row of a unit changes or is added, and all else is kept.
LEMMA UnitChanges ==
  ASSUME PersonnelInv, NEW o \in Officers, NEW n \in Numbers, NEW row \in UnitRow,
         unit' = [unit EXCEPT ![n] = row], UNCHANGED employee, ErrandEnds(o),
         NamesUnique'
  PROVE  PersonnelInv'
<1> USE PersonnelAssumption
<1>1. PersonnelTyped /\ CodesInOrder /\ \A p \in Officers : Carrying(errand[p])
  BY DEF PersonnelInv
<1>2. /\ errand' \in [Officers -> ErrandEntry] /\ errand'[o] = Home /\ Apart(o)
  BY <1>1, EndsApart
<1>3. PersonnelTyped'
  BY <1>1, <1>2 DEF PersonnelTyped
<1>4. Employees' = Employees /\ Codes' = Codes
  BY DEF Employees, Codes
<1>5. Units \subseteq Units'
  BY <1>1 DEF Units, PersonnelTyped
<1>6. Carrying(errand[o])'
  BY <1>2, EndsWell DEF Home, Begun, Carrying
<1>7. Cardinality(Employees) \in Nat
  BY <1>1, FS_CardinalityType DEF CodesInOrder
<1>8. \A p \in Officers : Carrying(errand[p])'
  BY <1>2, <1>4, <1>5, <1>6, <1>7, OthersErrands
<1>9. CodesInOrder'
  BY <1>1, <1>4 DEF CodesInOrder
<1>. QED  BY <1>1, <1>3, <1>8, <1>9 DEF PersonnelInv

\* createDepartment, createDesignation: a name that is taken is refused.
LEMMA OpenKeeps ==
  ASSUME PersonnelInv, NEW o \in Officers, NEW n \in Numbers, InsertUnit(o, n)
  PROVE  PersonnelInv'
<1> USE PersonnelAssumption
<1> DEFINE e == errand[o]
           row == [name |-> e.to, active |-> TRUE]
<1>1. PersonnelTyped /\ NamesUnique /\ Carrying(e)
  BY DEF PersonnelInv
<1>2. e.to \in UnitNames /\ n[1] = e.do /\ n \notin Units /\ ErrandEnds(o) /\ UNCHANGED employee
  BY <1>1 DEF InsertUnit, ErrandAt, Carrying
<1>3. CASE NameTaken(e.do, e.to, NoOne)
  <2>1. errand' = [errand EXCEPT ![o] = Home] /\ UNCHANGED <<unit, employee>>
    BY <1>2, <1>3 DEF InsertUnit, ErrandEnds
  <2>. QED  BY <2>1, EndsWell, OnlyErrand
<1>4. CASE ~NameTaken(e.do, e.to, NoOne)
  <2>1. unit' = [unit EXCEPT ![n] = row]
    BY <1>4 DEF InsertUnit
  <2>2. row \in UnitRow /\ row.name = e.to
    BY <1>2 DEF UnitRow
  <2> HIDE DEF row
  <2>3. unit'[n] = row /\ \A m \in Numbers \ {n} : unit'[m] = unit[m]
    BY <1>1, <2>1 DEF PersonnelTyped
  <2>4. \A m \in Units : m \in Numbers /\ m # n /\ m # NoOne
    BY <1>2 DEF Units
  <2>5. \A m \in Units : ~(m[1] = n[1] /\ unit[m].name = e.to)
    BY <1>2, <1>4, <2>4 DEF NameTaken
  <2>6. \A m \in Units' : m = n \/ (m \in Units /\ unit'[m] = unit[m])
    BY <2>3 DEF Units
  <2>7. NamesUnique'
    BY <1>1, <2>2, <2>3, <2>5, <2>6 DEF NamesUnique
  <2>. QED  BY <1>2, <2>1, <2>2, <2>7, UnitChanges
<1>. QED  BY <1>3, <1>4

\* updateDepartment, updateDesignation: so is a name that another has taken.
LEMMA RenameKeeps ==
  ASSUME PersonnelInv, NEW o \in Officers, RenameUnit(o)
  PROVE  PersonnelInv'
<1> USE PersonnelAssumption
<1> DEFINE e == errand[o]
           row == [unit[e.on] EXCEPT !.name = e.to]
<1>1. PersonnelTyped /\ NamesUnique /\ Carrying(e)
  BY DEF PersonnelInv
<1>2. e.to \in UnitNames /\ e.on \in Units /\ e.on \in Numbers /\ ErrandEnds(o) /\ UNCHANGED employee
  BY <1>1 DEF RenameUnit, ErrandAt, Carrying, Units
<1>3. CASE NameTaken(e.on[1], e.to, e.on)
  <2>1. errand' = [errand EXCEPT ![o] = Home] /\ UNCHANGED <<unit, employee>>
    BY <1>2, <1>3 DEF RenameUnit, ErrandEnds
  <2>. QED  BY <2>1, EndsWell, OnlyErrand
<1>4. CASE ~NameTaken(e.on[1], e.to, e.on)
  <2>1. unit' = [unit EXCEPT ![e.on] = row]
    BY <1>4 DEF RenameUnit
  <2>2. row \in UnitRow /\ row.name = e.to
    BY <1>1, <1>2 DEF UnitRow, Units, PersonnelTyped
  <2> HIDE DEF row
  <2>3. unit'[e.on] = row /\ \A m \in Numbers \ {e.on} : unit'[m] = unit[m]
    BY <1>1, <1>2, <2>1 DEF PersonnelTyped
  <2>4. \A m \in Units \ {e.on} : ~(m[1] = e.on[1] /\ unit[m].name = e.to)
    BY <1>4 DEF NameTaken
  <2>5. \A m \in Units' : m = e.on \/ (m \in Units \ {e.on} /\ unit'[m] = unit[m])
    BY <2>3 DEF Units
  <2>6. NamesUnique'
    BY <1>1, <2>2, <2>3, <2>4, <2>5 DEF NamesUnique
  <2>. QED  BY <1>2, <2>1, <2>2, <2>6, UnitChanges
<1>. QED  BY <1>3, <1>4

\* deleteDepartment, deleteDesignation: a name that is closed stays taken.
LEMMA CloseKeeps ==
  ASSUME PersonnelInv, NEW o \in Officers, CloseUnit(o)
  PROVE  PersonnelInv'
<1> USE PersonnelAssumption
<1> DEFINE e == errand[o]
           row == [unit[e.on] EXCEPT !.active = FALSE]
<1>1. PersonnelTyped /\ NamesUnique /\ Carrying(e)
  BY DEF PersonnelInv
<1>2. /\ e.on \in Units /\ e.on \in Numbers /\ ErrandEnds(o) /\ UNCHANGED employee
      /\ unit' = [unit EXCEPT ![e.on] = row]
  BY <1>1 DEF CloseUnit, ErrandAt, Carrying, Units
<1>3. row \in UnitRow /\ row.name = unit[e.on].name
  BY <1>1, <1>2 DEF UnitRow, Units, PersonnelTyped
<1> HIDE DEF row
<1>4. \A m \in Units' : m \in Units /\ unit'[m].name = unit[m].name
  BY <1>1, <1>2, <1>3 DEF Units, PersonnelTyped
<1>5. NamesUnique'
  BY <1>1, <1>4 DEF NamesUnique
<1>. QED  BY <1>2, <1>3, <1>5, UnitChanges

----------------------------------------------------------------------------
\* The invariant holds, however many requests are under way.
THEOREM PersonnelHolds == SpecPersonnel => []PersonnelInv
<1>1. ASSUME PersonnelInv, UNCHANGED personnelVars  PROVE PersonnelInv'
  <2>1. UNCHANGED <<unit, employee, errand>>
    BY <1>1 DEF personnelVars
  <2>2. Employees' = Employees /\ Codes' = Codes /\ Units' = Units
    BY <2>1 DEF Codes, Employees, Units
  <2>3. PersonnelTyped' /\ CodesInOrder' /\ NamesUnique'
    BY <1>1, <2>1, <2>2 DEF PersonnelInv, PersonnelTyped, CodesInOrder, NamesUnique
  <2>4. \A o \in Officers : Carrying(errand[o])'
    BY <1>1, <2>1, <2>2 DEF PersonnelInv, Carrying
  <2>. QED  BY <2>3, <2>4 DEF PersonnelInv
<1>2. ASSUME PersonnelInv, NextPersonnel  PROVE PersonnelInv'
  <2>1. PICK o \in Officers :
          \/ \/ FindRecord(o) \/ generateEmployeeCode(o) \/ ErrandFault(o)
             \/ (\E u \in Users, d, g \in Numbers : FindReferences(o, u, d, g))
             \/ (\E u \in Users, do \in {"activate", "terminate"} : FindEmployee(o, u, do, NoOne))
             \/ \E n \in Numbers :
                  \/ (\E u \in Users : FindEmployee(o, u, "move", n))
                  \/ FindEmptyUnit(o, n)
                  \/ \E name \in UnitNames : FindName(o, n, name) \/ FindUnit(o, n, name)
          \/ InsertEmployee(o) \/ UpdateEmployee(o) \/ RenameUnit(o) \/ CloseUnit(o)
          \/ \E n \in Numbers : InsertUnit(o, n)
    BY <1>2, Zenon DEF NextPersonnel
  <2>. QED  BY <1>2, <2>1, LookingKeeps, InsertKeeps, UpdateKeeps, RenameKeeps, CloseKeeps, OpenKeeps
<1>. QED  BY <1>1, <1>2, PersonnelStarts, PTL DEF SpecPersonnel

\* Employees have the codes from one up without a gap, and no two units of a kind share a
\* name, active or not (employee-code.ts:7-23, employee.service.ts:43-90,
\* department.service.ts:8-22, 71-89), for any number of users, units and requests.
THEOREM StaffAlwaysInOrder == SpecPersonnel => []StaffInOrder
<1>1. PersonnelInv => StaffInOrder
  BY DEF PersonnelInv, CodesInOrder, Codes, NamesUnique, StaffInOrder, NameTaken
<1>. QED  BY <1>1, PersonnelHolds, PTL

----------------------------------------------------------------------------
\* Rows of employees name units that are there, and an errand that is to write such a name
\* has found the unit; no unit is ever taken away.
Finds(e) ==
  /\ e.at \in {"check", "code", "insert"} => e.to \subseteq Units
  /\ e.at = "update" /\ e.do = "move" => e.to \in Units

InUnits ==
  /\ errands \in 0..MaxErrands
  /\ \A u \in Employees : employee[u].in \subseteq Units
  /\ \A o \in Officers : Finds(errand[o])

\* An errand changes, and no unit is lost.
LEMMA UnitsStay ==
  ASSUME InUnits, NEW o \in Officers, Apart(o), Finds(errand[o])', Units \subseteq Units', errands' \in 0..MaxErrands,
         \A u \in Employees' : employee'[u].in \subseteq Units'
  PROVE  InUnits'
<1> SUFFICES ASSUME NEW p \in Officers \ {o} PROVE Finds(errand[p])'
  BY DEF InUnits
<1>1. Finds(errand[p])
  BY DEF InUnits
<1>2. errand'[p] = errand[p]
  BY DEF Apart
<1> QED BY <1>1, <1>2 DEF Finds

\* The same, for the steps that write no row.
LEMMA UnitsRest ==
  ASSUME PersonnelTyped, InUnits, NEW o \in Officers, NEW e, Finds(e), errand' = [errand EXCEPT ![o] = e],
         UNCHANGED <<unit, employee>>, errands' \in 0..MaxErrands
  PROVE  InUnits'
<1>1. Apart(o) /\ errand'[o] = e
  BY DEF Apart, PersonnelTyped
<1>2. Units' = Units /\ Employees' = Employees
  BY DEF Units, Employees
<1>3. Finds(errand[o])'
  BY <1>1, <1>2 DEF Finds
<1>4. \A u \in Employees' : employee'[u].in \subseteq Units'
  BY <1>2 DEF InUnits
<1> QED BY <1>1, <1>2, <1>3, <1>4, UnitsStay

LEMMA HomeFinds == Finds(Home)
BY DEF Finds, Home, Begun

\* A request begins with a unit that it found.
LEMMA BegunFinds ==
  ASSUME PersonnelTyped, InUnits, NEW o \in Officers, NEW at, NEW do, NEW on, NEW to,
         Errand(o, Begun(at, do, on, to)), UNCHANGED <<unit, employee>>,
         at \in {"check", "code", "insert"} => to \subseteq Units,
         at = "update" /\ do = "move" => to \in Units
  PROVE  InUnits'
<1> DEFINE e == Begun(at, do, on, to)
<1>1. errand' = [errand EXCEPT ![o] = e] /\ errands < MaxErrands /\ errands' = errands + 1
  BY DEF Errand
<1>2. errands' \in 0..MaxErrands
  BY <1>1, PersonnelAssumption DEF InUnits
<1>3. Finds(e)
  BY DEF Finds, Begun
<1> HIDE DEF e
<1> QED BY <1>1, <1>2, <1>3, UnitsRest

\* A unit is added or changes.
LEMMA UnitRowsStay ==
  ASSUME PersonnelTyped, InUnits, NEW o \in Officers, NEW n \in Numbers, NEW row \in UnitRow,
         unit' = [unit EXCEPT ![n] = row] \/ UNCHANGED unit, UNCHANGED <<employee, errands>>, ErrandEnds(o)
  PROVE  InUnits'
<1>1. Units \subseteq Units' /\ Employees' = Employees
  BY PersonnelAssumption DEF Units, Employees, PersonnelTyped
<1>2. Apart(o) /\ errand'[o] = Home
  BY EndsApart
<1>3. Finds(errand[o])'
  BY <1>2 DEF Finds, Home, Begun
<1>4. \A u \in Employees' : employee'[u].in \subseteq Units'
  BY <1>1 DEF InUnits
<1> QED BY <1>1, <1>2, <1>3, <1>4, UnitsStay DEF InUnits

\* The row of an employee changes.
LEMMA StaffInUnits ==
  ASSUME PersonnelTyped, InUnits, NEW o \in Officers, NEW u \in Users, NEW row, row.in \subseteq Units,
         employee' = [employee EXCEPT ![u] = row], UNCHANGED <<unit, errands>>, Apart(o), errand'[o] = Home
  PROVE  InUnits'
<1>1. Units' = Units
  BY DEF Units
<1>2. Finds(errand[o])'
  BY DEF Finds, Home, Begun
<1>3. ASSUME NEW w \in Employees' PROVE employee'[w].in \subseteq Units'
  <2>1. CASE w = u
    BY <1>1, <2>1 DEF PersonnelTyped
  <2>2. CASE w # u
    <3>1. employee'[w] = employee[w] /\ w \in Employees
      BY <1>3, <2>2 DEF Employees, PersonnelTyped
    <3> QED BY <1>1, <3>1 DEF InUnits
  <2> QED BY <2>1, <2>2
<1> QED BY <1>1, <1>2, <1>3, UnitsStay DEF InUnits

LEMMA InsertInUnits ==
  ASSUME PersonnelInv, InUnits, NEW o \in Officers, InsertEmployee(o)
  PROVE  InUnits'
<1> DEFINE e == errand[o]
<1>1. PersonnelTyped /\ Carrying(e) /\ Finds(e)
  BY DEF PersonnelInv, InUnits
<1>2. e.at = "insert" /\ e.on \in Users /\ e.to \subseteq Units /\ UNCHANGED <<unit, errands>> /\ ErrandEnds(o)
  BY <1>1 DEF InsertEmployee, ErrandAt, Carrying, Finds
<1>3. CASE UsedAlready(e.on, e.code)
  <2>1. errand' = [errand EXCEPT ![o] = Home] /\ UNCHANGED <<unit, employee>> /\ errands' \in 0..MaxErrands
    BY <1>2, <1>3 DEF InsertEmployee, ErrandEnds, InUnits
  <2> QED BY <1>1, <2>1, HomeFinds, UnitsRest
<1>4. CASE ~UsedAlready(e.on, e.code)
  <2> DEFINE row == [code |-> e.code, status |-> "ACTIVE", in |-> e.to]
  <2>1. row.in \subseteq Units /\ employee' = [employee EXCEPT ![e.on] = row]
    BY <1>2, <1>4 DEF InsertEmployee
  <2>2. Apart(o) /\ errand'[o] = Home
    BY <1>1, <1>2, EndsApart
  <2> HIDE DEF row
  <2> QED BY <1>1, <1>2, <2>1, <2>2, StaffInUnits
<1> QED BY <1>3, <1>4

LEMMA UpdateInUnits ==
  ASSUME PersonnelInv, InUnits, NEW o \in Officers, UpdateEmployee(o)
  PROVE  InUnits'
<1> DEFINE e == errand[o]
           old == employee[e.on]
           row == Edited(old, e)
<1>1. PersonnelTyped /\ Carrying(e) /\ Finds(e)
  BY DEF PersonnelInv, InUnits
<1>2. /\ e.at = "update" /\ e.on \in Employees /\ e.do \in {"move", "activate", "terminate"}
      /\ UNCHANGED <<unit, errands>> /\ employee' = [employee EXCEPT ![e.on] = row]
  BY <1>1 DEF UpdateEmployee, ErrandAt, Carrying
<1>3. e.on \in Users /\ old \in EmployeeRow /\ old.in \subseteq Units
  BY <1>1, <1>2 DEF Employees, PersonnelTyped, InUnits
<1>4. row.in \subseteq Units
  <2>1. CASE e.do = "move"
    <3>1. row = [old EXCEPT !.in = {m \in @ : m[1] # e.to[1]} \cup {e.to}]
      BY <2>1 DEF Edited
    <3>2. e.to \in Units
      BY <1>1, <1>2, <2>1 DEF Finds
    <3> QED BY <1>3, <3>1, <3>2 DEF EmployeeRow
  <2>2. CASE e.do = "activate"
    <3>1. row = [old EXCEPT !.status = "ACTIVE"]
      BY <2>2 DEF Edited
    <3> QED BY <1>3, <3>1 DEF EmployeeRow
  <2>3. CASE e.do = "terminate"
    <3>1. row = [old EXCEPT !.status = "TERMINATED"]
      BY <2>3 DEF Edited
    <3> QED BY <1>3, <3>1 DEF EmployeeRow
  <2> QED BY <1>2, <2>1, <2>2, <2>3
<1>5. ErrandEnds(o)
  BY DEF UpdateEmployee
<1> HIDE DEF row
<1>6. Apart(o) /\ errand'[o] = Home
  BY <1>1, <1>5, EndsApart
<1> QED BY <1>1, <1>2, <1>3, <1>4, <1>6, StaffInUnits

\* Requests that begin, and calls that fail.
LEMMA LookingInUnits ==
  ASSUME PersonnelInv, InUnits, NEW o \in Officers,
         \/ ErrandFault(o)
         \/ (\E u \in Users, d, g \in Numbers : FindReferences(o, u, d, g))
         \/ (\E u \in Users, do \in {"activate", "terminate"} : FindEmployee(o, u, do, NoOne))
         \/ \E n \in Numbers :
              \/ (\E u \in Users : FindEmployee(o, u, "move", n))
              \/ FindEmptyUnit(o, n)
              \/ \E name \in UnitNames : FindName(o, n, name) \/ FindUnit(o, n, name)
  PROVE  InUnits'
<1>1. PersonnelTyped
  BY DEF PersonnelInv
<1>2. CASE ErrandFault(o)
  <2>1. /\ errand' = [errand EXCEPT ![o] = Home] /\ UNCHANGED <<unit, employee>>
        /\ errands < MaxErrands /\ errands' = errands + 1
    BY <1>2 DEF ErrandFault, ErrandEnds
  <2>2. errands' \in 0..MaxErrands
    BY <2>1, PersonnelAssumption DEF InUnits
  <2> QED BY <1>1, <2>1, <2>2, HomeFinds, UnitsRest
<1>3. CASE \E u \in Users, d, g \in Numbers : FindReferences(o, u, d, g)
  <2>1. PICK u \in Users, d \in Numbers, g \in Numbers : FindReferences(o, u, d, g)
    BY <1>3
  <2>2. Errand(o, Begun("check", "hire", u, {d, g})) /\ {d, g} \subseteq Units /\ UNCHANGED <<unit, employee>>
    BY <2>1 DEF FindReferences
  <2> QED BY <1>1, <2>2, BegunFinds
<1>4. CASE \E u \in Users, do \in {"activate", "terminate"} : FindEmployee(o, u, do, NoOne)
  <2>1. PICK u \in Users, do \in {"activate", "terminate"} : FindEmployee(o, u, do, NoOne)
    BY <1>4
  <2>2. Errand(o, Begun("update", do, u, NoOne)) /\ UNCHANGED <<unit, employee>>
    BY <2>1 DEF FindEmployee
  <2> QED BY <1>1, <2>2, BegunFinds
<1>5. CASE \E n \in Numbers, u \in Users : FindEmployee(o, u, "move", n)
  <2>1. PICK n \in Numbers, u \in Users : FindEmployee(o, u, "move", n)
    BY <1>5
  <2>2. Errand(o, Begun("update", "move", u, n)) /\ n \in Units /\ UNCHANGED <<unit, employee>>
    BY <2>1 DEF FindEmployee
  <2> QED BY <1>1, <2>2, BegunFinds
<1>6. CASE \E n \in Numbers, name \in UnitNames : FindEmptyUnit(o, n) \/ FindName(o, n, name) \/ FindUnit(o, n, name)
  <2>1. PICK n \in Numbers, name \in UnitNames : FindEmptyUnit(o, n) \/ FindName(o, n, name) \/ FindUnit(o, n, name)
    BY <1>6
  <2>2. CASE FindEmptyUnit(o, n)
    BY <1>1, <2>2, BegunFinds DEF FindEmptyUnit
  <2>3. CASE FindName(o, n, name)
    BY <1>1, <2>3, BegunFinds DEF FindName
  <2>4. CASE FindUnit(o, n, name)
    BY <1>1, <2>4, BegunFinds DEF FindUnit
  <2> QED BY <2>1, <2>2, <2>3, <2>4
<1>7. CASE \E n \in Numbers : FindEmptyUnit(o, n)
  <2>1. PICK n \in Numbers : FindEmptyUnit(o, n)
    BY <1>7
  <2> QED BY <1>1, <2>1, BegunFinds DEF FindEmptyUnit
<1> QED BY <1>2, <1>3, <1>4, <1>5, <1>6, <1>7

\* createEmployee goes on with the units it found.
LEMMA GoesOnInUnits ==
  ASSUME PersonnelInv, InUnits, NEW o \in Officers, FindRecord(o) \/ generateEmployeeCode(o)
  PROVE  InUnits'
<1>1. PersonnelTyped /\ errand[o] \in ErrandEntry /\ Finds(errand[o]) /\ errands \in 0..MaxErrands
  BY DEF PersonnelInv, PersonnelTyped, InUnits
<1>2. UNCHANGED <<unit, employee, errands>> /\ errand[o].at \in {"check", "code"}
  BY DEF FindRecord, generateEmployeeCode, ErrandAt
<1>3. CASE ErrandEnds(o)
  BY <1>1, <1>2, <1>3, HomeFinds, UnitsRest DEF ErrandEnds
<1>4. CASE ErrandTo(o, "code")
  <2> DEFINE e == [errand[o] EXCEPT !.at = "code"]
  <2>1. errand' = [errand EXCEPT ![o] = e]
    BY <1>1, <1>4 DEF ErrandTo, PersonnelTyped
  <2>2. e.at = "code" /\ e.to = errand[o].to
    BY <1>1 DEF ErrandEntry
  <2>3. Finds(e)
    BY <1>1, <1>2, <2>2 DEF Finds
  <2> HIDE DEF e
  <2> QED BY <1>1, <1>2, <2>1, <2>3, UnitsRest
<1>5. CASE generateEmployeeCode(o)
  <2>1. /\ Apart(o) /\ errand'[o].at = "insert" /\ errand'[o].to = errand[o].to
    BY <1>1, <1>5 DEF generateEmployeeCode, Apart, PersonnelTyped, ErrandEntry
  <2>2. Units' = Units /\ Employees' = Employees
    BY <1>2 DEF Units, Employees
  <2>3. Finds(errand[o])'
    BY <1>1, <1>2, <2>1, <2>2 DEF Finds
  <2>4. \A u \in Employees' : employee'[u].in \subseteq Units'
    BY <1>2, <2>2 DEF InUnits
  <2> QED BY <1>1, <1>2, <2>1, <2>2, <2>3, <2>4, UnitsStay
<1> QED BY <1>3, <1>4, <1>5 DEF FindRecord

\* Departments and designations.
LEMMA UnitsInUnits ==
  ASSUME PersonnelInv, InUnits, NEW o \in Officers,
         RenameUnit(o) \/ CloseUnit(o) \/ \E n \in Numbers : InsertUnit(o, n)
  PROVE  InUnits'
<1> DEFINE e == errand[o]
<1>1. PersonnelTyped /\ Carrying(e)
  BY DEF PersonnelInv
<1>2. CASE \E n \in Numbers : InsertUnit(o, n)
  <2>1. PICK n \in Numbers : InsertUnit(o, n)
    BY <1>2
  <2> DEFINE row == [name |-> e.to, active |-> TRUE]
  <2>2. /\ unit' = [unit EXCEPT ![n] = row] \/ UNCHANGED unit
        /\ UNCHANGED <<employee, errands>> /\ ErrandEnds(o) /\ e.to \in UnitNames
    BY <1>1, <2>1 DEF InsertUnit, ErrandAt, Carrying
  <2>3. row \in UnitRow
    BY <2>2 DEF UnitRow
  <2> HIDE DEF row
  <2> QED BY <1>1, <2>2, <2>3, UnitRowsStay
<1>3. CASE RenameUnit(o)
  <2> DEFINE row == [unit[e.on] EXCEPT !.name = e.to]
  <2>1. /\ unit' = [unit EXCEPT ![e.on] = row] \/ UNCHANGED unit
        /\ UNCHANGED <<employee, errands>> /\ ErrandEnds(o) /\ e.to \in UnitNames /\ e.on \in Units
    BY <1>1, <1>3 DEF RenameUnit, ErrandAt, Carrying
  <2>2. row \in UnitRow /\ e.on \in Numbers
    BY <1>1, <2>1 DEF UnitRow, Units, PersonnelTyped
  <2> HIDE DEF row
  <2> QED BY <1>1, <2>1, <2>2, UnitRowsStay
<1>4. CASE CloseUnit(o)
  <2> DEFINE row == [unit[e.on] EXCEPT !.active = FALSE]
  <2>1. /\ unit' = [unit EXCEPT ![e.on] = row] \/ UNCHANGED unit
        /\ UNCHANGED <<employee, errands>> /\ ErrandEnds(o) /\ e.on \in Units
    BY <1>1, <1>4 DEF CloseUnit, ErrandAt, Carrying
  <2>2. row \in UnitRow /\ e.on \in Numbers
    BY <1>1, <2>1 DEF UnitRow, Units, PersonnelTyped
  <2> HIDE DEF row
  <2> QED BY <1>1, <2>1, <2>2, UnitRowsStay
<1> QED BY <1>2, <1>3, <1>4

\* The rows of units and employees have their types, and every employee is in units that are
\* there (employee.service.ts:43-90): a request that found a unit may rely on it later.
THEOREM PersonnelTypeCorrect == SpecPersonnel => []PersonnelTypeOK
<1>1. InitPersonnel => InUnits
  <2> SUFFICES ASSUME InitPersonnel PROVE InUnits  OBVIOUS
  <2>1. Employees = {} /\ errands = 0 /\ \A o \in Officers : errand[o] = Home
    BY DEF InitPersonnel, Employees
  <2> QED BY <2>1, HomeFinds, PersonnelAssumption DEF InUnits
<1>2. ASSUME PersonnelInv, InUnits, UNCHANGED personnelVars  PROVE InUnits'
  <2>1. UNCHANGED <<unit, employee, errand, errands>>
    BY <1>2 DEF personnelVars
  <2>2. Units' = Units /\ Employees' = Employees
    BY <2>1 DEF Units, Employees
  <2> QED BY <1>2, <2>1, <2>2 DEF InUnits, Finds
<1>3. ASSUME PersonnelInv, InUnits, NextPersonnel  PROVE InUnits'
  <2>1. PICK o \in Officers :
          \/ \/ ErrandFault(o)
             \/ (\E u \in Users, d, g \in Numbers : FindReferences(o, u, d, g))
             \/ (\E u \in Users, do \in {"activate", "terminate"} : FindEmployee(o, u, do, NoOne))
             \/ \E n \in Numbers :
                  \/ (\E u \in Users : FindEmployee(o, u, "move", n))
                  \/ FindEmptyUnit(o, n)
                  \/ \E name \in UnitNames : FindName(o, n, name) \/ FindUnit(o, n, name)
          \/ FindRecord(o) \/ generateEmployeeCode(o)
          \/ InsertEmployee(o) \/ UpdateEmployee(o)
          \/ RenameUnit(o) \/ CloseUnit(o) \/ \E n \in Numbers : InsertUnit(o, n)
    BY <1>3, Zenon DEF NextPersonnel
  <2> QED BY <1>3, <2>1, LookingInUnits, GoesOnInUnits, InsertInUnits, UpdateInUnits, UnitsInUnits
<1>4. PersonnelInv /\ InUnits => PersonnelTypeOK
  BY DEF PersonnelInv, PersonnelTyped, InUnits, PersonnelTypeOK
<1> QED BY <1>1, <1>2, <1>3, <1>4, PersonnelHolds, PTL DEF SpecPersonnel

----------------------------------------------------------------------------
(***************************************************************************)
(* The reports of costs agree with one another, for any agents, users,     *)
(* ranges of days and any number of sessions and relays.                   *)
(***************************************************************************)

SessionRow == [
  via : {"chat", "master", "gateway", "proxy", "import", "relay"},
  agent : Agents, owner : People, payer : People \cup {Absent}, day : Nat, said : 0..2, cost : Nat,
  status : {"running", "success", "failed", "completed", "error", "cancelled"},
  at : {"say", "run", "answer", "pay", "end"}, in : {"alone", "tab", Absent},
  model : {ModelOf[a] : a \in Agents} \cup {Absent, "remote-bridge"}]

\* How far the conversation of a session has come: it names the session twice in a chat
\* and once when the master agent answers, and sessions of other writers have none.
Told(r) ==
  /\ r.in = Absent => r.said = 0
  /\ r.in # Absent => \/ /\ r.via = "chat" /\ r.in = "alone"
                         /\ r.said = IF r.at = "say" THEN 0 ELSE IF r.at \in {"run", "answer"} THEN 1 ELSE 2
                      \/ /\ r.via = "master" /\ r.in = "tab" /\ r.at # "say" /\ r.at # "pay"
                         /\ r.said = IF r.at = "answer" THEN 0 ELSE 1

Booked(r) ==
  /\ r \in SessionRow
  /\ r.day \in 1..today
  /\ r.via = "relay" => r.payer = MakerOf[r.agent]
  /\ r.via = "master" => r.at # "say" /\ r.at # "pay"
  /\ r.via \notin {"chat", "master"} => r.at \in {"run", "end"}
  /\ r.via \in {"import", "relay"} => r.at = "end"
  /\ Told(r)

RelayRow == [at : {"active", "priced", "billed"}, agent : Agents, by : People, cost : Nat, day : Nat,
             failed : BOOLEAN]

ReportInv ==
  /\ today \in 1..MaxDay /\ posts \in 0..MaxPosts
  /\ DOMAIN booked = Ids /\ DOMAIN bridged = Ids
  /\ \A i \in Rows : Booked(booked[i])
  /\ \A b \in Bridges : bridged[b] \in RelayRow /\ bridged[b].day \in 1..today

----------------------------------------------------------------------------
(* The steps.                                                              *)

\* A row is written or removed.
LEMMA RowWritten ==
  ASSUME ReportInv, NEW i \in Ids, NEW row, booked' = [booked EXCEPT ![i] = row],
         row # Absent => Booked(row), posts' \in 0..MaxPosts, UNCHANGED <<today, bridged>>
  PROVE  ReportInv'
<1>1. /\ DOMAIN booked' = Ids /\ booked'[i] = row
      /\ \A j \in Ids : j # i => booked'[j] = booked[j]
  BY DEF ReportInv
<1>2. ASSUME NEW j \in Ids, booked'[j] # Absent PROVE Booked(booked'[j])
  BY <1>1, <1>2 DEF ReportInv, Rows
<1>3. \A r : Booked(r) => Booked(r)'  BY DEF Booked, Told
<1>4. ASSUME NEW j \in Rows' PROVE Booked(booked[j])'
  <2>1. Booked(booked'[j])  BY <1>2, <1>4 DEF Rows
  <2> QED BY <2>1 DEF Booked, Told
<1> QED BY <1>1, <1>4 DEF ReportInv, Bridges

\* A session that is new.
LEMMA NewRowHolds ==
  ASSUME ReportInv, NEW via \in {"chat", "master", "gateway", "proxy", "import", "relay"},
         NEW use \in Agents \X People
  PROVE  /\ NewRow(via, use) \in SessionRow
         /\ NewRow(via, use).via = via /\ NewRow(via, use).day = today /\ NewRow(via, use).said = 0
         /\ NewRow(via, use).agent = use[1] /\ NewRow(via, use).payer = Absent
         /\ NewRow(via, use).at = IF via = "chat" THEN "say" ELSE IF via = "master" THEN "answer" ELSE "run"
         /\ NewRow(via, use).in = IF via = "chat" THEN "alone" ELSE IF via = "master" THEN "tab" ELSE Absent
<1>1. use[1] \in Agents /\ use[2] \in People  OBVIOUS
<1>2. PICK at, in, model :
        /\ at = IF via = "chat" THEN "say" ELSE IF via = "master" THEN "answer" ELSE "run"
        /\ in = IF via = "chat" THEN "alone" ELSE IF via = "master" THEN "tab" ELSE Absent
        /\ model = IF via \in {"master", "proxy"} THEN ModelOf[use[1]] ELSE Absent
  OBVIOUS
<1>3. /\ at \in {"say", "run", "answer", "pay", "end"} /\ in \in {"alone", "tab", Absent}
      /\ model \in {ModelOf[a] : a \in Agents} \cup {Absent, "remote-bridge"}
  BY <1>1, <1>2
<1>4. PICK r : r = [via |-> via, agent |-> use[1], owner |-> use[2], payer |-> Absent, day |-> today,
                    said |-> 0, status |-> "running", cost |-> 0, at |-> at, in |-> in, model |-> model]
  OBVIOUS
<1>5. NewRow(via, use) = r  BY <1>2, <1>4, Zenon DEF NewRow
<1>6. r \in SessionRow  BY <1>1, <1>3, <1>4 DEF SessionRow, ReportInv
<1>7. r.via = via /\ r.day = today /\ r.said = 0 /\ r.agent = use[1] /\ r.payer = Absent /\ r.at = at /\ r.in = in
  BY <1>4
<1> QED BY <1>2, <1>5, <1>6, <1>7

LEMMA BookKeeps ==
  ASSUME ReportInv, NEW i \in Ids, NEW use \in Uses, NEW via \in {"chat", "master", "gateway", "proxy"},
         Book(i, via, use)
  PROVE  ReportInv'
<1>1. PICK r : r = NewRow(via, use)  OBVIOUS
<1>2. use \in Agents \X People  BY ReportsAssumption
<1>3. /\ r \in SessionRow
      /\ r.via = via /\ r.day = today /\ r.said = 0
      /\ r.at = IF via = "chat" THEN "say" ELSE IF via = "master" THEN "answer" ELSE "run"
      /\ r.in = IF via = "chat" THEN "alone" ELSE IF via = "master" THEN "tab" ELSE Absent
  BY <1>1, <1>2, NewRowHolds
<1>4. Booked(r)  BY <1>3, ReportsAssumption DEF Booked, Told, ReportInv
<1>5. booked' = [booked EXCEPT ![i] = r] /\ UNCHANGED <<today, bridged, posts>>
  BY <1>1 DEF Book, Write
<1> QED BY <1>4, <1>5, RowWritten DEF ReportInv

LEMMA MentionKeeps ==
  ASSUME ReportInv, NEW i \in Rows, Mention(i) PROVE ReportInv'
<1>1. PICK r : r = booked[i]  OBVIOUS
<1>2. Booked(r) /\ r.at \in {"say", "answer"} /\ i \in Ids
  BY <1>1 DEF ReportInv, Mention, Rows
<1>3. PICK next : next = IF r.at = "say" \/ r.via = "master" THEN "run"
                         ELSE IF r.owner # MakerOf[r.agent] THEN "pay" ELSE "end"
  OBVIOUS
<1>4. PICK row : row = IF r.in = Absent THEN [r EXCEPT !.at = "end"] ELSE [r EXCEPT !.said = @ + 1, !.at = next]
  OBVIOUS
<1>5. booked' = [booked EXCEPT ![i] = row] /\ UNCHANGED <<today, bridged, posts>>
  BY <1>1, <1>3, <1>4, Zenon DEF Mention, Write
<1>6. Booked(row)
  <2>1. CASE r.in = Absent
    <3>1. row = [r EXCEPT !.at = "end"]  BY <1>4, <2>1
    <3>2. row \in SessionRow  BY <1>2, <3>1 DEF Booked, SessionRow
    <3> QED BY <1>2, <2>1, <3>1, <3>2 DEF Booked, SessionRow, Told
  <2>2. CASE r.in # Absent
    <3>1. row = [r EXCEPT !.said = @ + 1, !.at = next]  BY <1>4, <2>2
    <3>2. r.said \in 0..1 /\ next \in {"run", "pay", "end"}  BY <1>2, <1>3, <2>2 DEF Booked, Told
    <3> DEFINE more == [r EXCEPT !.said = r.said + 1]
    <3>3. row \in SessionRow
      <4>1. r \in SessionRow /\ r.said + 1 \in 0..2  BY <1>2, <3>2 DEF Booked
      <4>2. more \in SessionRow  BY ONLY <4>1 DEF SessionRow
      <4>3. row = [more EXCEPT !.at = next]  BY <3>1
      <4> HIDE DEF more
      <4> QED BY <3>2, <4>2, <4>3 DEF SessionRow
    <3>4. row.said = r.said + 1 /\ row.at = next /\ row.via = r.via /\ row.in = r.in /\ row.day = r.day
          /\ row.payer = r.payer /\ row.agent = r.agent
      BY <1>2, <3>1 DEF Booked, SessionRow
    <3> QED BY <1>2, <1>3, <2>2, <3>3, <3>4 DEF Booked, Told
  <2> QED BY <2>1, <2>2
<1> QED BY <1>2, <1>5, <1>6, RowWritten DEF ReportInv

Statuses == {"running", "success", "failed", "completed", "error", "cancelled"}
Stages == {"say", "run", "answer", "pay", "end"}
Changed(r, status, cost, at) == [r EXCEPT !.status = status, !.cost = cost, !.at = at]

\* What is changed when a session comes to its end.
LEMMA EndHolds ==
  ASSUME NEW r \in SessionRow, NEW status \in Statuses, NEW cost \in Nat, NEW at \in Stages,
         NEW row, row = Changed(r, status, cost, at)
  PROVE  /\ row \in SessionRow
         /\ row.at = at /\ row.via = r.via /\ row.in = r.in /\ row.said = r.said /\ row.day = r.day
         /\ row.payer = r.payer /\ row.agent = r.agent
<1> DEFINE one == [r EXCEPT !.status = status]
           two == [one EXCEPT !.cost = cost]
<1>1. one \in SessionRow /\ one.via = r.via /\ one.in = r.in /\ one.said = r.said /\ one.day = r.day
      /\ one.payer = r.payer /\ one.agent = r.agent
  BY DEF SessionRow, Statuses
<1> HIDE DEF one
<1>2. two \in SessionRow /\ two.via = r.via /\ two.in = r.in /\ two.said = r.said /\ two.day = r.day
      /\ two.payer = r.payer /\ two.agent = r.agent
  BY <1>1 DEF SessionRow
<1>3. row = [two EXCEPT !.at = at]  BY DEF one, two, Changed
<1> HIDE DEF two
<1> QED BY <1>2, <1>3 DEF SessionRow, Stages

LEMMA FinalizeKeeps ==
  ASSUME ReportInv, NEW i \in Rows, NEW c \in SessionCosts, Finalize(i, c) PROVE ReportInv'
<1>1. PICK r : r = booked[i]  OBVIOUS
<1>2. Booked(r) /\ r.at = "run" /\ i \in Ids /\ r \in SessionRow /\ r.cost \in Nat /\ c \in Nat
  BY <1>1, ReportsAssumption DEF ReportInv, Finalize, Rows, Booked, SessionRow
<1> DEFINE To(status, cost, at) == [r EXCEPT !.status = status, !.cost = cost, !.at = at]
<1>3. PICK row :
        /\ row \in CASE r.via = "chat" -> {To("success", 0, "answer")}
                     [] r.via = "master" -> {To("success", r.cost, "end")}
                     [] r.via = "proxy" -> {To("success", c, "end"), To("failed", r.cost, "end")}
                     [] r.via = "gateway" -> {To("completed", c, "end")}
                                             \cup {To(s, r.cost, "end") : s \in {"error", "cancelled"}}
        /\ Write(i, row)
  BY <1>1, Zenon DEF Finalize
<1>4. r.via \in {"chat", "master", "proxy", "gateway"} => Booked(row)
  <2>1. ASSUME NEW status \in {"running", "success", "failed", "completed", "error", "cancelled"},
               NEW cost \in Nat, NEW at \in {"answer", "end"}, row = To(status, cost, at),
               at = "answer" <=> r.via = "chat"
        PROVE  Booked(row)
    <3>0. row = Changed(r, status, cost, at) /\ status \in Statuses /\ at \in Stages
      BY <2>1 DEF Changed, Statuses, Stages
    <3> HIDE DEF To
    <3>1. row \in SessionRow  BY <1>2, <2>1, <3>0, EndHolds
    <3>2. row.at = at /\ row.via = r.via /\ row.in = r.in /\ row.said = r.said /\ row.day = r.day
          /\ row.payer = r.payer /\ row.agent = r.agent
      BY <1>2, <2>1, <3>0, EndHolds
    <3> QED BY <1>2, <2>1, <3>1, <3>2 DEF Booked, Told
  <2>2. CASE r.via = "chat"
    <3>1. row = To("success", 0, "answer")  BY <1>3, <2>2
    <3> HIDE DEF To
    <3> QED BY <2>1, <2>2, <3>1
  <2>3. CASE r.via = "master"
    <3>1. row = To("success", r.cost, "end")  BY <1>3, <2>3
    <3> HIDE DEF To
    <3> QED BY <1>2, <2>1, <2>3, <3>1
  <2>4. CASE r.via = "proxy"
    <3>1. row = To("success", c, "end") \/ row = To("failed", r.cost, "end")  BY <1>3, <2>4
    <3> HIDE DEF To
    <3> QED BY <1>2, <2>1, <2>4, <3>1
  <2>5. CASE r.via = "gateway"
    <3>1. row = To("completed", c, "end") \/ \E s \in {"error", "cancelled"} : row = To(s, r.cost, "end")
      BY <1>3, <2>5
    <3> HIDE DEF To
    <3> QED BY <1>2, <2>1, <2>5, <3>1
  <2> QED BY <2>2, <2>3, <2>4, <2>5
<1>5. booked' = [booked EXCEPT ![i] = row] /\ UNCHANGED <<today, bridged, posts>>
  BY <1>3 DEF Write
<1> HIDE DEF To
<1>6. Booked(row)  BY <1>2, <1>4 DEF Booked, SessionRow
<1> QED BY <1>2, <1>5, <1>6, RowWritten DEF ReportInv

LEMMA ChargeKeeps ==
  ASSUME ReportInv, NEW i \in Rows, ChargeMaker(i) PROVE ReportInv'
<1>1. PICK r : r = booked[i]  OBVIOUS
<1>2. Booked(r) /\ r.at = "pay" /\ i \in Ids /\ r \in SessionRow
  BY <1>1 DEF ReportInv, ChargeMaker, Rows, Booked
<1>3. PICK row : row = [r EXCEPT !.payer = MakerOf[r.agent], !.at = "end"]  OBVIOUS
<1>4. booked' = [booked EXCEPT ![i] = row] /\ UNCHANGED <<today, bridged, posts>>
  BY <1>1, <1>3 DEF ChargeMaker, Write
<1>5. PICK one : one = [r EXCEPT !.payer = MakerOf[r.agent]]  OBVIOUS
<1>6. MakerOf[r.agent] \in People  BY <1>2, ReportsAssumption DEF SessionRow
<1>7. one \in SessionRow /\ one.via = r.via /\ one.in = r.in /\ one.said = r.said /\ one.day = r.day /\ one.agent = r.agent
      /\ one.payer = MakerOf[r.agent]
  BY <1>2, <1>5, <1>6 DEF SessionRow
<1>8. row = [one EXCEPT !.at = "end"]  BY <1>3, <1>5
<1>9. row \in SessionRow /\ row.via = r.via /\ row.in = r.in /\ row.said = r.said /\ row.day = r.day /\ row.agent = r.agent
      /\ row.payer = MakerOf[r.agent] /\ row.at = "end"
  BY <1>7, <1>8 DEF SessionRow
<1>10. Booked(row)  BY <1>2, <1>9 DEF Booked, Told
<1> QED BY <1>2, <1>4, <1>10, RowWritten DEF ReportInv

LEMMA EventKeeps ==
  ASSUME ReportInv, NEW i \in Rows, NEW c \in SessionCosts, PostEvent(i, c) PROVE ReportInv'
<1>1. PICK r : r = booked[i]  OBVIOUS
<1>2. Booked(r) /\ i \in Ids /\ r \in SessionRow /\ c \in Nat /\ r.cost + c \in Nat
  BY <1>1, ReportsAssumption DEF ReportInv, Rows, Booked, SessionRow
<1>3. PICK row : row = [r EXCEPT !.cost = r.cost + c]  OBVIOUS
<1>4. booked' = [booked EXCEPT ![i] = row] /\ UNCHANGED <<today, bridged>>
  BY <1>1, <1>2, <1>3 DEF PostEvent, ReportInv
<1>5. row \in SessionRow /\ row.via = r.via /\ row.in = r.in /\ row.said = r.said /\ row.day = r.day /\ row.agent = r.agent
      /\ row.payer = r.payer /\ row.at = r.at
  BY <1>2, <1>3 DEF SessionRow
<1>6. Booked(row)  BY <1>2, <1>5 DEF Booked, Told
<1>7. posts' \in 0..MaxPosts  BY ReportsAssumption DEF PostEvent, ReportInv
<1> QED BY <1>2, <1>4, <1>6, <1>7, RowWritten

LEMMA ImportKeeps ==
  ASSUME ReportInv, NEW i \in Ids, NEW use \in Uses, NEW c \in SessionCosts, NEW s \in {"success", "running"},
         NEW on \in 1..today, ImportSession(i, use, s, c, on)
  PROVE  ReportInv'
<1>1. PICK r : r = NewRow("import", use)  OBVIOUS
<1>2. use \in Agents \X People /\ use[1] \in Agents /\ c \in Nat /\ on \in Nat
  BY ReportsAssumption DEF ReportInv
<1>3. r \in SessionRow /\ r.via = "import" /\ r.said = 0 /\ r.in = Absent  BY <1>1, <1>2, NewRowHolds
<1> DEFINE one == [r EXCEPT !.status = s, !.cost = c, !.at = "end"]
           two == [one EXCEPT !.day = on]
           row == [r EXCEPT !.status = s, !.cost = c, !.day = on, !.at = "end", !.model = ModelOf[use[1]]]
<1>4. booked' = [booked EXCEPT ![i] = row] /\ UNCHANGED <<today, bridged, posts>>
  BY <1>1 DEF ImportSession, Write
<1>5. row = [two EXCEPT !.model = ModelOf[use[1]]]
  <2>1. r = [via |-> r.via, agent |-> r.agent, owner |-> r.owner, payer |-> r.payer, day |-> r.day, said |-> r.said,
             status |-> r.status, cost |-> r.cost, at |-> r.at, in |-> r.in, model |-> r.model]
    BY <1>3 DEF SessionRow
  <2> QED BY <2>1
<1>6. one \in SessionRow /\ one.via = r.via /\ one.at = "end" /\ one.in = r.in /\ one.said = r.said
  <2>1. PICK q : q = one  OBVIOUS
  <2>2. q = Changed(r, s, c, "end") /\ s \in Statuses /\ "end" \in Stages
    BY <2>1 DEF Changed, Statuses, Stages
  <2> HIDE DEF one
  <2>3. q \in SessionRow  BY <1>2, <1>3, <2>2, EndHolds
  <2>4. q.via = r.via /\ q.at = "end" /\ q.in = r.in /\ q.said = r.said  BY <1>2, <1>3, <2>2, EndHolds
  <2> QED BY <2>1, <2>3, <2>4
<1> HIDE DEF one, row
<1>7. two \in SessionRow /\ two.via = r.via /\ two.at = "end" /\ two.in = r.in /\ two.said = r.said /\ two.day = on
  BY <1>2, <1>6 DEF SessionRow
<1> HIDE DEF two
<1>8. row \in SessionRow /\ row.via = r.via /\ row.at = "end" /\ row.in = r.in /\ row.said = r.said /\ row.day = on
  BY <1>2, <1>5, <1>7 DEF SessionRow
<1>9. Booked(row)  BY <1>3, <1>8 DEF Booked, Told
<1> QED BY <1>4, <1>9, RowWritten DEF ReportInv

\* Relays.
LEMMA RelayWritten ==
  ASSUME ReportInv, NEW b \in Ids, NEW s, bridged' = [bridged EXCEPT ![b] = s],
         s # Absent => s \in RelayRow /\ s.day \in 1..today, UNCHANGED <<today, booked, posts>>
  PROVE  ReportInv'
<1>1. /\ DOMAIN bridged' = Ids /\ bridged'[b] = s
      /\ \A c \in Ids : c # b => bridged'[c] = bridged[c]
  BY DEF ReportInv
<1>2. ASSUME NEW c \in Bridges' PROVE bridged'[c] \in RelayRow' /\ bridged'[c].day \in 1..today'
  BY <1>1, <1>2 DEF ReportInv, Bridges, RelayRow
<1>3. \A i \in Rows' : Booked(booked[i])'  BY DEF ReportInv, Rows, Booked, Told
<1> QED BY <1>1, <1>2, <1>3 DEF ReportInv

LEMMA RelayKeeps ==
  ASSUME ReportInv, NEW b \in Ids, NEW use \in Uses, RelaySession(b, use) PROVE ReportInv'
<1>1. PICK s : s = [at |-> "active", agent |-> use[1], by |-> use[2], cost |-> 0, day |-> today, failed |-> FALSE]
  OBVIOUS
<1>2. use[1] \in Agents /\ use[2] \in People /\ today \in Nat /\ today \in 1..today
  BY ReportsAssumption DEF ReportInv
<1>3. PICK no : no = FALSE  OBVIOUS
<1>4. s = [at |-> "active", agent |-> use[1], by |-> use[2], cost |-> 0, day |-> today, failed |-> no]
  BY <1>1, <1>3, Zenon
<1>5. no \in BOOLEAN  BY <1>3
<1>6. s \in RelayRow /\ s.day = today  BY <1>2, <1>4, <1>5 DEF RelayRow
<1>7. bridged' = [bridged EXCEPT ![b] = s] /\ UNCHANGED <<today, booked, posts>>
  BY <1>1, Zenon DEF RelaySession
<1> QED BY <1>2, <1>6, <1>7, RelayWritten

LEMMA PriceKeeps ==
  ASSUME ReportInv, NEW b \in Bridges, NEW c \in SessionCosts, PriceRelay(b, c) PROVE ReportInv'
<1>1. PICK s : s = bridged[b]  OBVIOUS
<1>2. s \in RelayRow /\ s.day \in 1..today /\ b \in Ids /\ c \in Nat
  BY <1>1, ReportsAssumption DEF ReportInv, Bridges
<1>3. PICK failed \in BOOLEAN :
        bridged' = [bridged EXCEPT ![b].at = "priced", ![b].cost = c, ![b].failed = failed]
  BY Zenon DEF PriceRelay
<1>4. PICK one : one = [s EXCEPT !.at = "priced"]  OBVIOUS
<1>5. PICK two : two = [one EXCEPT !.cost = c]  OBVIOUS
<1>6. PICK row : row = [two EXCEPT !.failed = failed]  OBVIOUS
<1>7. bridged' = [bridged EXCEPT ![b] = row]
  BY <1>1, <1>2, <1>3, <1>4, <1>5, <1>6 DEF ReportInv
<1>8. one \in RelayRow /\ one.day = s.day  BY <1>2, <1>4 DEF RelayRow
<1>9. two \in RelayRow /\ two.day = s.day  BY <1>2, <1>5, <1>8 DEF RelayRow
<1>10. row \in RelayRow /\ row.day = s.day  BY <1>6, <1>9 DEF RelayRow
<1> QED BY <1>2, <1>7, <1>10, RelayWritten DEF PriceRelay

LEMMA BillKeeps ==
  ASSUME ReportInv, NEW b \in Bridges, NEW i \in Ids, BillRelay(b, i) PROVE ReportInv'
<1>1. PICK s : s = bridged[b]  OBVIOUS
<1>2. s \in RelayRow /\ s.day \in 1..today /\ b \in Ids /\ s.agent \in Agents /\ s.by \in People /\ s.cost \in Nat
  BY <1>1 DEF ReportInv, Bridges, RelayRow
<1>3. PICK next : next = [s EXCEPT !.at = "billed"]  OBVIOUS
<1>4. next \in RelayRow /\ next.day = s.day  BY <1>2, <1>3 DEF RelayRow
<1>5. PICK r : r = NewRow("relay", <<s.agent, s.by>>)  OBVIOUS
<1>6. <<s.agent, s.by>> \in Agents \X People /\ <<s.agent, s.by>>[1] = s.agent  BY <1>2
<1>7. r \in SessionRow /\ r.via = "relay" /\ r.said = 0 /\ r.in = Absent /\ r.day = today /\ r.agent = s.agent
  BY <1>5, <1>6, NewRowHolds
<1>8. PICK status \in Statuses : status = IF s.failed THEN "error" ELSE "success"  BY DEF Statuses
<1>9. PICK row : row = [r EXCEPT !.payer = MakerOf[s.agent], !.model = "remote-bridge",
                          !.status = status, !.cost = s.cost, !.at = "end"]
  OBVIOUS
<1>10. /\ bridged' = [bridged EXCEPT ![b] = next]
       /\ booked' = [booked EXCEPT ![i] = row]
       /\ UNCHANGED <<today, posts>>
  BY <1>1, <1>3, <1>5, <1>8, <1>9, Zenon DEF BillRelay
<1>11. PICK one : one = Changed(r, status, s.cost, "end")  OBVIOUS
<1>12. PICK two : two = [one EXCEPT !.payer = MakerOf[s.agent]]  OBVIOUS
<1>13. row = [two EXCEPT !.model = "remote-bridge"]
  BY <1>7, <1>9, <1>11, <1>12 DEF Changed, SessionRow
<1>14. one \in SessionRow /\ one.at = "end" /\ one.via = r.via /\ one.in = r.in /\ one.said = r.said
       /\ one.day = r.day /\ one.agent = r.agent
  <2>1. "end" \in Stages  BY DEF Stages
  <2>2. one \in SessionRow  BY <1>2, <1>7, <1>8, <1>11, <2>1, EndHolds
  <2>3. one.at = "end" /\ one.via = r.via /\ one.in = r.in /\ one.said = r.said /\ one.day = r.day
        /\ one.agent = r.agent
    BY <1>2, <1>7, <1>8, <1>11, <2>1, EndHolds
  <2> QED BY <2>2, <2>3
<1>15. MakerOf[s.agent] \in People  BY <1>2, ReportsAssumption
<1>16. two \in SessionRow /\ two.at = "end" /\ two.via = r.via /\ two.in = r.in /\ two.said = r.said
       /\ two.day = r.day /\ two.agent = r.agent /\ two.payer = MakerOf[s.agent]
  BY <1>12, <1>14, <1>15 DEF SessionRow
<1>17. row \in SessionRow /\ row.at = "end" /\ row.via = r.via /\ row.in = r.in /\ row.said = r.said
       /\ row.day = r.day /\ row.agent = r.agent /\ row.payer = MakerOf[s.agent]
  BY <1>13, <1>16 DEF SessionRow
<1>18. Booked(row)  BY <1>7, <1>17 DEF Booked, Told, ReportInv
<1>19. \A c \in Bridges' : bridged'[c] \in RelayRow /\ bridged'[c].day \in 1..today
  BY <1>2, <1>4, <1>10 DEF ReportInv, Bridges
<1>20. \A k \in Rows' : booked'[k] = row \/ (k \in Rows /\ booked'[k] = booked[k])
  BY <1>10 DEF ReportInv, Rows
<1>21. \A k \in Rows' : Booked(booked'[k])  BY <1>18, <1>20 DEF ReportInv
<1>22. \A k \in Rows' : Booked(booked[k])'  BY <1>10, <1>21 DEF Booked, Told
<1>23. DOMAIN booked' = Ids /\ DOMAIN bridged' = Ids  BY <1>10 DEF ReportInv
<1> QED BY <1>10, <1>19, <1>22, <1>23 DEF ReportInv, RelayRow

\* What is removed.
LEMMA RemovalKeeps == ASSUME ReportInv, NEW i \in Rows, RemoveTrace(i) PROVE ReportInv'
<1>1. i \in Ids /\ booked' = [booked EXCEPT ![i] = Absent] /\ UNCHANGED <<today, bridged, posts>>
  BY DEF RemoveTrace, Write, Rows
<1>2. PICK row : row = Absent  OBVIOUS
<1> QED BY <1>1, <1>2, RowWritten DEF ReportInv

LEMMA NodeRemovalKeeps == ASSUME ReportInv, NEW u \in People, RemoveNode(u) PROVE ReportInv'
<1>1. DOMAIN bridged' = Ids /\ \A b \in Ids : bridged'[b] = Absent \/ bridged'[b] = bridged[b]
  BY DEF RemoveNode
<1>2. \A c \in Bridges' : bridged'[c] \in RelayRow /\ bridged'[c].day \in 1..today
  BY <1>1 DEF ReportInv, Bridges
<1>3. UNCHANGED <<today, booked, posts>>  BY DEF RemoveNode
<1>4. \A i \in Rows' : Booked(booked[i])'  BY <1>3 DEF ReportInv, Rows, Booked, Told
<1> QED BY <1>1, <1>2, <1>3, <1>4 DEF ReportInv, RelayRow

LEMMA ConversationRemovalKeeps ==
  ASSUME ReportInv, NEW u \in People, NEW place \in {"alone", "tab"}, RemoveConversation(u, place) PROVE ReportInv'
<1> DEFINE apart(i) == [booked[i] EXCEPT !.in = Absent, !.said = 0]
<1>0. /\ booked' = [i \in Ids |-> IF i \in Rows /\ booked[i].owner = u /\ booked[i].in = place
                                  THEN apart(i) ELSE booked[i]]
      /\ UNCHANGED <<today, bridged, posts>>
  BY Zenon DEF RemoveConversation
<1> HIDE DEF apart
<1>1. /\ DOMAIN booked' = Ids
      /\ \A i \in Ids : booked'[i] = booked[i] \/ (i \in Rows /\ booked'[i] = apart(i))
  BY <1>0
<1>2. UNCHANGED <<today, bridged, posts>>  BY <1>0
<1>3. ASSUME NEW i \in Rows' PROVE Booked(booked'[i])
  <2>1. CASE booked'[i] = booked[i]  BY <1>3, <2>1 DEF ReportInv, Rows
  <2>2. CASE i \in Rows /\ booked'[i] = apart(i)
    <3>1. PICK r : r = booked[i]  OBVIOUS
    <3>2. Booked(r) /\ r \in SessionRow  BY <2>2, <3>1 DEF ReportInv, Booked
    <3>3. PICK one : one = [r EXCEPT !.in = Absent]  OBVIOUS
    <3>4. PICK two : two = [one EXCEPT !.said = 0]  OBVIOUS
    <3>5. booked'[i] = two  BY <2>2, <3>1, <3>3, <3>4 DEF apart
    <3>6. one \in SessionRow /\ one.in = Absent /\ one.via = r.via /\ one.at = r.at /\ one.day = r.day /\ one.agent = r.agent
          /\ one.payer = r.payer
      BY <3>2, <3>3 DEF SessionRow
    <3>7. two \in SessionRow /\ two.in = Absent /\ two.via = r.via /\ two.at = r.at /\ two.day = r.day /\ two.agent = r.agent
          /\ two.payer = r.payer /\ two.said = 0
      BY <3>4, <3>6 DEF SessionRow
    <3> QED BY <3>2, <3>5, <3>7 DEF Booked, Told
  <2> QED BY <1>1, <1>3, <2>1, <2>2 DEF Rows
<1>4. \A i \in Rows' : Booked(booked[i])'  BY <1>2, <1>3 DEF Booked, Told
<1> QED BY <1>1, <1>2, <1>4 DEF ReportInv, Bridges, RelayRow

LEMMA DayKeeps == ASSUME ReportInv, NextDay PROVE ReportInv'
<1>1. today' = today + 1 /\ today' \in 1..MaxDay /\ UNCHANGED <<booked, bridged, posts>>
  BY ReportsAssumption DEF NextDay, ReportInv
<1>2. \A d \in 1..today : d \in 1..today'  BY <1>1 DEF ReportInv
<1>3. \A i \in Rows : Booked(booked[i])'  BY <1>1, <1>2 DEF ReportInv, Booked, Told
<1> QED BY <1>1, <1>2, <1>3 DEF ReportInv, Rows, Bridges, RelayRow

LEMMA ReportsStart == ASSUME InitReports PROVE ReportInv
<1>1. Rows = {} /\ Bridges = {}  BY DEF InitReports, Rows, Bridges
<1>2. today \in 1..MaxDay /\ posts \in 0..MaxPosts  BY ReportsAssumption DEF InitReports
<1> QED BY <1>1, <1>2 DEF InitReports, ReportInv

LEMMA ReportsStep == ASSUME ReportInv, [NextReports]_reportVars PROVE ReportInv'
<1>1. CASE UNCHANGED reportVars
  <2>1. UNCHANGED <<today, booked, bridged, posts>>  BY <1>1 DEF reportVars
  <2>2. \A i \in Rows' : Booked(booked[i])'  BY <2>1 DEF ReportInv, Rows, Booked, Told
  <2> QED BY <2>1, <2>2 DEF ReportInv, Bridges, RelayRow
<1>2. CASE NextReports
  <2>1. CASE NextDay  BY <2>1, DayKeeps
  <2>2. ASSUME NEW use \in Uses, NEW i \in Ids,
               \/ \E via \in {"chat", "master", "gateway", "proxy"} : Book(i, via, use)
               \/ \E c \in SessionCosts, s \in {"success", "running"}, on \in 1..today :
                    ImportSession(i, use, s, c, on)
               \/ RelaySession(i, use)
        PROVE  ReportInv'
    BY <2>2, BookKeeps, ImportKeeps, RelayKeeps
  <2>3. ASSUME NEW i \in Rows,
               \/ Mention(i) \/ ChargeMaker(i) \/ RemoveTrace(i)
               \/ \E c \in SessionCosts : Finalize(i, c) \/ PostEvent(i, c)
        PROVE  ReportInv'
    BY <2>3, MentionKeeps, ChargeKeeps, RemovalKeeps, FinalizeKeeps, EventKeeps
  <2>4. ASSUME NEW b \in Bridges, (\E c \in SessionCosts : PriceRelay(b, c)) \/ \E i \in Ids : BillRelay(b, i)
        PROVE  ReportInv'
    BY <2>4, PriceKeeps, BillKeeps
  <2>5. ASSUME NEW u \in People, RemoveNode(u) \/ \E place \in {"alone", "tab"} : RemoveConversation(u, place)
        PROVE  ReportInv'
    BY <2>5, NodeRemovalKeeps, ConversationRemovalKeeps
  <2> QED BY <1>2, <2>1, <2>2, <2>3, <2>4, <2>5, Zenon DEF NextReports
<1> QED BY <1>1, <1>2

LEMMA ReportInvariant == SpecReports => []ReportInv
<1>1. InitReports => ReportInv  BY ReportsStart
<1>2. ReportInv /\ [NextReports]_reportVars => ReportInv'  BY ReportsStep
<1> QED BY <1>1, <1>2, PTL DEF SpecReports

\* The sessions and relays that the reports are made from have their types: a session has an agent,
\* an owner and at most one other who pays, its cost is an amount, and no session is of a day to
\* come (CostReports).
THEOREM ReportsTypeCorrect == SpecReports => []ReportsTypeOK
<1>1. ReportInv => ReportsTypeOK  BY DEF ReportInv, Booked, SessionRow, RelayRow, ReportsTypeOK
<1> QED BY <1>1, ReportInvariant, PTL

----------------------------------------------------------------------------
(* Sums of costs.                                                          *)

\* What every report adds up.
Costs == [i \in Rows |-> booked[i].cost]
RelayCosts == [b \in Bridges |-> bridged[b].cost]

LEMMA RowsFinite ==
  ASSUME ReportInv
  PROVE  /\ IsFiniteSet(Rows) /\ \A i \in Rows : Costs[i] \in Nat
         /\ IsFiniteSet(Bridges) /\ \A b \in Bridges : RelayCosts[b] \in Nat
<1>1. Rows \subseteq Ids /\ Bridges \subseteq Ids  BY DEF Rows, Bridges
<1>2. IsFiniteSet(Rows) /\ IsFiniteSet(Bridges)  BY <1>1, ReportsAssumption, FS_Subset
<1> QED BY <1>2 DEF ReportInv, Costs, RelayCosts, Booked, SessionRow, RelayRow

LEMMA CostIs ==
  ASSUME ReportInv, NEW S \in SUBSET Rows
  PROVE  IsFiniteSet(S) /\ Cost(S) = SumFunctionOnSet(Costs, S) /\ Cost(S) \in Nat
<1> DEFINE f == [i \in S |-> booked[i].cost]
<1>1. IsFiniteSet(S)  BY RowsFinite, FS_Subset
<1>2. \A i \in S : f[i] = Costs[i]  BY DEF Costs
<1>3. \A i \in S : Costs[i] \in Nat  BY RowsFinite
<1>4. DOMAIN f = S /\ Cost(S) = SumFunction(f)  BY DEF Cost
<1> HIDE DEF f
<1>5. Cost(S) = SumFunctionOnSet(f, S)  BY <1>4 DEF SumFunction
<1>6. SumFunctionOnSet(f, S) = SumFunctionOnSet(Costs, S)  BY <1>1, <1>2, SumSame
<1>7. SumFunctionOnSet(Costs, S) \in Nat  BY <1>1, <1>3, SumNat
<1> QED BY <1>1, <1>5, <1>6, <1>7

LEMMA BridgeCostIs ==
  ASSUME ReportInv, NEW S \in SUBSET Bridges
  PROVE  IsFiniteSet(S) /\ BridgeCost(S) = SumFunctionOnSet(RelayCosts, S) /\ BridgeCost(S) \in Nat
<1> DEFINE f == [b \in S |-> bridged[b].cost]
<1>1. IsFiniteSet(S)  BY RowsFinite, FS_Subset
<1>2. \A b \in S : f[b] = RelayCosts[b]  BY DEF RelayCosts
<1>3. \A b \in S : RelayCosts[b] \in Nat  BY RowsFinite
<1>4. DOMAIN f = S /\ BridgeCost(S) = SumFunction(f)  BY DEF BridgeCost
<1> HIDE DEF f
<1>5. BridgeCost(S) = SumFunctionOnSet(f, S)  BY <1>4 DEF SumFunction
<1>6. SumFunctionOnSet(f, S) = SumFunctionOnSet(RelayCosts, S)  BY <1>1, <1>2, SumSame
<1>7. SumFunctionOnSet(RelayCosts, S) \in Nat  BY <1>1, <1>3, SumNat
<1> QED BY <1>1, <1>5, <1>6, <1>7

LEMMA NoCost == ASSUME ReportInv PROVE Cost({}) = 0 /\ BridgeCost({}) = 0
<1>1. {} \in SUBSET Rows /\ {} \in SUBSET Bridges  OBVIOUS
<1> QED BY <1>1, CostIs, BridgeCostIs, SumEmpty

\* A part costs no more than the whole ...
LEMMA CostOfPart ==
  ASSUME ReportInv, NEW S \in SUBSET Rows, NEW T \in SUBSET S PROVE Cost(T) <= Cost(S)
<1>1. T \in SUBSET Rows  OBVIOUS
<1>2. \A i \in S : Costs[i] \in Nat  BY RowsFinite
<1>3. IsFiniteSet(S)  BY CostIs
<1>4. SumFunctionOnSet(Costs, T) <= SumFunctionOnSet(Costs, S)  BY <1>2, <1>3, SumOfPart
<1> QED BY <1>1, <1>4, CostIs

LEMMA BridgeCostOfPart ==
  ASSUME ReportInv, NEW S \in SUBSET Bridges, NEW T \in SUBSET S PROVE BridgeCost(T) <= BridgeCost(S)
<1>1. T \in SUBSET Bridges  OBVIOUS
<1>2. \A b \in S : RelayCosts[b] \in Nat  BY RowsFinite
<1>3. IsFiniteSet(S)  BY BridgeCostIs
<1>4. SumFunctionOnSet(RelayCosts, T) <= SumFunctionOnSet(RelayCosts, S)  BY <1>2, <1>3, SumOfPart
<1> QED BY <1>1, <1>4, BridgeCostIs

\* ... and what is left of the whole.
LEMMA CostOfRest ==
  ASSUME ReportInv, NEW S \in SUBSET Rows, NEW T \in SUBSET S PROVE Cost(S) = Cost(T) + Cost(S \ T)
<1>1. PICK rest : rest = S \ T  OBVIOUS
<1>2. T \in SUBSET Rows /\ rest \in SUBSET Rows /\ T \cap rest = {} /\ S = T \cup rest  BY <1>1
<1>3. \A i \in T \cup rest : Costs[i] \in Int  BY <1>2, RowsFinite
<1>4. IsFiniteSet(T) /\ IsFiniteSet(rest)  BY <1>2, CostIs
<1>5. SumFunctionOnSet(Costs, T \cup rest) = SumFunctionOnSet(Costs, T) + SumFunctionOnSet(Costs, rest)
  BY <1>2, <1>3, <1>4, SumUnion
<1> QED BY <1>1, <1>2, <1>5, CostIs

\* Group by group.
LEMMA CostByGroup ==
  ASSUME ReportInv, NEW S \in SUBSET Rows, NEW T, IsFiniteSet(T), NEW part, Divides(part, T, S),
         NEW h, \A t \in T : h[t] = Cost(part[t])
  PROVE  Cost(S) = SumFunctionOnSet(h, T)
<1>1. \A t \in T : part[t] \in SUBSET Rows  BY DEF Divides
<1>2. \A t \in T : h[t] = SumFunctionOnSet(Costs, part[t])  BY <1>1, CostIs
<1>3. \A i \in S : Costs[i] \in Int  BY RowsFinite
<1>4. IsFiniteSet(S)  BY CostIs
<1>5. SumFunctionOnSet(Costs, S) = SumFunctionOnSet(h, T)  BY <1>2, <1>3, <1>4, SumByGroup
<1> QED BY <1>5, CostIs

LEMMA BridgeCostByGroup ==
  ASSUME ReportInv, NEW S \in SUBSET Bridges, NEW T, IsFiniteSet(T), NEW part, Divides(part, T, S),
         NEW h, \A t \in T : h[t] = BridgeCost(part[t])
  PROVE  BridgeCost(S) = SumFunctionOnSet(h, T)
<1>1. \A t \in T : part[t] \in SUBSET Bridges  BY DEF Divides
<1>2. \A t \in T : h[t] = SumFunctionOnSet(RelayCosts, part[t])  BY <1>1, BridgeCostIs
<1>3. \A b \in S : RelayCosts[b] \in Int  BY RowsFinite
<1>4. IsFiniteSet(S)  BY BridgeCostIs
<1>5. SumFunctionOnSet(RelayCosts, S) = SumFunctionOnSet(h, T)  BY <1>2, <1>3, <1>4, SumByGroup
<1> QED BY <1>5, BridgeCostIs

\* The values of a field are as few as the rows, and each row is in the group of its value.
LEMMA GroupsOfField ==
  ASSUME NEW S, IsFiniteSet(S), NEW field
  PROVE  /\ IsFiniteSet(Values(field, S))
         /\ Divides([v \in Values(field, S) |-> Of(field, v, S)], Values(field, S), S)
<1> DEFINE f == [i \in S |-> booked[i][field]]
           part == [v \in Values(field, S) |-> Of(field, v, S)]
<1>1. \A i \in S : f[i] \in Values(field, S)  BY DEF Values
<1>2. \A v \in Values(field, S) : \E i \in S : v = f[i]  BY DEF Values
<1>3. \A v \in Values(field, S) : part[v] = Of(field, v, S)  OBVIOUS
<1> HIDE DEF f
<1>4. IsFiniteSet(Values(field, S))  BY <1>1, <1>2, FiniteImage
<1>5. Divides(part, Values(field, S), S)
  <2> HIDE DEF part
  <2>1. \A v \in Values(field, S) : \A i \in S : i \in part[v] <=> booked[i][field] = v  BY <1>3 DEF Of
  <2>2. \A v \in Values(field, S) : part[v] \subseteq S  BY <1>3 DEF Of
  <2>3. \A i \in S : booked[i][field] \in Values(field, S)  BY DEF Values
  <2> QED BY <2>1, <2>2, <2>3 DEF Divides
<1> QED BY <1>4, <1>5

LEMMA GroupsAddUp ==
  ASSUME ReportInv, NEW S \in SUBSET Rows, NEW field
  PROVE  Cost(S) = SumFunction(GroupBy(field, S))
<1>1. PICK T : T = Values(field, S)  OBVIOUS
<1>2. PICK part : part = [v \in T |-> Of(field, v, S)]  OBVIOUS
<1>3. PICK h : h = GroupBy(field, S)  OBVIOUS
<1>4. DOMAIN h = T /\ \A v \in T : h[v] = Cost(part[v])  BY <1>1, <1>2, <1>3 DEF GroupBy
<1>5. IsFiniteSet(T) /\ Divides(part, T, S)
  <2>1. IsFiniteSet(S)  BY CostIs
  <2> QED BY <1>1, <1>2, <2>1, GroupsOfField
<1>6. Cost(S) = SumFunctionOnSet(h, T)  BY <1>4, <1>5, CostByGroup
<1> QED BY <1>3, <1>4, <1>6 DEF SumFunction

----------------------------------------------------------------------------
(* The billing pages.                                                      *)

LEMMA RangesAreRows ==
  ASSUME NEW from, NEW to PROVE RowsWithin(from, to) \in SUBSET Rows /\ BridgesWithin(from, to) \in SUBSET Bridges
BY DEF RowsWithin, BridgesWithin

\* Agents make up the total of their sessions and relays.
LEMMA AgentsAddUp ==
  ASSUME ReportInv, NEW from, NEW to, NEW agents, agents = getByAgent(from, to)
  PROVE  getSummary(from, to).total = SumFunction([a \in DOMAIN agents |-> agents[a].cost])
<1>1. PICK R : R = RowsWithin(from, to)  OBVIOUS
<1>2. PICK B : B = BridgesWithin(from, to)  OBVIOUS
<1>3. R \in SUBSET Rows /\ B \in SUBSET Bridges  BY <1>1, <1>2, RangesAreRows
<1>4. PICK rows : rows = [a \in Agents |-> Of("agent", a, R)]  OBVIOUS
<1>5. PICK relays : relays = [a \in Agents |-> {b \in B : bridged[b].agent = a}]  OBVIOUS
<1>6. PICK A : A = {a \in Agents : rows[a] \cup relays[a] # {}}  OBVIOUS
<1>7. PICK f : f = [a \in A |-> Cost(rows[a])]  OBVIOUS
<1>8. PICK g : g = [a \in A |-> BridgeCost(relays[a])]  OBVIOUS
<1>9. PICK h : h = [a \in DOMAIN agents |-> agents[a].cost]  OBVIOUS
<1>10. A \subseteq Agents /\ IsFiniteSet(A)  BY <1>6, ReportsAssumption, FS_Subset
<1>11. agents = [a \in A |-> [cost |-> MergedCost(a, rows[a], relays[a]),
                              sessions |-> Cardinality(rows[a]) + Cardinality(relays[a])]]
  BY <1>1, <1>2, <1>4, <1>5, <1>6 DEF getByAgent
<1>12. DOMAIN h = A /\ \A a \in A : h[a] = Cost(rows[a]) + BridgeCost(relays[a])
  BY <1>9, <1>11 DEF MergedCost
<1>13. \A a \in A : rows[a] \in SUBSET Rows /\ relays[a] \in SUBSET Bridges
  BY <1>3, <1>4, <1>5, <1>10 DEF Of
<1>14. \A a \in A : f[a] \in Int /\ g[a] \in Int /\ h[a] = f[a] + g[a]
  <2>1. ASSUME NEW a \in A PROVE Cost(rows[a]) \in Nat /\ BridgeCost(relays[a]) \in Nat
    BY <1>13, CostIs, BridgeCostIs
  <2> QED BY <1>7, <1>8, <1>12, <2>1
<1>15. SumFunctionOnSet(h, A) = SumFunctionOnSet(f, A) + SumFunctionOnSet(g, A)
  BY <1>10, <1>14, SumPlus
<1>16. Cost(R) = SumFunctionOnSet(f, A)
  <2>1. \A i \in R : booked[i].agent \in Agents  BY <1>3 DEF ReportInv, Booked, SessionRow
  <2>2. \A a \in Agents : \A i \in R : i \in rows[a] <=> booked[i].agent = a  BY <1>4 DEF Of
  <2>3. \A a \in A : rows[a] \subseteq R  BY <1>4, <1>10 DEF Of
  <2>4. \A i \in R : booked[i].agent \in A  BY <1>6, <2>1, <2>2
  <2>5. Divides(rows, A, R)  BY <1>10, <2>2, <2>3, <2>4 DEF Divides
  <2>6. \A a \in A : f[a] = Cost(rows[a])  BY <1>7
  <2> QED BY <1>3, <1>10, <2>5, <2>6, CostByGroup
<1>17. BridgeCost(B) = SumFunctionOnSet(g, A)
  <2>1. \A b \in B : bridged[b].agent \in Agents  BY <1>3 DEF ReportInv, RelayRow
  <2>2. \A a \in Agents : \A b \in B : b \in relays[a] <=> bridged[b].agent = a  BY <1>5
  <2>3. \A a \in A : relays[a] \subseteq B  BY <1>5, <1>10
  <2>4. \A b \in B : bridged[b].agent \in A  BY <1>6, <2>1, <2>2
  <2>5. Divides(relays, A, B)  BY <1>10, <2>2, <2>3, <2>4 DEF Divides
  <2>6. \A a \in A : g[a] = BridgeCost(relays[a])  BY <1>8
  <2> QED BY <1>3, <1>10, <2>5, <2>6, BridgeCostByGroup
<1>18. getSummary(from, to).total = Cost(R) + BridgeCost(B)  BY <1>1, <1>2 DEF getSummary
<1> QED BY <1>9, <1>12, <1>15, <1>16, <1>17, <1>18 DEF SumFunction

\* Users make up the total of the sessions ...
LEMMA UsersAddUp ==
  ASSUME ReportInv, NEW from, NEW to, NEW users, users = getByEmployee(from, to)
  PROVE  Cost(RowsWithin(from, to)) = SumFunction([u \in DOMAIN users |-> users[u].cost])
<1>1. PICK R : R = RowsWithin(from, to)  OBVIOUS
<1>2. R \in SUBSET Rows  BY <1>1, RangesAreRows
<1>3. PICK h : h = [u \in DOMAIN users |-> users[u].cost]  OBVIOUS
<1>4. users = [u \in Values("owner", R) |->
                 [cost |-> Cost(Of("owner", u, R)), agents |-> Cardinality(Values("agent", Of("owner", u, R)))]]
  BY <1>1 DEF getByEmployee
<1>5. h = GroupBy("owner", R)  BY <1>3, <1>4 DEF GroupBy
<1> QED BY <1>1, <1>2, <1>3, <1>5, GroupsAddUp

\* ... and so do models ...
LEMMA ModelsAddUp ==
  ASSUME ReportInv, NEW from, NEW to, NEW models, models = getByModel(from, to)
  PROVE  Cost(RowsWithin(from, to)) = SumFunction([m \in DOMAIN models |-> models[m].cost])
<1>1. PICK R : R = RowsWithin(from, to)  OBVIOUS
<1>2. R \in SUBSET Rows /\ IsFiniteSet(R)  BY <1>1, RangesAreRows, CostIs
<1>3. PICK h : h = [m \in DOMAIN models |-> models[m].cost]  OBVIOUS
<1>4. PICK T : T = {ModelOf[booked[i].agent] : i \in R}  OBVIOUS
<1>5. PICK rows : rows = [m \in T |-> {i \in R : ModelOf[booked[i].agent] = m}]  OBVIOUS
<1>6. models = [m \in T |-> [cost |-> Cost(rows[m]), sessions |-> Cardinality(rows[m])]]
  BY <1>1, <1>4, <1>5 DEF getByModel
<1>7. DOMAIN h = T /\ \A m \in T : h[m] = Cost(rows[m])  BY <1>3, <1>6
<1>8. IsFiniteSet(T)
  <2>1. PICK f : f = [i \in R |-> ModelOf[booked[i].agent]]  OBVIOUS
  <2>2. (\A i \in R : f[i] \in T) /\ \A m \in T : \E i \in R : m = f[i]  BY <1>4, <2>1
  <2> QED BY <1>2, <2>2, FiniteImage
<1>9. Divides(rows, T, R)
  <2>1. \A m \in T : \A i \in R : i \in rows[m] <=> ModelOf[booked[i].agent] = m  BY <1>5
  <2>2. \A m \in T : rows[m] \subseteq R  BY <1>5
  <2>3. \A i \in R : ModelOf[booked[i].agent] \in T  BY <1>4
  <2> QED BY <2>1, <2>2, <2>3 DEF Divides
<1>10. Cost(R) = SumFunctionOnSet(h, T)  BY <1>2, <1>7, <1>8, <1>9, CostByGroup
<1> QED BY <1>1, <1>3, <1>7, <1>10 DEF SumFunction

\* ... and the lines of the export.
LEMMA LinesAddUp ==
  ASSUME ReportInv, NEW from, NEW to
  PROVE  Cost(RowsWithin(from, to)) = SumFunction([l \in getExportCsv(from, to) |-> l[5]])
<1>1. PICK R : R = RowsWithin(from, to)  OBVIOUS
<1>2. R \in SUBSET Rows /\ IsFiniteSet(R)  BY <1>1, RangesAreRows, CostIs
<1>3. PICK line : line = [i \in R |-> <<i, booked[i].day, booked[i].agent, ModelOf[booked[i].agent], booked[i].cost>>]
  OBVIOUS
<1>4. PICK T : T = getExportCsv(from, to)  OBVIOUS
<1>5. PICK f : f = [l \in T |-> l[5]]  OBVIOUS
<1>6. T = {line[i] : i \in R}  BY <1>1, <1>3, <1>4 DEF getExportCsv
<1>7. \A i \in R : line[i][1] = i /\ line[i][5] = booked[i].cost  BY <1>3
<1>8. Pairs(line, R, T)  BY <1>6, <1>7 DEF Pairs
<1>9. IsFiniteSet(T)  BY <1>2, <1>6, FiniteImage
<1>10. \A i \in R : Costs[i] = f[line[i]] /\ Costs[i] \in Int
  BY <1>2, <1>5, <1>6, <1>7, RowsFinite DEF Costs
<1>11. \A l \in T : f[l] \in Int  BY <1>6, <1>10
<1>12. SumFunctionOnSet(f, T) = SumFunctionOnSet(Costs, R)  BY <1>2, <1>8, <1>9, <1>10, <1>11, SumImage
<1> QED BY <1>1, <1>2, <1>4, <1>5, <1>12, CostIs DEF SumFunction

\* What the summary says of a month is its invoice and its relays.
LEMMA MonthsAddUp ==
  ASSUME ReportInv, NEW invoices, invoices = getInvoices, NEW m
  PROVE  Cost({i \in Rows : Month(booked[i].day) = m}) = IF m \in DOMAIN invoices THEN invoices[m].cost ELSE 0
<1>1. PICK rows : rows = {i \in Rows : Month(booked[i].day) = m}  OBVIOUS
<1>2. m \notin DOMAIN invoices => rows = {}  BY <1>1 DEF getInvoices
<1>3. m \in DOMAIN invoices => invoices[m].cost = Cost(rows)  BY <1>1 DEF getInvoices
<1> QED BY <1>1, <1>2, <1>3, NoCost

LEMMA BillingFollows == ASSUME ReportInv PROVE BillingAgrees
<1>1. ASSUME NEW range \in Ranges
      PROVE  LET from == range[1]  to == range[2]
                 total == getSummary(from, to).total  bridge == BridgeCost(BridgesWithin(from, to))
                 agents == getByAgent(from, to)  users == getByEmployee(from, to)  models == getByModel(from, to) IN
             /\ total = SumFunction([a \in DOMAIN agents |-> agents[a].cost])
             /\ Answers(from, to) =>
                  /\ total = bridge + SumFunction([u \in DOMAIN users |-> users[u].cost])
                  /\ total = bridge + SumFunction([m \in DOMAIN models |-> models[m].cost])
                  /\ total = bridge + SumFunction([l \in getExportCsv(from, to) |-> l[5]])
  <2>1. PICK from, to : from = range[1] /\ to = range[2]  OBVIOUS
  <2>2. PICK agents : agents = getByAgent(from, to)  OBVIOUS
  <2>3. PICK users : users = getByEmployee(from, to)  OBVIOUS
  <2>4. PICK models : models = getByModel(from, to)  OBVIOUS
  <2>5. getSummary(from, to).total = SumFunction([a \in DOMAIN agents |-> agents[a].cost])  BY <2>2, AgentsAddUp
  <2>6. Cost(RowsWithin(from, to)) = SumFunction([u \in DOMAIN users |-> users[u].cost])  BY <2>3, UsersAddUp
  <2>7. Cost(RowsWithin(from, to)) = SumFunction([m \in DOMAIN models |-> models[m].cost])  BY <2>4, ModelsAddUp
  <2>8. Cost(RowsWithin(from, to)) = SumFunction([l \in getExportCsv(from, to) |-> l[5]])  BY LinesAddUp
  <2>9. /\ getSummary(from, to).total = Cost(RowsWithin(from, to)) + BridgeCost(BridgesWithin(from, to))
        /\ Cost(RowsWithin(from, to)) \in Nat /\ BridgeCost(BridgesWithin(from, to)) \in Nat
    BY RangesAreRows, CostIs, BridgeCostIs DEF getSummary
  <2> QED BY <2>1, <2>2, <2>3, <2>4, <2>5, <2>6, <2>7, <2>8, <2>9
<1>2. PICK invoices : invoices = getInvoices  OBVIOUS
<1>3. PICK summary : summary = getSummary(Absent, Absent)  OBVIOUS
<1> DEFINE billed(m) == IF m \in DOMAIN invoices THEN invoices[m].cost ELSE 0
           relayed(m) == BridgeCost({b \in Bridges : Month(bridged[b].day) = m})
           MonthTotal(m) == Cost({i \in Rows : Month(booked[i].day) = m}) + relayed(m)
<1>4. summary.thisMonth = MonthTotal(Month(today))
      /\ (Month(today) # 0 => summary.lastMonth = MonthTotal(Month(today) - 1))
  BY <1>3 DEF getSummary
<1>5. \A m : MonthTotal(m) = billed(m) + relayed(m)  BY <1>2, MonthsAddUp
<1>6. summary.thisMonth = billed(Month(today)) + relayed(Month(today))
      /\ (Month(today) > 0 => summary.lastMonth = billed(Month(today) - 1) + relayed(Month(today) - 1))
  <2> HIDE DEF MonthTotal, billed, relayed
  <2>1. Month(today) \in Nat  BY ReportsAssumption DEF Month, ReportInv
  <2> QED BY <1>4, <1>5, <2>1
<1>7. LET invs == getInvoices  sum == getSummary(Absent, Absent)
          b(m) == IF m \in DOMAIN invs THEN invs[m].cost ELSE 0
          r(m) == BridgeCost({x \in Bridges : Month(bridged[x].day) = m}) IN
      /\ sum.thisMonth = b(Month(today)) + r(Month(today))
      /\ Month(today) > 0 => sum.lastMonth = b(Month(today) - 1) + r(Month(today) - 1)
  BY <1>2, <1>3, <1>6
<1> QED BY <1>1, <1>7 DEF BillingAgrees

----------------------------------------------------------------------------
(* Shared usage.                                                           *)

\* The rows of H are divided into those of each w of D ...
ShareOut(H, who, D, part) ==
  /\ (\A i \in H : who[i] \in D) /\ \A w \in D : \E i \in H : who[i] = w
  /\ (\A w \in D : part[w] \subseteq H) /\ \A w \in D : \A i \in H : i \in part[w] <=> who[i] = w

\* ... of which T and S have those with an x in place k.
InPlace(H, who, D, k, x, T, S) ==
  /\ T \subseteq D /\ \A w \in D : w \in T <=> w[k] = x
  /\ S \subseteq H /\ \A i \in H : i \in S <=> who[i][k] = x

\* Of some rows, reported under who uses whose agent, those that agree in one place.
LEMMA SharesAddUp ==
  ASSUME ReportInv, NEW H \in SUBSET Rows, NEW who, NEW D,
         NEW part, ShareOut(H, who, D, part), NEW f, \A w \in D : f[w] = Cost(part[w]),
         NEW k, NEW x, NEW T, NEW S, InPlace(H, who, D, k, x, T, S)
  PROVE  SumFunction([w \in T |-> f[w]]) = Cost(S)
<1>1. IsFiniteSet(H)  BY CostIs
<1>2. IsFiniteSet(D)  BY <1>1, FiniteImage DEF ShareOut
<1>3. IsFiniteSet(T)  BY <1>2, FS_Subset DEF InPlace
<1>4. \A w \in T : \A i \in H : i \in part[w] => i \in S
  <2>1. ASSUME NEW w \in T, NEW i \in H, i \in part[w] PROVE i \in S
    <3>1. w \in D /\ who[i] = w /\ w[k] = x  BY <2>1 DEF ShareOut, InPlace
    <3> QED BY <3>1 DEF InPlace
  <2> QED BY <2>1
<1>5. \A i \in S : who[i] \in T  BY DEF ShareOut, InPlace
<1>6. Divides(part, T, S)  BY <1>4, <1>5 DEF Divides, ShareOut, InPlace
<1>7. PICK h : h = [w \in T |-> f[w]]  OBVIOUS
<1>8. DOMAIN h = T /\ \A w \in T : h[w] = Cost(part[w])  BY <1>7 DEF InPlace
<1>9. S \in SUBSET Rows  BY DEF InPlace
<1>10. Cost(S) = SumFunctionOnSet(h, T)  BY <1>3, <1>6, <1>8, <1>9, CostByGroup
<1> QED BY <1>7, <1>8, <1>10 DEF SumFunction

LEMMA RelaySharesAddUp ==
  ASSUME ReportInv, NEW H \in SUBSET Bridges, NEW who, NEW D,
         NEW part, ShareOut(H, who, D, part), NEW f, \A w \in D : f[w] = BridgeCost(part[w]),
         NEW k, NEW x, NEW T, NEW S, InPlace(H, who, D, k, x, T, S)
  PROVE  SumFunction([w \in T |-> f[w]]) = BridgeCost(S)
<1>1. IsFiniteSet(H)  BY BridgeCostIs
<1>2. IsFiniteSet(D)  BY <1>1, FiniteImage DEF ShareOut
<1>3. IsFiniteSet(T)  BY <1>2, FS_Subset DEF InPlace
<1>4. \A w \in T : \A i \in H : i \in part[w] => i \in S
  <2>1. ASSUME NEW w \in T, NEW i \in H, i \in part[w] PROVE i \in S
    <3>1. w \in D /\ who[i] = w /\ w[k] = x  BY <2>1 DEF ShareOut, InPlace
    <3> QED BY <3>1 DEF InPlace
  <2> QED BY <2>1
<1>5. \A i \in S : who[i] \in T  BY DEF ShareOut, InPlace
<1>6. Divides(part, T, S)  BY <1>4, <1>5 DEF Divides, ShareOut, InPlace
<1>7. PICK h : h = [w \in T |-> f[w]]  OBVIOUS
<1>8. DOMAIN h = T /\ \A w \in T : h[w] = BridgeCost(part[w])  BY <1>7 DEF InPlace
<1>9. S \in SUBSET Bridges  BY DEF InPlace
<1>10. BridgeCost(S) = SumFunctionOnSet(h, T)  BY <1>3, <1>6, <1>8, <1>9, BridgeCostByGroup
<1> QED BY <1>7, <1>8, <1>10 DEF SumFunction

Here == {i \in Rows : booked[i].payer \notin {Absent, booked[i].owner}}
Who == [i \in Here |-> <<booked[i].owner, booked[i].agent, booked[i].payer>>]
There == {b \in Bridges : bridged[b].by # MakerOf[bridged[b].agent]}
Whose == [b \in There |-> <<bridged[b].by, bridged[b].agent, MakerOf[bridged[b].agent]>>]

LEMMA EverythingIsWithin == RowsWithin(Absent, Absent) = Rows /\ BridgesWithin(Absent, Absent) = Bridges
BY DEF RowsWithin, BridgesWithin, Within

LEMMA HereAddsUp ==
  ASSUME ReportInv, NEW k, NEW x, NEW f, f = getSharedUsage(Absent, Absent).here
  PROVE  SumFunction([w \in {v \in DOMAIN f : v[k] = x} |-> f[w]]) = Cost({i \in Here : Who[i][k] = x})
<1>1. PICK H : H = Here  OBVIOUS
<1>2. PICK who : who = Who  OBVIOUS
<1>3. H \in SUBSET Rows  BY <1>1 DEF Here
<1>4. PICK D : D = {who[i] : i \in H}  OBVIOUS
<1>5. PICK part : part = [w \in D |-> {i \in H : who[i] = w}]  OBVIOUS
<1>6. f = [w \in D |-> Cost(part[w])]
  <2>1. PICK r : r = RowsWithin(Absent, Absent)  OBVIOUS
  <2>2. H = {i \in r : booked[i].payer \notin {Absent, booked[i].owner}}
    BY <1>1, <2>1, EverythingIsWithin DEF Here
  <2>3. \A i \in H : who[i] = <<booked[i].owner, booked[i].agent, booked[i].payer>>  BY <1>1, <1>2 DEF Who
  <2>4. f = [w \in {<<booked[i].owner, booked[i].agent, booked[i].payer>> : i \in H} |->
               Cost({i \in H : <<booked[i].owner, booked[i].agent, booked[i].payer>> = w})]
    BY <2>1, <2>2 DEF getSharedUsage
  <2>5. D = {<<booked[i].owner, booked[i].agent, booked[i].payer>> : i \in H}  BY <1>4, <2>3
  <2>6. \A w : {i \in H : <<booked[i].owner, booked[i].agent, booked[i].payer>> = w} = {i \in H : who[i] = w}
    BY <2>3
  <2>7. f = [w \in D |-> Cost({i \in H : who[i] = w})]  BY <2>4, <2>5, <2>6
  <2> QED BY <1>5, <2>7
<1>7. PICK T : T = {v \in D : v[k] = x}  OBVIOUS
<1>8. PICK S : S = {i \in H : who[i][k] = x}  OBVIOUS
<1>9. ShareOut(H, who, D, part)  BY <1>4, <1>5 DEF ShareOut
<1>11. \A w \in D : f[w] = Cost(part[w])  BY <1>6
<1>12. InPlace(H, who, D, k, x, T, S)  BY <1>7, <1>8 DEF InPlace
<1>14. SumFunction([w \in T |-> f[w]]) = Cost(S)
  BY <1>3, <1>9, <1>11, <1>12, SharesAddUp
<1>15. DOMAIN f = D  BY <1>6
<1> QED BY <1>1, <1>2, <1>7, <1>8, <1>14, <1>15

LEMMA ThereAddsUp ==
  ASSUME ReportInv, NEW k, NEW x, NEW f, f = getSharedUsage(Absent, Absent).there
  PROVE  SumFunction([w \in {v \in DOMAIN f : v[k] = x} |-> f[w]]) = BridgeCost({b \in There : Whose[b][k] = x})
<1>1. PICK H : H = There  OBVIOUS
<1>2. PICK who : who = Whose  OBVIOUS
<1>3. H \in SUBSET Bridges  BY <1>1 DEF There
<1>4. PICK D : D = {who[i] : i \in H}  OBVIOUS
<1>5. PICK part : part = [w \in D |-> {i \in H : who[i] = w}]  OBVIOUS
<1>6. f = [w \in D |-> BridgeCost(part[w])]
  <2>1. PICK r : r = BridgesWithin(Absent, Absent)  OBVIOUS
  <2>2. H = {b \in r : bridged[b].by # MakerOf[bridged[b].agent]}
    BY <1>1, <2>1, EverythingIsWithin DEF There
  <2>3. \A b \in H : who[b] = <<bridged[b].by, bridged[b].agent, MakerOf[bridged[b].agent]>>
    BY <1>1, <1>2 DEF Whose
  <2>4. f = [w \in {<<bridged[b].by, bridged[b].agent, MakerOf[bridged[b].agent]>> : b \in H} |->
               BridgeCost({b \in H : <<bridged[b].by, bridged[b].agent, MakerOf[bridged[b].agent]>> = w})]
    BY <2>1, <2>2 DEF getSharedUsage
  <2>5. D = {<<bridged[b].by, bridged[b].agent, MakerOf[bridged[b].agent]>> : b \in H}  BY <1>4, <2>3
  <2>6. \A w : {b \in H : <<bridged[b].by, bridged[b].agent, MakerOf[bridged[b].agent]>> = w} = {i \in H : who[i] = w}
    BY <2>3
  <2>7. f = [w \in D |-> BridgeCost({i \in H : who[i] = w})]  BY <2>4, <2>5, <2>6
  <2> QED BY <1>5, <2>7
<1>7. PICK T : T = {v \in D : v[k] = x}  OBVIOUS
<1>8. PICK S : S = {i \in H : who[i][k] = x}  OBVIOUS
<1>9. ShareOut(H, who, D, part)  BY <1>4, <1>5 DEF ShareOut
<1>11. \A w \in D : f[w] = BridgeCost(part[w])  BY <1>6
<1>12. InPlace(H, who, D, k, x, T, S)  BY <1>7, <1>8 DEF InPlace
<1>14. SumFunction([w \in T |-> f[w]]) = BridgeCost(S)
  BY <1>3, <1>9, <1>11, <1>12, RelaySharesAddUp
<1>15. DOMAIN f = D  BY <1>6
<1> QED BY <1>1, <1>2, <1>7, <1>8, <1>14, <1>15

LEMMA SharedUsageFollows == ASSUME ReportInv PROVE SharedUsageAgrees
<1>1. PICK shared : shared = getSharedUsage(Absent, Absent)  OBVIOUS
<1>2. PICK users : users = getByEmployee(Absent, Absent)  OBVIOUS
<1>3. PICK agents : agents = getByAgent(Absent, Absent)  OBVIOUS
<1> DEFINE Sum(f, k, x) == SumFunction([w \in {v \in DOMAIN f : v[k] = x} |-> f[w]])
<1>4. ASSUME NEW k, NEW x PROVE Sum(shared.here, k, x) = Cost({i \in Here : Who[i][k] = x})
  <2>1. PICK f : f = shared.here  OBVIOUS
  <2>2. SumFunction([w \in {v \in DOMAIN f : v[k] = x} |-> f[w]]) = Cost({i \in Here : Who[i][k] = x})
    BY <1>1, <2>1, HereAddsUp
  <2> QED BY <2>1, <2>2
<1>5. ASSUME NEW k, NEW x PROVE Sum(shared.there, k, x) = BridgeCost({b \in There : Whose[b][k] = x})
  <2>1. PICK f : f = shared.there  OBVIOUS
  <2>2. SumFunction([w \in {v \in DOMAIN f : v[k] = x} |-> f[w]]) = BridgeCost({b \in There : Whose[b][k] = x})
    BY <1>1, <2>1, ThereAddsUp
  <2> QED BY <2>1, <2>2
<1> HIDE DEF Sum
<1>6. ASSUME NEW u \in People
      PROVE  Sum(shared.here, 1, u) <= IF u \in DOMAIN users THEN users[u].cost ELSE 0
  <2>1. PICK part : part = {i \in Here : Who[i][1] = u}  OBVIOUS
  <2>2. PICK own : own = Of("owner", u, Rows)  OBVIOUS
  <2>3. own \in SUBSET Rows /\ part \in SUBSET own  BY <2>1, <2>2 DEF Here, Who, Of
  <2>4. Cost(part) <= Cost(own)  BY <2>3, CostOfPart
  <2>5. Cost(own) = IF u \in DOMAIN users THEN users[u].cost ELSE 0
    <3>1. DOMAIN users = Values("owner", Rows) /\ (u \in DOMAIN users => users[u].cost = Cost(own))
      BY <1>2, <2>2, EverythingIsWithin DEF getByEmployee
    <3>2. u \notin DOMAIN users => own = {}  BY <2>2, <3>1 DEF Values, Of
    <3> QED BY <3>1, <3>2, NoCost
  <2>6. Sum(shared.here, 1, u) = Cost(part)  BY <1>4, <2>1
  <2> QED BY <2>4, <2>5, <2>6
<1>7. ASSUME NEW a \in DOMAIN agents
      PROVE  Sum(shared.here, 2, a) + Sum(shared.there, 2, a) <= agents[a].cost
  <2>1. PICK part : part = {i \in Here : Who[i][2] = a}  OBVIOUS
  <2>2. PICK away : away = {b \in There : Whose[b][2] = a}  OBVIOUS
  <2>3. PICK rows : rows = Of("agent", a, Rows)  OBVIOUS
  <2>4. PICK relays : relays = {b \in Bridges : bridged[b].agent = a}  OBVIOUS
  <2>5. rows \in SUBSET Rows /\ part \in SUBSET rows  BY <2>1, <2>3 DEF Here, Who, Of
  <2>6. relays \in SUBSET Bridges /\ away \in SUBSET relays  BY <2>2, <2>4 DEF There, Whose
  <2>7. Cost(part) <= Cost(rows) /\ Cost(part) \in Nat /\ Cost(rows) \in Nat
    <3>1. part \in SUBSET Rows  BY <2>5
    <3> QED BY <2>5, <3>1, CostOfPart, CostIs
  <2>8. BridgeCost(away) <= BridgeCost(relays) /\ BridgeCost(away) \in Nat /\ BridgeCost(relays) \in Nat
    <3>1. away \in SUBSET Bridges  BY <2>6
    <3> QED BY <2>6, <3>1, BridgeCostOfPart, BridgeCostIs
  <2>9. agents[a].cost = Cost(rows) + BridgeCost(relays)
    BY <1>3, <2>3, <2>4, EverythingIsWithin DEF getByAgent, MergedCost
  <2>10. Sum(shared.here, 2, a) = Cost(part) /\ Sum(shared.there, 2, a) = BridgeCost(away)
    BY <1>4, <1>5, <2>1, <2>2
  <2> QED BY <2>7, <2>8, <2>9, <2>10
<1>8. ASSUME NEW i \in Rows, booked[i].via = "relay" /\ booked[i].owner # booked[i].payer
      PROVE  <<booked[i].owner, booked[i].agent, booked[i].payer>> \in DOMAIN shared.here
  <2>1. booked[i].payer = MakerOf[booked[i].agent] /\ booked[i].agent \in Agents
    BY <1>8 DEF ReportInv, Booked, SessionRow
  <2>2. booked[i].payer # Absent  BY <2>1, ReportsAssumption
  <2>3. PICK H : H = {j \in RowsWithin(Absent, Absent) : booked[j].payer \notin {Absent, booked[j].owner}}  OBVIOUS
  <2>4. i \in H  BY <1>8, <2>2, <2>3, EverythingIsWithin
  <2>5. DOMAIN shared.here = {<<booked[j].owner, booked[j].agent, booked[j].payer>> : j \in H}
    BY <1>1, <2>3 DEF getSharedUsage
  <2> QED BY <2>4, <2>5
<1> QED BY <1>1, <1>2, <1>3, <1>6, <1>7, <1>8 DEF SharedUsageAgrees, Sum

----------------------------------------------------------------------------
(* A user's overview.                                                      *)

LEMMA OverviewFollows == ASSUME ReportInv PROVE OverviewAgrees
<1> SUFFICES ASSUME NEW u \in People
             PROVE  LET o == getBillingOverview(u)  users == getByEmployee(Absent, Absent) IN
                    /\ (IF u \in DOMAIN users THEN users[u].cost ELSE 0) = o.allTime + Cost(Of("owner", u, Rows) \ Succeeded(u))
                    /\ o.today <= o.week /\ o.today <= o.month
                    /\ o.week <= SumFunction([d \in DOMAIN o.daily |-> o.daily[d].cost])
                    /\ \A d \in DOMAIN o.daily : o.daily[d].cost = SumFunction(o.daily[d].agents)
                    /\ o.allTime >= o.month
  BY DEF OverviewAgrees
<1>1. PICK own : own = Of("owner", u, Rows)  OBVIOUS
<1>2. PICK done : done = Succeeded(u)  OBVIOUS
<1>3. own \in SUBSET Rows /\ done \in SUBSET own /\ done \in SUBSET Rows
  BY <1>1, <1>2 DEF Of, Succeeded
<1>4. PICK o : o = getBillingOverview(u)  OBVIOUS
<1>5. PICK users : users = getByEmployee(Absent, Absent)  OBVIOUS
<1>6. (IF u \in DOMAIN users THEN users[u].cost ELSE 0) = Cost(own)
  <2>1. DOMAIN users = Values("owner", Rows) /\ (u \in DOMAIN users => users[u].cost = Cost(own))
    BY <1>1, <1>5, EverythingIsWithin DEF getByEmployee
  <2>2. u \notin DOMAIN users => own = {}  BY <1>1, <2>1 DEF Values, Of
  <2> QED BY <2>1, <2>2, NoCost
<1>7. o.allTime = Cost(done)
  <2>1. o.allTime = SumFunction(GroupBy("agent", done))
    BY <1>2, <1>4 DEF getBillingOverview, getAgentSpendAllTime
  <2> QED BY <1>3, <2>1, GroupsAddUp
<1>8. PICK ofDay : ofDay = {i \in done : booked[i].day >= today}  OBVIOUS
<1>9. PICK ofWeek : ofWeek = {i \in done : booked[i].day >= Since(Week)}  OBVIOUS
<1>10. PICK ofMonth : ofMonth = {i \in done : Month(booked[i].day) = Month(today)}  OBVIOUS
<1>11. PICK recent : recent = {i \in done : booked[i].day >= Since(Thirty)}  OBVIOUS
<1>12. /\ o.today = Cost(ofDay) /\ o.week = Cost(ofWeek) /\ o.month = Cost(ofMonth)
       /\ o.daily = getDailySpendBreakdown(u)
  BY <1>2, <1>4, <1>8, <1>9, <1>10 DEF getBillingOverview, getTotalSpendForRange
<1>13. o.daily = [d \in Values("day", recent) |-> [cost |-> Cost(Of("day", d, recent)),
                                                   agents |-> GroupBy("agent", Of("day", d, recent))]]
  BY <1>2, <1>11, <1>12 DEF getDailySpendBreakdown
<1>14. \A i \in done : booked[i].day \in Nat /\ booked[i].day <= today
  BY <1>3 DEF ReportInv, Booked, SessionRow
<1>15. /\ today \in Nat /\ Since(Week) \in Nat /\ Since(Thirty) \in Nat
       /\ Since(Week) <= today /\ Since(Thirty) <= Since(Week)
  BY ReportsAssumption DEF ReportInv, Since
<1>16. ofDay \in SUBSET ofWeek
  BY <1>8, <1>9, <1>14, <1>15
<1>17. ofDay \in SUBSET ofMonth
  <2>1. \A i \in done : booked[i].day >= today => booked[i].day = today  BY <1>14, <1>15
  <2> QED BY <1>8, <1>10, <2>1
<1>18. ofWeek \in SUBSET recent
  BY <1>9, <1>11, <1>14, <1>15
<1>19. /\ ofWeek \in SUBSET Rows /\ ofMonth \in SUBSET Rows /\ recent \in SUBSET Rows
       /\ ofMonth \in SUBSET done
  BY <1>3, <1>9, <1>10, <1>11
<1>20. Cost(ofDay) <= Cost(ofWeek) /\ Cost(ofDay) <= Cost(ofMonth)
  BY <1>16, <1>17, <1>19, CostOfPart
<1>21. Cost(ofWeek) <= Cost(recent) /\ Cost(ofMonth) <= Cost(done)
  BY <1>3, <1>18, <1>19, CostOfPart
<1>22. Cost(recent) = SumFunction([d \in DOMAIN o.daily |-> o.daily[d].cost])
  <2>1. PICK h : h = [d \in DOMAIN o.daily |-> o.daily[d].cost]  OBVIOUS
  <2>2. h = GroupBy("day", recent)  BY <1>13, <2>1 DEF GroupBy
  <2> QED BY <1>19, <2>1, <2>2, GroupsAddUp
<1>23. ASSUME NEW d \in DOMAIN o.daily PROVE o.daily[d].cost = SumFunction(o.daily[d].agents)
  <2>1. PICK S : S = Of("day", d, recent)  OBVIOUS
  <2>2. o.daily[d].cost = Cost(S) /\ o.daily[d].agents = GroupBy("agent", S)  BY <1>13, <1>23, <2>1
  <2>3. S \in SUBSET Rows  BY <1>19, <2>1 DEF Of
  <2> QED BY <2>2, <2>3, GroupsAddUp
<1>24. Cost(own) = Cost(done) + Cost(own \ done)  BY <1>3, CostOfRest
<1>25. Cost(done) \in Nat /\ Cost(ofMonth) \in Nat  BY <1>3, <1>19, CostIs
<1> QED BY <1>1, <1>2, <1>4, <1>5, <1>6, <1>7, <1>12, <1>20, <1>21, <1>22, <1>23, <1>24, <1>25

----------------------------------------------------------------------------
(* Costs and analytics of the portal.                                      *)

LEMMA AgentsGroup ==
  ASSUME ReportInv, NEW S \in SUBSET Rows, NEW A \in SUBSET Agents, \A i \in S : booked[i].agent \in A,
         NEW part, \A a \in A : part[a] = Of("agent", a, S)
  PROVE  IsFiniteSet(A) /\ Divides(part, A, S)
<1>1. IsFiniteSet(A)  BY ReportsAssumption, FS_Subset
<1>2. \A a \in A : part[a] \subseteq S  BY DEF Of
<1>3. \A a \in A : \A i \in S : i \in part[a] <=> booked[i].agent = a  BY DEF Of
<1> QED BY <1>1, <1>2, <1>3 DEF Divides

\* The agents of A.
LEMMA AgentsCost ==
  ASSUME ReportInv, NEW S \in SUBSET Rows, NEW A \in SUBSET Agents, \A i \in S : booked[i].agent \in A,
         NEW h, DOMAIN h = A, \A a \in A : h[a] = Cost(Of("agent", a, S))
  PROVE  Cost(S) = SumFunction(h)
<1>1. PICK part : part = [a \in A |-> Of("agent", a, S)]  OBVIOUS
<1>2. \A a \in A : part[a] = Of("agent", a, S)  BY <1>1
<1>3. IsFiniteSet(A) /\ Divides(part, A, S)  BY <1>2, AgentsGroup
<1>4. \A a \in A : h[a] = Cost(part[a])  BY <1>2
<1>5. Cost(S) = SumFunctionOnSet(h, A)  BY <1>3, <1>4, CostByGroup
<1> QED BY <1>5 DEF SumFunction

\* Agents of a team, and those of none.
LEMMA TeamsCost ==
  ASSUME ReportInv, NEW p \in Periods, NEW b, b = getCostBreakdown(p), NEW t, t # Absent
  PROVE  /\ t \in DOMAIN b.team => b.team[t] = getTeamCosts(t, p)
         /\ t \notin DOMAIN b.team => {i \in Recent(p) : booked[i].agent \in Team(t)} = {}
<1>1. PICK R : R = Recent(p)  OBVIOUS
<1>2. R \in SUBSET Rows  BY <1>1, RangesAreRows DEF Recent
<1>3. PICK S : S = {i \in R : booked[i].agent \in Team(t)}  OBVIOUS
<1>4. DOMAIN b.team = {TeamOf[a] : a \in {x \in Agents : TeamOf[x] # Absent /\ x \in Values("agent", R)}}
      /\ (t \in DOMAIN b.team =>
            b.team[t] = SumFunction([a \in Team(t) \cap Values("agent", R) |-> Cost(Of("agent", a, R))]))
  BY <1>1 DEF getCostBreakdown
<1>5. ASSUME t \in DOMAIN b.team PROVE b.team[t] = Cost(S)
  <2>1. PICK A : A = Team(t) \cap Values("agent", R)  OBVIOUS
  <2>2. PICK h : h = [a \in A |-> Cost(Of("agent", a, R))]  OBVIOUS
  <2>3. A \in SUBSET Agents /\ S \in SUBSET Rows  BY <1>2, <1>3, <2>1 DEF Team
  <2>4. \A i \in S : booked[i].agent \in A  BY <1>3, <2>1 DEF Values
  <2>5. \A a \in A : Of("agent", a, S) = Of("agent", a, R)  BY <1>3, <2>1 DEF Of
  <2>6. DOMAIN h = A /\ \A a \in A : h[a] = Cost(Of("agent", a, S))  BY <2>2, <2>5
  <2>7. Cost(S) = SumFunction(h)  BY <2>3, <2>4, <2>6, AgentsCost
  <2> QED BY <1>4, <1>5, <2>1, <2>2, <2>7
<1>6. ASSUME NEW i \in S PROVE t \in DOMAIN b.team
  <2>1. i \in R /\ booked[i].agent \in Agents /\ TeamOf[booked[i].agent] = t  BY <1>3, <1>6 DEF Team
  <2>2. booked[i].agent \in Values("agent", R)  BY <2>1 DEF Values
  <2> QED BY <1>4, <2>1, <2>2
<1>7. getTeamCosts(t, p) = Cost(S)  BY <1>1, <1>3 DEF getTeamCosts
<1> QED BY <1>1, <1>3, <1>5, <1>6, <1>7

LEMMA AllTeamsCost ==
  ASSUME ReportInv, NEW p \in Periods, NEW b, b = getCostBreakdown(p),
         NEW cost, cost = [a \in Agents |-> getAgentCosts(a, p).total]
  PROVE  getPlatformCosts(p) = SumFunction(b.team) + SumFunction([a \in Team(Absent) |-> cost[a]])
<1>1. PICK R : R = Recent(p)  OBVIOUS
<1>2. R \in SUBSET Rows /\ \A i \in R : booked[i].agent \in Agents
  BY <1>1, RangesAreRows DEF Recent, ReportInv, Booked, SessionRow
<1>3. PICK none : none = {i \in R : booked[i].agent \in Team(Absent)}  OBVIOUS
<1>4. PICK some : some = R \ none  OBVIOUS
<1>5. none \in SUBSET R /\ none \in SUBSET Rows /\ some \in SUBSET Rows  BY <1>2, <1>3, <1>4
<1>6. Cost(R) = Cost(none) + Cost(some)  BY <1>2, <1>4, <1>5, CostOfRest
<1>7. Cost(none) = SumFunction([a \in Team(Absent) |-> cost[a]])
  <2>1. PICK A : A = Team(Absent)  OBVIOUS
  <2>2. PICK h : h = [a \in A |-> cost[a]]  OBVIOUS
  <2>3. A \in SUBSET Agents /\ \A i \in none : booked[i].agent \in A  BY <1>3, <2>1 DEF Team
  <2>4. \A a \in A : Of("agent", a, none) = Of("agent", a, R)  BY <1>3, <2>1 DEF Of
  <2>5. \A a \in A : cost[a] = Cost(Of("agent", a, R))  BY <1>1, <2>3 DEF getAgentCosts
  <2>6. DOMAIN h = A /\ \A a \in A : h[a] = Cost(Of("agent", a, none))  BY <2>2, <2>4, <2>5
  <2>7. Cost(none) = SumFunction(h)  BY <1>5, <2>3, <2>6, AgentsCost
  <2> QED BY <2>1, <2>2, <2>7
<1>8. Cost(some) = SumFunction(b.team)
  <2>1. PICK T : T = DOMAIN b.team  OBVIOUS
  <2>2. PICK part : part = [t \in T |-> {i \in some : TeamOf[booked[i].agent] = t}]  OBVIOUS
  <2>3. T = {TeamOf[a] : a \in {x \in Agents : TeamOf[x] # Absent /\ x \in Values("agent", R)}}
    BY <1>1, <2>1 DEF getCostBreakdown
  <2>4. IsFiniteSet(T)
    <3>1. PICK A : A = {x \in Agents : TeamOf[x] # Absent /\ x \in Values("agent", R)}  OBVIOUS
    <3>2. PICK f : f = [a \in A |-> TeamOf[a]]  OBVIOUS
    <3>3. IsFiniteSet(A)  BY <3>1, ReportsAssumption, FS_Subset
    <3>4. (\A a \in A : f[a] \in T) /\ \A t \in T : \E a \in A : t = f[a]  BY <2>3, <3>1, <3>2
    <3> QED BY <3>3, <3>4, FiniteImage
  <2>5. \A i \in some : TeamOf[booked[i].agent] \in T
    <3>1. ASSUME NEW i \in some PROVE TeamOf[booked[i].agent] \in T
      <4>1. booked[i].agent \in Agents /\ TeamOf[booked[i].agent] # Absent /\ i \in R
        BY <1>2, <1>3, <1>4 DEF Team
      <4>2. booked[i].agent \in Values("agent", R)  BY <4>1 DEF Values
      <4> QED BY <2>3, <4>1, <4>2
    <3> QED BY <3>1
  <2>6. Divides(part, T, some)
    <3>1. \A t \in T : \A i \in some : i \in part[t] <=> TeamOf[booked[i].agent] = t  BY <2>2
    <3>2. \A t \in T : part[t] \subseteq some  BY <2>2
    <3> QED BY <2>5, <3>1, <3>2 DEF Divides
  <2>7. ASSUME NEW t \in T PROVE b.team[t] = Cost(part[t])
    <3>1. t # Absent  BY <2>3
    <3>2. b.team[t] = getTeamCosts(t, p)  BY <2>1, <3>1, TeamsCost
    <3>3. getTeamCosts(t, p) = Cost({i \in R : booked[i].agent \in Team(t)})  BY <1>1 DEF getTeamCosts
    <3>4. {i \in R : booked[i].agent \in Team(t)} = part[t]
      <4>1. \A i \in R : booked[i].agent \in Team(t) <=> (i \in some /\ TeamOf[booked[i].agent] = t)
        BY <1>2, <1>3, <1>4, <3>1 DEF Team
      <4> QED BY <1>4, <2>2, <4>1
    <3> QED BY <3>2, <3>3, <3>4
  <2>8. PICK h : h = b.team  OBVIOUS
  <2>9. \A t \in T : h[t] = Cost(part[t])  BY <2>7, <2>8
  <2>10. Cost(some) = SumFunctionOnSet(h, T)  BY <1>5, <2>4, <2>6, <2>9, CostByGroup
  <2> QED BY <2>1, <2>8, <2>10 DEF SumFunction
<1>9. Cost(none) \in Nat /\ Cost(some) \in Nat  BY <1>5, CostIs
<1>10. getPlatformCosts(p) = Cost(R)  BY <1>1 DEF getPlatformCosts
<1> QED BY <1>6, <1>7, <1>8, <1>9, <1>10

\* A session is a success, an error or neither, never two of them.
LEMMA OutcomesCount ==
  ASSUME ReportInv, NEW S \in SUBSET Rows
  PROVE  Analytics(S).sessions >= Analytics(S).successes + Analytics(S).errors
<1>1. PICK good : good = Of("status", "success", S)  OBVIOUS
<1>2. PICK bad : bad = {i \in S : booked[i].status \in {"error", "timeout"}}  OBVIOUS
<1>3. PICK both : both = good \cup bad  OBVIOUS
<1>4. good \subseteq S /\ bad \subseteq S /\ both \subseteq S /\ good \cap bad = {}
  BY <1>1, <1>2, <1>3 DEF Of
<1>5. IsFiniteSet(S) /\ IsFiniteSet(good) /\ IsFiniteSet(bad)
  <2>1. IsFiniteSet(S)  BY CostIs
  <2> QED BY <1>4, <2>1, FS_Subset
<1>6. Cardinality(both) = Cardinality(good) + Cardinality(bad)
  <2>1. /\ Cardinality(good \cup bad) = Cardinality(good) + Cardinality(bad) - Cardinality(good \cap bad)
    BY <1>5, FS_Union
  <2>2. Cardinality(good) \in Nat /\ Cardinality(bad) \in Nat  BY <1>5, FS_CardinalityType
  <2>3. Cardinality(good \cap bad) = 0  BY <1>4, FS_EmptySet
  <2> QED BY <1>3, <2>1, <2>2, <2>3
<1>7. Cardinality(both) <= Cardinality(S) /\ Cardinality(both) \in Nat /\ Cardinality(S) \in Nat
  BY <1>4, <1>5, FS_Subset, FS_CardinalityType
<1> QED BY <1>1, <1>2, <1>6, <1>7 DEF Analytics

LEMMA PortalFollows == ASSUME ReportInv PROVE PortalAgrees
<1> SUFFICES ASSUME NEW p \in Periods
             PROVE  LET b == getCostBreakdown(p)  all == getPlatformAnalytics(p)  total == getPlatformCosts(p)
                        cost == [a \in Agents |-> getAgentCosts(a, p).total] IN
                    /\ total = all.cost /\ total = SumFunction(cost)
                    /\ total = SumFunction(b.agent) /\ total = SumFunction(b.day)
                    /\ total = SumFunction(b.model) + Cost(Of("model", Absent, Recent(p)))
                    /\ total = SumFunction(b.team) + SumFunction([a \in Team(Absent) |-> cost[a]])
                    /\ \A t \in DOMAIN b.team : b.team[t] = getTeamCosts(t, p) /\ b.team[t] = getTeamAnalytics(t, p).cost
                    /\ \A a \in Agents : LET one == getAgentAnalytics(a, p) IN
                         /\ one.cost = cost[a] /\ one.cost = SumFunction(getTokenTrends(a, p))
                         /\ one.sessions >= one.successes + one.errors
                    /\ all.sessions = SumFunction([a \in Agents |-> getAgentAnalytics(a, p).sessions])
  BY DEF PortalAgrees
<1>1. PICK R : R = Recent(p)  OBVIOUS
<1>2. R \in SUBSET Rows /\ \A i \in R : booked[i].agent \in Agents
  BY <1>1, RangesAreRows DEF Recent, ReportInv, Booked, SessionRow
<1>3. PICK b : b = getCostBreakdown(p)  OBVIOUS
<1>4. PICK all : all = getPlatformAnalytics(p)  OBVIOUS
<1>5. PICK total : total = getPlatformCosts(p)  OBVIOUS
<1>6. PICK cost : cost = [a \in Agents |-> getAgentCosts(a, p).total]  OBVIOUS
<1>7. total = Cost(R) /\ all = Analytics(R) /\ all.cost = Cost(R) /\ all.sessions = Cardinality(R)
  BY <1>1, <1>4, <1>5 DEF getPlatformCosts, getPlatformAnalytics, Analytics
<1>8. DOMAIN cost = Agents /\ \A a \in Agents : cost[a] = Cost(Of("agent", a, R))
  BY <1>1, <1>6 DEF getAgentCosts
<1>9. Agents \in SUBSET Agents  OBVIOUS
<1>10. total = SumFunction(cost)  BY <1>2, <1>7, <1>8, <1>9, AgentsCost
<1>11. total = SumFunction(b.agent) /\ total = SumFunction(b.day)
  <2>1. b.agent = GroupBy("agent", R) /\ b.day = GroupBy("day", R)  BY <1>1, <1>3 DEF getCostBreakdown
  <2> QED BY <1>2, <1>7, <2>1, GroupsAddUp
<1>12. total = SumFunction(b.model) + Cost(Of("model", Absent, R))
  <2>1. PICK unnamed : unnamed = Of("model", Absent, R)  OBVIOUS
  <2>2. PICK named : named = R \ unnamed  OBVIOUS
  <2>3. unnamed \in SUBSET R /\ unnamed \in SUBSET Rows /\ named \in SUBSET Rows  BY <1>2, <2>1, <2>2 DEF Of
  <2>4. b.model = GroupBy("model", named)  BY <1>1, <1>3, <2>1, <2>2 DEF getCostBreakdown
  <2>5. Cost(named) = SumFunction(b.model)  BY <2>3, <2>4, GroupsAddUp
  <2>6. Cost(R) = Cost(unnamed) + Cost(named)  BY <1>2, <2>2, <2>3, CostOfRest
  <2>7. Cost(unnamed) \in Nat /\ Cost(named) \in Nat  BY <2>3, CostIs
  <2> QED BY <1>7, <2>1, <2>5, <2>6, <2>7
<1>13. total = SumFunction(b.team) + SumFunction([a \in Team(Absent) |-> cost[a]])
  BY <1>3, <1>5, <1>6, AllTeamsCost
<1>14. ASSUME NEW t \in DOMAIN b.team
       PROVE  b.team[t] = getTeamCosts(t, p) /\ b.team[t] = getTeamAnalytics(t, p).cost
  <2>1. t # Absent  BY <1>3 DEF getCostBreakdown
  <2>2. b.team[t] = getTeamCosts(t, p)  BY <1>3, <2>1, TeamsCost
  <2>3. getTeamAnalytics(t, p).cost = getTeamCosts(t, p)  BY DEF getTeamAnalytics, getTeamCosts, Analytics
  <2> QED BY <2>2, <2>3
<1>15. ASSUME NEW a \in Agents
       PROVE  /\ getAgentAnalytics(a, p).cost = cost[a]
              /\ getAgentAnalytics(a, p).cost = SumFunction(getTokenTrends(a, p))
              /\ getAgentAnalytics(a, p).sessions >= getAgentAnalytics(a, p).successes + getAgentAnalytics(a, p).errors
  <2>1. PICK S : S = Of("agent", a, R)  OBVIOUS
  <2>2. S \in SUBSET Rows  BY <1>2, <2>1 DEF Of
  <2>3. getAgentAnalytics(a, p) = Analytics(S) /\ getTokenTrends(a, p) = GroupBy("day", S)
    BY <1>1, <2>1 DEF getAgentAnalytics, getTokenTrends
  <2>4. Analytics(S).cost = Cost(S)  BY DEF Analytics
  <2>5. Cost(S) = SumFunction(GroupBy("day", S))  BY <2>2, GroupsAddUp
  <2>6. Analytics(S).sessions >= Analytics(S).successes + Analytics(S).errors  BY <2>2, OutcomesCount
  <2> QED BY <1>8, <2>1, <2>3, <2>4, <2>5, <2>6
<1>16. all.sessions = SumFunction([a \in Agents |-> getAgentAnalytics(a, p).sessions])
  <2>1. PICK h : h = [a \in Agents |-> getAgentAnalytics(a, p).sessions]  OBVIOUS
  <2>2. PICK part : part = [a \in Agents |-> Of("agent", a, R)]  OBVIOUS
  <2>3. DOMAIN h = Agents /\ \A a \in Agents : h[a] = Cardinality(part[a])
    BY <1>1, <2>1, <2>2 DEF getAgentAnalytics, Analytics
  <2>4. IsFiniteSet(Agents) /\ Divides(part, Agents, R)
    <3>1. \A a \in Agents : part[a] = Of("agent", a, R)  BY <2>2
    <3> QED BY <1>2, <1>9, <3>1, AgentsGroup
  <2>5. IsFiniteSet(R)  BY <1>2, CostIs
  <2>6. Cardinality(R) = SumFunctionOnSet(h, Agents)  BY <2>3, <2>4, <2>5, CountByGroup
  <2> QED BY <1>7, <2>1, <2>3, <2>6 DEF SumFunction
<1> QED BY <1>1, <1>3, <1>4, <1>5, <1>6, <1>7, <1>10, <1>11, <1>12, <1>13, <1>14, <1>15, <1>16

----------------------------------------------------------------------------
(* Conversations and tabs.                                                 *)

\* What each mention of a session in a conversation at a place costs.
Mentions(u, place) == {i \in Of("owner", u, Rows) : booked[i].in = place /\ booked[i].said > 0}
MentionCosts == [i \in Rows |-> booked[i].cost * booked[i].said]

LEMMA PlaceAddsUp ==
  ASSUME ReportInv, NEW u \in People, NEW place, NEW S, S = Mentions(u, place)
  PROVE  /\ S \in SUBSET Rows /\ getTabCostBreakdown(u, place).total = SumFunctionOnSet(MentionCosts, S)
         /\ DOMAIN getTabCostBreakdown(u, place).agents # {} <=> S # {}
<1>1. S \in SUBSET Rows  BY DEF Mentions, Of
<1>2. IsFiniteSet(S)  BY <1>1, CostIs
<1>3. PICK T : T = Values("agent", S)  OBVIOUS
<1>4. PICK part : part = [a \in T |-> Of("agent", a, S)]  OBVIOUS
<1>5. PICK h : h = getConversationCostBreakdown(u, place)  OBVIOUS
<1>6. h = [a \in T |-> SumFunction([i \in Of("agent", a, S) |-> booked[i].cost * booked[i].said])]
  BY <1>3, <1>5 DEF getConversationCostBreakdown, Mentions
<1>7. \A i \in S : MentionCosts[i] \in Int
  <2>1. ASSUME NEW i \in S PROVE MentionCosts[i] \in Int
    <3>1. booked[i].cost \in Nat /\ booked[i].said \in Nat /\ i \in Rows
      BY <1>1 DEF ReportInv, Booked, SessionRow
    <3>2. PICK c, n : c = booked[i].cost /\ n = booked[i].said  OBVIOUS
    <3>3. c \in Nat /\ n \in 0..2
      BY <1>1, <3>2 DEF ReportInv, Booked, SessionRow
    <3>4. c * n \in Nat  BY <3>3
    <3> QED BY <3>1, <3>2, <3>4 DEF MentionCosts
  <2> QED BY <2>1
<1>8. ASSUME NEW a \in T PROVE h[a] = SumFunctionOnSet(MentionCosts, part[a])
  <2>1. PICK own : own = part[a]  OBVIOUS
  <2>2. PICK g : g = [i \in own |-> booked[i].cost * booked[i].said]  OBVIOUS
  <2>3. own \subseteq S /\ IsFiniteSet(own)  BY <1>2, <1>4, <2>1, FS_Subset DEF Of
  <2>4. \A i \in own : g[i] = MentionCosts[i]  BY <1>1, <2>2, <2>3 DEF MentionCosts
  <2>5. DOMAIN g = own /\ h[a] = SumFunction(g)  BY <1>4, <1>6, <2>1, <2>2
  <2>6. SumFunctionOnSet(g, own) = SumFunctionOnSet(MentionCosts, own)  BY <2>3, <2>4, SumSame
  <2> QED BY <2>1, <2>5, <2>6 DEF SumFunction
<1>9. IsFiniteSet(T) /\ Divides(part, T, S)  BY <1>2, <1>3, <1>4, GroupsOfField
<1>10. SumFunctionOnSet(MentionCosts, S) = SumFunctionOnSet(h, T)
  BY <1>2, <1>7, <1>8, <1>9, SumByGroup
<1>11. DOMAIN h = T  BY <1>6
<1>12. T # {} <=> S # {}  BY <1>3 DEF Values
<1> QED BY <1>1, <1>5, <1>10, <1>11, <1>12 DEF getTabCostBreakdown, SumFunction

LEMMA ConversationsFollow == ASSUME ReportInv PROVE ConversationsAgree
<1> DEFINE answered(u, via) ==
             {i \in Of("owner", u, Rows) : booked[i].via = via /\ booked[i].in # Absent /\ booked[i].at \in {"pay", "end"}}
<1>1. SUFFICES ASSUME NEW u \in People, \A i \in Of("owner", u, Rows) : booked[i].at \in {"pay", "end"}
               PROVE  LET tabs == getAllTabsCostBreakdown(u)
                          sum == SumFunction([t \in tabs |-> getTabCostBreakdown(u, t).total]) IN
                      sum = 2 * Cost(answered(u, "chat")) + Cost(answered(u, "master"))
  BY DEF ConversationsAgree
<1>2. PICK A : A = Mentions(u, "alone")  OBVIOUS
<1>3. PICK B : B = Mentions(u, "tab")  OBVIOUS
<1>4. A \in SUBSET Rows /\ B \in SUBSET Rows /\ IsFiniteSet(A) /\ IsFiniteSet(B)
  <2>1. A \in SUBSET Rows /\ B \in SUBSET Rows  BY <1>2, <1>3 DEF Mentions, Of
  <2> QED BY <2>1, CostIs
<1>5. \A i \in Of("owner", u, Rows) : Booked(booked[i]) /\ booked[i].at \in {"pay", "end"}
  BY <1>1 DEF ReportInv, Of
<1>6. "alone" # Absent /\ "tab" # Absent  BY ReportsAssumption
<1>7. A = answered(u, "chat") /\ \A i \in A : booked[i].said = 2
  BY <1>2, <1>5, <1>6 DEF Mentions, Booked, Told
<1>8. B = answered(u, "master") /\ \A i \in B : booked[i].said = 1
  BY <1>3, <1>5, <1>6 DEF Mentions, Booked, Told
<1> HIDE DEF answered
<1>9. SumFunctionOnSet(MentionCosts, B) = Cost(B)
  <2>1. \A i \in B : MentionCosts[i] = Costs[i]
    <3>1. ASSUME NEW i \in B PROVE MentionCosts[i] = Costs[i]
      <4>1. i \in Rows /\ booked[i].said = 1 /\ booked[i].cost \in Nat
        BY <1>4, <1>8 DEF ReportInv, Booked, SessionRow
      <4> QED BY <4>1 DEF MentionCosts, Costs
    <3> QED BY <3>1
  <2>2. SumFunctionOnSet(MentionCosts, B) = SumFunctionOnSet(Costs, B)  BY <1>4, <2>1, SumSame
  <2> QED BY <1>4, <2>2, CostIs
<1>10. SumFunctionOnSet(MentionCosts, A) = Cost(A) + Cost(A)
  <2>1. \A i \in A : Costs[i] \in Int /\ MentionCosts[i] = Costs[i] + Costs[i]
    <3>1. ASSUME NEW i \in A PROVE Costs[i] \in Int /\ MentionCosts[i] = Costs[i] + Costs[i]
      <4>1. i \in Rows /\ booked[i].said = 2 /\ booked[i].cost \in Nat
        BY <1>4, <1>7 DEF ReportInv, Booked, SessionRow
      <4> QED BY <4>1 DEF MentionCosts, Costs
    <3> QED BY <3>1
  <2>2. SumFunctionOnSet(MentionCosts, A) = SumFunctionOnSet(Costs, A) + SumFunctionOnSet(Costs, A)
    BY <1>4, <2>1, SumPlus
  <2> QED BY <1>4, <2>2, CostIs
<1>11. PICK tabs : tabs = getAllTabsCostBreakdown(u)  OBVIOUS
<1>12. PICK h : h = [t \in tabs |-> getTabCostBreakdown(u, t).total]  OBVIOUS
<1>13. /\ getTabCostBreakdown(u, "alone").total = Cost(A) + Cost(A)
       /\ getTabCostBreakdown(u, "tab").total = Cost(B)
       /\ DOMAIN getTabCostBreakdown(u, "alone").agents # {} <=> A # {}
  BY <1>2, <1>3, <1>9, <1>10, PlaceAddsUp
<1>14. Cost(A) \in Nat /\ Cost(B) \in Nat  BY <1>4, CostIs
<1>15. SumFunction(h) = Cost(A) + Cost(A) + Cost(B)
  <2>1. CASE A # {}
    <3>1. tabs = {"tab"} \cup {"alone"}  BY <1>11, <1>13, <2>1 DEF getAllTabsCostBreakdown
    <3>2. h["tab"] = Cost(B) /\ h["alone"] = Cost(A) + Cost(A) /\ DOMAIN h = {"tab"} \cup {"alone"}
      BY <1>12, <1>13, <3>1
    <3>3. \A t \in {"tab"} \cup {"alone"} : h[t] \in Int  BY <1>14, <3>2
    <3>4. IsFiniteSet({"tab"}) /\ "alone" \notin {"tab"}  BY FS_Singleton
    <3>5. SumFunctionOnSet(h, {"tab"} \cup {"alone"}) = SumFunctionOnSet(h, {"tab"}) + h["alone"]
      BY <3>3, <3>4, SumAdd
    <3>6. SumFunctionOnSet(h, {"tab"}) = h["tab"]  BY <1>14, <3>2, SumOne
    <3> QED BY <1>14, <3>2, <3>5, <3>6 DEF SumFunction
  <2>2. CASE A = {}
    <3>1. tabs = {"tab"}  BY <1>11, <1>13, <2>2 DEF getAllTabsCostBreakdown
    <3>2. h["tab"] = Cost(B) /\ DOMAIN h = {"tab"}  BY <1>12, <1>13, <3>1
    <3>3. SumFunctionOnSet(h, {"tab"}) = h["tab"]  BY <1>14, <3>2, SumOne
    <3>4. Cost(A) = 0  BY <2>2, NoCost
    <3> QED BY <1>14, <3>2, <3>3, <3>4 DEF SumFunction
  <2> QED BY <2>1, <2>2
<1>16. SumFunction(h) = 2 * Cost(answered(u, "chat")) + Cost(answered(u, "master"))
  BY <1>7, <1>8, <1>14, <1>15
<1> QED BY <1>11, <1>12, <1>16

\* The reports agree with one another for every agent, user, range of days and period, whatever
\* sessions were booked, finished, imported, relayed and removed, in any order: the summary with
\* its groups and invoices, what is shared with what is owned, the overview with the billing of a
\* user, the platform with its parts, and a conversation with its chats (billing.service.ts:11-403,
\* command-center/billing.service.ts:30-217, cost.service.ts:10-205, analytics.service.ts:10-167,
\* cost-analytics.service.ts:31-186).
THEOREM ReportsAlwaysAgree == SpecReports => []ReportsAgree
<1>1. ReportInv => ReportsAgree
  BY BillingFollows, SharedUsageFollows, OverviewFollows, PortalFollows, ConversationsFollow DEF ReportsAgree
<1> QED BY <1>1, ReportInvariant, PTL

----------------------------------------------------------------------------
(***************************************************************************)
(* The six components side by side.                                        *)
(***************************************************************************)

\* A behaviour of all of them is one of each, which makes its own steps or stutters.
LEMMA EachWing ==
  SpecWorkspace =>
    SpecChat /\ SpecDelegation /\ SpecPortal /\ SpecAccess /\ SpecPersonnel /\ SpecReports
<1>1. InitWorkspace =>
        InitChat /\ InitDelegation /\ InitPortal /\ InitAccess /\ InitPersonnel /\ InitReports
  BY DEF InitWorkspace
<1>2. [NextWorkspace]_workspaceVars =>
        /\ [NextChat]_chatVars /\ [NextDelegation]_delegationVars /\ [NextPortal]_portalVars
        /\ [NextAccess]_accessVars /\ [NextPersonnel]_personnelVars /\ [NextReports]_reportVars
  BY DEF NextWorkspace, workspaceVars
<1> QED BY <1>1, <1>2, PTL
        DEF SpecWorkspace, SpecChat, SpecDelegation, SpecPortal, SpecAccess, SpecPersonnel, SpecReports

\* The rows of the workspace, of accounts and of the company have their types, however many
\* requests are under way in each component.
THEOREM WorkspaceTypeCorrect == SpecWorkspace => []WorkspaceTypeOK
<1>1. /\ ChatTypeOK /\ DelegationTypeOK /\ PortalTypeOK /\ AccessTypeOK /\ PersonnelTypeOK /\ ReportsTypeOK
      => WorkspaceTypeOK
  BY DEF WorkspaceTypeOK
<1> QED BY <1>1, EachWing, ChatTypeCorrect, DelegationTypeCorrect, PortalTypeCorrect,
           AccessTypeCorrect, PersonnelTypeCorrect, ReportsTypeCorrect, PTL

\* The reports agree beside the other components too, which share no row with them
\* (billing.service.ts:11-403 and the reports of ReportsAlwaysAgree).
THEOREM WorkspaceReportsAgree == SpecWorkspace => []MCReportsAgree
<1>1. ReportsAgree => MCReportsAgree  BY DEF MCReportsAgree
<1> QED BY <1>1, EachWing, ReportsAlwaysAgree, PTL
=============================================================================
