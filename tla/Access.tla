------------------------------- MODULE Access -------------------------------
(***************************************************************************)
(* One user and what the server keeps to let the user and the agents in:   *)
(* the account with the one refresh token it stores, the keys of an agent, *)
(* the user's key for the gateway, and requests for access to agents that  *)
(* an administrator decides.  A visit is one request; each is a chain of   *)
(* awaits and they interleave.  A refresh token is signed from the user    *)
(* and the second of its issue, so it is that second.                      *)
(***************************************************************************)
EXTENDS Naturals, Sequences, FiniteSets

CONSTANTS
  Visits,         \* requests that may be in flight together
  AccessRequests, \* requests for access to an agent
  MaxSecond,      \* bound: the clock
  MaxVisits,      \* bound: requests that are begun, and calls that fail
  NoToken         \* no token stored, no key, nothing to do

ASSUME AccessAssumption == MaxSecond \in Nat /\ MaxVisits \in Nat /\ NoToken \notin Nat

VARIABLES
  now,        \* the second on the clock
  account,    \* the user: exists, and the refresh token stored
  issued,     \* refresh tokens the user has been sent
  agentKeys,  \* agent_api_keys of an agent; "from": history, the key it replaced
  gatewayKey, \* the user's row of user_gateway_keys: the key it is the hash of
  shown,      \* history: the keys for the gateway that the user was sent
  retired,    \* history: the keys for the gateway that a regeneration replaced
  decision,   \* agent_requests: status, and whether a reviewer is stored
  visit,      \* what each visit is in the middle of
  visits,     \* visits begun and calls that failed
  out,        \* history: logged out, and nobody it let in has stored a token since
  letIn,      \* history: visits it let in: those past their check when it came, and logins since
  raced       \* history: what two visits were at together

accessVars == <<now, account, issued, agentKeys, gatewayKey, shown, retired,
               decision, visit, visits, out, letIn, raced>>

Away == [at |-> "away", op |-> NoToken, on |-> NoToken]

InitAccess ==
  /\ now = 0
  /\ account \in [exists : BOOLEAN, token : {NoToken}]
  /\ issued = {} /\ agentKeys = <<>> /\ gatewayKey = NoToken /\ shown = {} /\ retired = {}
  /\ decision = [r \in AccessRequests |-> [status |-> "none", reviewed |-> FALSE]]
  /\ visit = [v \in Visits |-> Away]
  /\ visits = 0 /\ out = FALSE /\ letIn = {} /\ raced = {}

VisitAt(v, at) == visit[v].at = at
VisitTo(v, at) == visit' = [visit EXCEPT ![v].at = at]
Leaves(v) == visit' = [visit EXCEPT ![v] = Away]

Company(v) == {w \in Visits \ {v} : ~VisitAt(w, "away")}

\* A request arrives and has made its first call: what it is for, and what it goes on with.
Arrive(v, op, on, at) ==
  /\ VisitAt(v, "away")
  /\ visits < MaxVisits
  /\ visits' = visits + 1
  /\ visit' = [visit EXCEPT ![v] = [at |-> at, op |-> op, on |-> on]]
  /\ raced' = IF \E w \in Company(v) : visit[w].on = on THEN raced \cup {on} ELSE raced

\* A request that one call settles.
AtOnce(v) == VisitAt(v, "away") /\ visits < MaxVisits /\ visits' = visits + 1 /\ UNCHANGED <<visit, raced>>

Stays == UNCHANGED <<visits, raced>>
GatewayRest == UNCHANGED <<gatewayKey, shown, retired>>
KeysRest == GatewayRest /\ UNCHANGED <<agentKeys, decision>>
AccountRest == UNCHANGED <<now, account, issued, out, letIn>>

----------------------------------------------------------------------------
(* auth.service.                                                           *)

Tick == now < MaxSecond /\ now' = now + 1 /\ UNCHANGED <<account, issued, visit, out, letIn>> /\ Stays /\ KeysRest

\* register: the password is hashed after the address was found free ...
FindAddress(v) ==
  /\ ~account.exists
  /\ Arrive(v, "register", <<"account">>, "create")
  /\ AccountRest /\ KeysRest

\* ... and addresses are unique.
CreateUser(v) ==
  /\ VisitAt(v, "create")
  /\ account' = [account EXCEPT !.exists = TRUE]
  /\ Leaves(v)
  /\ Stays /\ KeysRest /\ UNCHANGED <<now, issued, out, letIn>>

\* login: the user is found, the password verified, and a token signed and stored.
FindUser(v) ==
  /\ account.exists
  /\ Arrive(v, "login", <<"session">>, "verify")
  /\ letIn' = letIn \cup {v}
  /\ KeysRest /\ UNCHANGED <<now, account, issued, out>>

VerifyPassword(v) ==
  /\ VisitAt(v, "verify")
  /\ \/ visit' = [visit EXCEPT ![v].at = "store", ![v].op = now]
     \/ Leaves(v)
  /\ Stays /\ AccountRest /\ KeysRest

\* refresh: a token that is the stored one is replaced by a new one.
\* Mutant: its signature is enough.
Accepted_Signed(t) == TRUE

Accepted(t) == account.token = t

Refresh(v, t) ==
  /\ t \in issued /\ account.exists /\ Accepted(t)
  /\ Arrive(v, now, <<"session">>, "store")
  /\ letIn' = letIn \ {v}
  /\ KeysRest /\ UNCHANGED <<now, account, issued, out>>

StoreToken(v) ==
  /\ VisitAt(v, "store")
  /\ account' = [account EXCEPT !.token = visit[v].op]
  /\ issued' = issued \cup {visit[v].op}
  /\ out' = (out /\ v \notin letIn)
  /\ Leaves(v)
  /\ Stays /\ KeysRest /\ UNCHANGED <<now, letIn>>

\* logout, with an access token the server does not look up.
Logout(v) ==
  /\ issued # {}
  /\ AtOnce(v)
  /\ account' = [account EXCEPT !.token = NoToken]
  /\ out' = TRUE /\ letIn' = {w \in Company(v) : visit[w].on = <<"session">>}
  /\ KeysRest /\ UNCHANGED <<now, issued>>

----------------------------------------------------------------------------
(* api-key.service of the agent portal.                                    *)

NewKey(from) == Append(agentKeys, [active |-> TRUE, from |-> from])

GenerateKey(v) ==
  /\ AtOnce(v)
  /\ agentKeys' = NewKey(0)
  /\ AccountRest /\ GatewayRest /\ UNCHANGED decision

\* rotateKey and revokeKey find a key, revoked or not.  rotateKey revokes it before it makes
\* the other.
FindKey(v, op, i) ==
  /\ i \in DOMAIN agentKeys
  /\ Arrive(v, op, <<"key", i>>, "revoke")
  /\ AccountRest /\ KeysRest

RevokeKey(v) ==
  /\ VisitAt(v, "revoke")
  /\ agentKeys' = [agentKeys EXCEPT ![visit[v].on[2]].active = FALSE]
  /\ IF visit[v].op = "rotate" THEN VisitTo(v, "replace") ELSE Leaves(v)
  /\ Stays /\ AccountRest /\ GatewayRest /\ UNCHANGED decision

ReplaceKey(v) ==
  /\ VisitAt(v, "replace")
  /\ agentKeys' = NewKey(visit[v].on[2])
  /\ Leaves(v)
  /\ Stays /\ AccountRest /\ GatewayRest /\ UNCHANGED decision

----------------------------------------------------------------------------
(* gateway-key.service: a key is known by the number of the visit it is    *)
(* made in.                                                                *)

\* createGatewayKey wants no row, regenerateGatewayKey the one there is; a key is made and
\* hashed ...
FindGatewayKey(v) ==
  /\ Arrive(v, IF gatewayKey = NoToken THEN "new" ELSE "again", <<"gateway", visits + 1>>, "hash")
  /\ AccountRest /\ KeysRest

HashKey(v) ==
  /\ VisitAt(v, "hash")
  /\ visit' = [visit EXCEPT ![v].at = IF visit[v].op = "new" THEN "insert" ELSE "update",
                            ![v].op = visit[v].on[2]]
  /\ Stays /\ AccountRest /\ KeysRest

\* ... and stored, a new row only when there is none, then sent to the user.
\* Mutant: the row is made or replaced.
Refused_Never(v) == FALSE

Refused(v) == VisitAt(v, "insert") /\ gatewayKey # NoToken

StoreGatewayKey(v) ==
  /\ VisitAt(v, "insert") \/ VisitAt(v, "update")
  /\ IF Refused(v) THEN Leaves(v) /\ UNCHANGED gatewayKey
     ELSE VisitTo(v, "show") /\ gatewayKey' = visit[v].op
  /\ retired' = IF VisitAt(v, "update") THEN retired \cup {gatewayKey} ELSE retired
  /\ Stays /\ AccountRest /\ UNCHANGED <<agentKeys, shown, decision>>

ShowKey(v) ==
  /\ VisitAt(v, "show")
  /\ shown' = shown \cup {visit[v].op}
  /\ Leaves(v)
  /\ Stays /\ AccountRest /\ UNCHANGED <<agentKeys, gatewayKey, retired, decision>>

----------------------------------------------------------------------------
(* agent-request.service.  Agents are not deleted.                         *)

CreateRequest(v, r) ==
  /\ decision[r].status = "none"
  /\ AtOnce(v)
  /\ decision' = [decision EXCEPT ![r].status = "PENDING"]
  /\ AccountRest /\ GatewayRest /\ UNCHANGED agentKeys

\* reviewRequest and cancelRequest find the request pending ...
\* Mutant: a request that was decided can be cancelled.
Open_Cancellable(r, op) == decision[r].status = "PENDING" \/ (decision[r].status # "none" /\ op = "CANCELLED")

Open(r, op) == decision[r].status = "PENDING"

FindRequest(v, r, op) ==
  /\ Open(r, op)
  /\ Arrive(v, op, <<"request", r>>, "decide")
  /\ AccountRest /\ KeysRest

\* ... and write it by its id.
Decide(v) ==
  LET r == visit[v].on[2] IN
  /\ VisitAt(v, "decide")
  /\ decision' = [decision EXCEPT ![r].status = visit[v].op, ![r].reviewed = @ \/ visit[v].op # "CANCELLED"]
  /\ Leaves(v)
  /\ Stays /\ AccountRest /\ GatewayRest /\ UNCHANGED agentKeys

\* A call fails, and the request with it.
VisitFault(v) ==
  /\ ~VisitAt(v, "away") /\ ~VisitAt(v, "show")
  /\ visits < MaxVisits
  /\ visits' = visits + 1
  /\ Leaves(v)
  /\ AccountRest /\ KeysRest /\ UNCHANGED raced

----------------------------------------------------------------------------
NextAccess ==
  \/ Tick
  \/ \E v \in Visits :
       \/ FindAddress(v) \/ CreateUser(v) \/ FindUser(v) \/ VerifyPassword(v) \/ StoreToken(v) \/ Logout(v)
       \/ (\E t \in 0..MaxSecond : Refresh(v, t))
       \/ GenerateKey(v) \/ RevokeKey(v) \/ ReplaceKey(v)
       \/ (\E i \in 1..MaxVisits, op \in {"rotate", "revoke"} : FindKey(v, op, i))
       \/ FindGatewayKey(v) \/ HashKey(v) \/ StoreGatewayKey(v) \/ ShowKey(v) \/ Decide(v) \/ VisitFault(v)
       \/ \E r \in AccessRequests :
            \/ CreateRequest(v, r)
            \/ \E op \in {"APPROVED", "REJECTED", "CANCELLED"} : FindRequest(v, r, op)

SpecAccess == InitAccess /\ [][NextAccess]_accessVars

----------------------------------------------------------------------------
AccessTypeOK ==
  /\ now \in 0..MaxSecond /\ issued \subseteq 0..MaxSecond /\ account.token \in issued \cup {NoToken}
  /\ \A i \in DOMAIN agentKeys : agentKeys[i].active \in BOOLEAN /\ agentKeys[i].from < i
  /\ visits \in 0..MaxVisits

\* However visits overlap, a logout ends the session until one it let in stores a token: a
\* login begun since, or a visit that had passed its check before the logout came.  A refresh
\* that comes after it, with whatever token the user was ever sent, does not bring the
\* session back (auth.service.ts:109-145).
LogoutLasts == out => account.token = NoToken

\* A key that was rotated is not active beside the one that replaced it, wherever a rotation
\* stops and whatever overlaps it (api-key.service.ts:41-59).
RotationLeavesOne == \A i \in DOMAIN agentKeys :
  agentKeys[i].from # 0 => ~agentKeys[agentKeys[i].from].active

\* However creations and regenerations overlap, and in whatever order they are answered: every
\* key for the gateway that the user was sent works until a regeneration replaced it, and the
\* key that works was sent, or is about to be (gateway-key.service.ts:33-66, 104-137).
ShownKeyWorks ==
  /\ shown \subseteq retired \cup {gatewayKey}
  /\ gatewayKey \in shown \cup {NoToken} \cup {visit[v].op : v \in {w \in Visits : VisitAt(w, "show")}}

CredentialsEnd == LogoutLasts /\ RotationLeavesOne /\ ShownKeyWorks

\* A request has a reviewer exactly when it was approved or rejected, unless two visits found
\* it pending together (agent-request.service.ts:50-76).
DecisionsFinal == \A r \in AccessRequests : <<"request", r>> \notin raced =>
  (decision[r].reviewed <=> decision[r].status \in {"APPROVED", "REJECTED"})
=============================================================================
