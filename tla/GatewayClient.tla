--------------------------- MODULE GatewayClient ---------------------------
(***************************************************************************)
(* The client that keeps a WebSocket to the OpenClaw gateway: its first    *)
(* connection made at the start of the server, the challenge that          *)
(* authenticates it, the requests that routes send over it, and the        *)
(* reconnection after every close.  Event handlers run one at a time, so   *)
(* each is one action.  The gateway may answer, refuse, keep silent, close *)
(* or break the connection at any moment.                                  *)
(*                                                                         *)
(* connect() returns a promise.  It is rejected by the error event and by  *)
(* a timer, and it is never resolved: the condition for that asks for a    *)
(* socket that is null, which only disconnect() makes it, and nothing      *)
(* calls disconnect().  Start awaits the promise of the first connection   *)
(* and nobody that of a later one: a rejection that nobody handles ends    *)
(* the process.                                                            *)
(***************************************************************************)
EXTENDS Integers, FiniteSets

CONSTANTS
  MaxConnections,       \* bound: connect() is called this often
  Queries,                \* requests that the routes receive
  maxReconnectAttempts,
  NotSent               \* a request that went over no connection

ASSUME BoundsAssumption == MaxConnections \in Nat \ {0} /\ maxReconnectAttempts \in Nat
ASSUME NamesAssumption == NotSent \notin Nat /\ \A c \in Queries : c \notin Nat

VARIABLES
  server,             \* running, or ended by an unhandled rejection
  socket,             \* each connection, as the ws library sees it
  promise,            \* the promise of each call of connect()
  deadline,           \* connections whose ten seconds are not over
  connected, authenticated,
  reconnectAttempts,
  retries,            \* timers that will call connect()
  request,            \* each request: where it was sent and what became of it
  pendingRequests     \* requests with an entry in the map and a timer

clientVars == <<server, socket, promise, deadline, connected, authenticated,
                reconnectAttempts, retries, request, pendingRequests>>

Connections == 1..MaxConnections

\* Every connection sends one request of its own to authenticate.
Requests == Queries \cup Connections

Live == {"connecting", "open", "closing"}
Used == {k \in Connections : socket[k] # "unused"}

\* The connection that this.ws refers to: the last one made.
ws == CHOOSE k \in Used : \A j \in Used : j <= k

\* A request has an answer, an error, its thirty seconds over, or was turned down at once.
Done == {"answered", "failed", "timed out", "refused"}

\* initialize: without a configuration and a token in it, connect() is never called.
InitClient ==
  /\ server = "running"
  /\ \E first \in {{}, {1}} :
       /\ socket = [k \in Connections |-> IF k \in first THEN "connecting" ELSE "unused"]
       /\ deadline = first
  /\ promise = [k \in Connections |-> "pending"]
  /\ connected = FALSE /\ authenticated = FALSE
  /\ reconnectAttempts = 0
  /\ retries = 0
  /\ request = [r \in Requests |-> [state |-> "new", over |-> NotSent]]
  /\ pendingRequests = {}

----------------------------------------------------------------------------
(* connect() and the events of its socket.                                 *)

\* start() catches what the first promise throws and carries on.
Reject(k) ==
  /\ promise' = [promise EXCEPT ![k] = "rejected"]
  /\ server' = IF k # 1 /\ promise[k] = "pending" THEN "ended" ELSE server

OpenEvent(k) ==
  /\ socket[k] = "connecting"
  /\ socket' = [socket EXCEPT ![k] = "open"]
  /\ connected' = TRUE
  /\ reconnectAttempts' = 0
  /\ UNCHANGED <<server, promise, deadline, authenticated, retries, request, pendingRequests>>

\* Mutant: the close of a connection leaves authenticated as it was.
Disconnected_ButAuthenticated == connected' = FALSE /\ UNCHANGED authenticated

Disconnected == connected' = FALSE /\ authenticated' = FALSE

\* Mutant: the close handler also clears the map of pending requests.
OnClose_ForgetsPending(k) ==
  /\ socket' = [socket EXCEPT ![k] = "closed"]
  /\ Disconnected
  /\ IF reconnectAttempts < maxReconnectAttempts
     THEN reconnectAttempts' = reconnectAttempts + 1 /\ retries' = retries + 1
     ELSE UNCHANGED <<reconnectAttempts, retries>>
  /\ pendingRequests' = {}
  /\ UNCHANGED <<deadline, request>>

\* The close handler, whatever closed the socket.  The requests sent over it stay pending.
OnClose(k) ==
  /\ socket' = [socket EXCEPT ![k] = "closed"]
  /\ Disconnected
  /\ IF reconnectAttempts < maxReconnectAttempts
     THEN reconnectAttempts' = reconnectAttempts + 1 /\ retries' = retries + 1
     ELSE UNCHANGED <<reconnectAttempts, retries>>
  /\ UNCHANGED <<deadline, request, pendingRequests>>

\* The gateway cannot be reached: an error and a close in one go.
ConnectFails(k) ==
  /\ socket[k] = "connecting"
  /\ Reject(k)
  /\ OnClose(k)

\* Mutant: the error handler schedules a reconnection as the close handler does.
StreamError_Reconnects(k) ==
  /\ socket[k] = "open"
  /\ socket' = [socket EXCEPT ![k] = "closing"]
  /\ Reject(k)
  /\ retries' = retries + 1
  /\ UNCHANGED <<deadline, connected, authenticated, reconnectAttempts, request, pendingRequests>>

\* The stream breaks the protocol: an error now, and a close when the socket is down.
StreamError(k) ==
  /\ socket[k] = "open"
  /\ socket' = [socket EXCEPT ![k] = "closing"]
  /\ Reject(k)
  /\ UNCHANGED <<deadline, connected, authenticated, reconnectAttempts, retries, request, pendingRequests>>

CloseEvent(k) ==
  /\ socket[k] \in {"open", "closing"}
  /\ OnClose(k)
  /\ UNCHANGED <<server, promise>>

\* Ten seconds after connect(), whatever has happened to the connection since.
ConnectTimeout(k) ==
  /\ k \in deadline
  /\ deadline' = deadline \ {k}
  /\ IF authenticated THEN UNCHANGED <<server, promise>> ELSE Reject(k)
  /\ UNCHANGED <<socket, connected, authenticated, reconnectAttempts, retries, request, pendingRequests>>

Reconnect ==
  /\ retries > 0
  /\ retries' = retries - 1
  /\ \E k \in Connections :
       /\ socket[k] = "unused"
       /\ \A j \in Connections : j < k => socket[j] # "unused"
       /\ socket' = [socket EXCEPT ![k] = "connecting"]
       /\ deadline' = deadline \cup {k}
  /\ UNCHANGED <<server, promise, connected, authenticated, reconnectAttempts, request, pendingRequests>>

----------------------------------------------------------------------------
(* Requests.                                                               *)

\* sendRequest, which fails at once when the client is not connected.
Send(r) ==
  /\ request' = [request EXCEPT ![r] = IF connected THEN [state |-> "waiting", over |-> ws]
                                       ELSE [state |-> "failed", over |-> NotSent]]
  /\ pendingRequests' = IF connected THEN pendingRequests \cup {r} ELSE pendingRequests

\* The gateway sends its challenge, and authenticate answers it.
Challenge(k) ==
  /\ socket[k] = "open"
  /\ request[k].state = "new"
  /\ Send(k)
  /\ UNCHANGED <<server, socket, promise, deadline, connected, authenticated, reconnectAttempts, retries>>

\* A route: it refuses when the client is not ready, and sends otherwise.
Route(c) ==
  /\ request[c].state = "new"
  /\ IF connected /\ authenticated THEN Send(c)
     ELSE /\ request' = [request EXCEPT ![c].state = "refused"]
          /\ UNCHANGED pendingRequests
  /\ UNCHANGED <<server, socket, promise, deadline, connected, authenticated, reconnectAttempts, retries>>

Settle(r, state) ==
  /\ request' = [request EXCEPT ![r].state = state]
  /\ pendingRequests' = pendingRequests \ {r}

\* The gateway's answer comes over the connection the request went, and is dropped when
\* its request has timed out.  The answer to connect may be another than hello-ok.
handleResponse(r, ok) ==
  /\ request[r].over # NotSent
  /\ socket[request[r].over] = "open"
  /\ r \in pendingRequests
  /\ Settle(r, IF ok THEN "answered" ELSE "failed")
  /\ authenticated' \in IF ok /\ r \in Connections THEN {TRUE, authenticated} ELSE {authenticated}
  /\ UNCHANGED <<server, socket, promise, deadline, connected, reconnectAttempts, retries>>

RequestTimeout(r) ==
  /\ r \in pendingRequests
  /\ Settle(r, "timed out")
  /\ UNCHANGED <<server, socket, promise, deadline, connected, authenticated, reconnectAttempts, retries>>

NextClient ==
  /\ server = "running"
  /\ \/ \E k \in Connections :
          \/ OpenEvent(k) \/ ConnectFails(k) \/ StreamError(k) \/ CloseEvent(k)
          \/ ConnectTimeout(k) \/ Challenge(k)
     \/ Reconnect
     \/ \E c \in Queries : Route(c)
     \/ \E r \in Requests : (\E ok \in BOOLEAN : handleResponse(r, ok)) \/ RequestTimeout(r)

\* Timers fire.  What the gateway does, and when, is its own affair.
ClientTimers ==
  \A c \in Queries : WF_clientVars(server = "running" /\ RequestTimeout(c))

SpecClient == InitClient /\ [][NextClient]_clientVars /\ ClientTimers

----------------------------------------------------------------------------
ClientTypeOK ==
  /\ server \in {"running", "ended"}
  /\ socket \in [Connections -> Live \cup {"unused", "closed"}]
  /\ promise \in [Connections -> {"pending", "rejected"}]
  /\ deadline \subseteq Used
  /\ connected \in BOOLEAN /\ authenticated \in BOOLEAN
  /\ reconnectAttempts \in 0..maxReconnectAttempts
  /\ retries \in Nat
  /\ \A r \in Requests : /\ request[r].state \in {"new", "waiting"} \cup Done
                        /\ request[r].over \in Connections \cup {NotSent}
  /\ pendingRequests = {r \in Requests : request[r].state = "waiting"}

\* There is never more than one connection, counting the one a timer is about to make:
\* the handlers share connected and authenticated and could not tell two apart
\* (openclaw-gateway-client.ts:128 and :136).
OneConnection == Cardinality({k \in Connections : socket[k] \in Live}) + retries <= 1

\* A client that calls itself ready has been authenticated over the connection it has now
\* and not over one before it (isReady, openclaw-gateway-client.ts:384).
ReadyMeansAuthenticated ==
  connected /\ authenticated =>
    socket[ws] \in {"open", "closing"} /\ request[ws].state = "answered"

\* Whatever happens to the connection it was sent over, the request of a route is answered,
\* fails or times out, unless the process ends (openclaw-gateway-client.ts:265).
RequestsSettle ==
  \A c \in Queries : (request[c].state = "waiting") ~> (request[c].state \in Done \/ server = "ended")

\* Without the gateway the server carries on (index.ts:142).
ContinuesWithoutGateway == server = "running"
=============================================================================
