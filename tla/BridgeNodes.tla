---------------------------- MODULE BridgeNodes ----------------------------
(***************************************************************************)
(* The WebSocket side of the agent bridge: pairing tokens, the handshake   *)
(* of a remote node, the in-memory map of connected nodes, and the nodes   *)
(* table.  The server is one event loop, so a handler runs alone between   *)
(* two awaits and its database calls interleave with every other event.    *)
(***************************************************************************)
EXTENDS Naturals, FiniteSets

CONSTANTS
  Sockets,      \* WebSocket connections, each used for one connection
  Tokens,       \* pairing tokens users generate
  Clients,      \* remote machines, identified by params.client.id (nodeKey)
  Devices,      \* device identities
  DeviceOf,     \* the device identity a client presents, or NoDevice
  NodeIds,      \* ids of rows of the nodes table
  NoSocket, NoDevice, NoNode, NoToken,
  Orderly,      \* clients that wait for the answer to their connect, and open a
                \* socket only when the server is done with their last one
  MaxFaults,    \* bound: writes the database refuses
  MaxStalls,    \* bound: event-loop stalls longer than HEARTBEAT_TIMEOUT
  MaxRestarts   \* bound: restarts of the server process

ASSUME DeviceAssumption == DeviceOf \in [Clients -> Devices \cup {NoDevice}]
ASSUME NullsAssumption  == /\ NoSocket \notin Sockets /\ NoDevice \notin Devices
                           /\ NoNode \notin NodeIds   /\ NoToken \notin Tokens
ASSUME BoundsAssumption == Orderly \subseteq Clients /\ MaxFaults \in Nat
                           /\ MaxStalls \in Nat /\ MaxRestarts \in Nat

VARIABLES
  socket,         \* readyState of each connection
  client,         \* the client at the other end
  nodeState,      \* the closure variable nodeState of each connection
  handler,        \* progress of the connection's connect request
  token,          \* pairing_tokens
  paired,         \* devices with an APPROVED device_pairings row
  deviceTokens,   \* devices whose client holds a device token (JWT)
  row,            \* the nodes table
  connectedNodes, \* the in-memory map from node id to connection
  offlineWrites,  \* OFFLINE updates issued and not yet executed
  unpair,         \* progress of DELETE /api/bridge/nodes/:nodeId
  stalls, restarts, faults

connVars == <<socket, client, nodeState, handler, token, paired, deviceTokens, row,
              connectedNodes, offlineWrites, unpair, stalls, restarts>>
nodeVars == <<connVars, faults>>

Row      == [status: {"unused", "ONLINE", "OFFLINE", "deleted"},
             key: Clients \cup {NoNode}, device: Devices \cup {NoDevice}]
Stages   == {"none", "pair", "burn", "upsert", "register"}
Handler  == [at: Stages, token: Tokens \cup {NoToken}, device: Devices \cup {NoDevice},
             node: NodeIds \cup {NoNode}]
Idle     == [at |-> "none", token |-> NoToken, device |-> NoDevice, node |-> NoNode]
Unused   == [status |-> "unused", key |-> NoNode, device |-> NoDevice]
Stored(n) == row[n].status \in {"ONLINE", "OFFLINE"}
Offline(rows, n) == IF rows[n].status = "ONLINE" THEN [rows EXCEPT ![n].status = "OFFLINE"] ELSE rows

InitNodes ==
  /\ socket = [s \in Sockets |-> "unborn"]
  /\ client \in [Sockets -> Clients]
  /\ nodeState = [s \in Sockets |-> NoNode]
  /\ handler = [s \in Sockets |-> Idle]
  /\ token = [t \in Tokens |-> "unissued"]
  /\ paired = {} /\ deviceTokens = {}
  /\ row = [n \in NodeIds |-> Unused]
  /\ connectedNodes = [n \in NodeIds |-> NoSocket]
  /\ offlineWrites = {}
  /\ unpair = [n \in NodeIds |-> "idle"]
  /\ stalls = 0 /\ restarts = 0 /\ faults = 0

Fault == faults < MaxFaults /\ faults' = faults + 1

----------------------------------------------------------------------------
(* Pairing tokens (bridge.routes.ts).  Issued and expired tokens are rows. *)

GenerateToken(t) ==
  /\ token[t] = "unissued"
  /\ token' = [token EXCEPT ![t] = "live"]
  /\ UNCHANGED <<socket, client, nodeState, handler, paired, deviceTokens, row,
                 connectedNodes, offlineWrites, unpair, stalls, restarts, faults>>

ExpireToken(t) ==
  /\ token[t] = "live"
  /\ token' = [token EXCEPT ![t] = "expired"]
  /\ UNCHANGED <<socket, client, nodeState, handler, paired, deviceTokens, row,
                 connectedNodes, offlineWrites, unpair, stalls, restarts, faults>>

----------------------------------------------------------------------------
(* A connection and its connect request.  A client sends one connect at a  *)
(* time, and none once it has been accepted.  Requests the handler refuses *)
(* before its first write change nothing and are not steps.                *)

Busy(s) == socket[s] \in {"open", "closing"} \/ handler[s] # Idle
           \/ \E w \in offlineWrites : w.socket = s

Accept(s) ==
  /\ socket[s] = "unborn"
  /\ client[s] \in Orderly => \A o \in Sockets : client[o] = client[s] => ~Busy(o)
  /\ socket' = [socket EXCEPT ![s] = "open"]
  /\ UNCHANGED <<client, nodeState, handler, token, paired, deviceTokens, row,
                 connectedNodes, offlineWrites, unpair, stalls, restarts, faults>>

MayConnect(s) == socket[s] = "open" /\ handler[s] = Idle /\ nodeState[s] = NoNode

\* A token that was found and has not expired: the row is read here and deleted later.
Admits(t) == token[t] = "live"

\* The order of the writes once the token row has been read.
NextStage(d) == IF d = NoDevice THEN "burn" ELSE "pair"

ConnectWithToken(s, t) ==
  /\ MayConnect(s)
  /\ Admits(t)
  /\ LET d == DeviceOf[client[s]] IN
       handler' = [handler EXCEPT ![s] =
                     [at |-> NextStage(d), token |-> t, device |-> d, node |-> NoNode]]
  /\ UNCHANGED <<socket, client, nodeState, token, paired, deviceTokens, row,
                 connectedNodes, offlineWrites, unpair, stalls, restarts, faults>>

\* A device token names its device; one issued without a device identity names the
\* node instead, matches no device pairing and is refused.
ConnectWithDevice(s) ==
  /\ MayConnect(s)
  /\ DeviceOf[client[s]] \in paired \cap deviceTokens
  /\ handler' = [handler EXCEPT ![s] =
                   [Idle EXCEPT !.at = "upsert", !.device = DeviceOf[client[s]]]]
  /\ UNCHANGED <<socket, client, nodeState, token, paired, deviceTokens, row,
                 connectedNodes, offlineWrites, unpair, stalls, restarts, faults>>

PairDevice(s) ==
  /\ handler[s].at = "pair"
  /\ paired' = paired \cup {handler[s].device}
  /\ handler' = [handler EXCEPT ![s].at = "burn"]
  /\ UNCHANGED <<socket, client, nodeState, token, deviceTokens, row,
                 connectedNodes, offlineWrites, unpair, stalls, restarts, faults>>

\* Mutant: the row is left in the table.
BurnToken_Missing(s) ==
  /\ handler[s].at = "burn"
  /\ handler' = [handler EXCEPT ![s].at = "upsert"]
  /\ UNCHANGED <<socket, client, nodeState, token, paired, deviceTokens, row,
                 connectedNodes, offlineWrites, unpair, stalls, restarts, faults>>

\* DELETE ... WHERE token: deleting a row that is gone already is not an error.
BurnToken(s) ==
  /\ handler[s].at = "burn"
  /\ token' = [token EXCEPT ![handler[s].token] = "gone"]
  /\ handler' = [handler EXCEPT ![s].at = "upsert"]
  /\ UNCHANGED <<socket, client, nodeState, paired, deviceTokens, row,
                 connectedNodes, offlineWrites, unpair, stalls, restarts, faults>>

\* The row the upsert writes: the one with this nodeKey, else a new one.
Target(s, n) == IF \E m \in NodeIds : Stored(m) /\ row[m].key = client[s]
                THEN Stored(n) /\ row[n].key = client[s]
                ELSE row[n].status = "unused"

\* nodes.device_id is unique; an update without a device keeps the stored one.
DeviceFree(d, n) == d # NoDevice => \A m \in NodeIds \ {n} : Stored(m) => row[m].device # d

\* Mutant: the row is written by nobody.
UpsertNode_NotStored(s) ==
  /\ handler[s].at = "upsert"
  /\ \E n \in NodeIds : Target(s, n) /\ handler' = [handler EXCEPT ![s].at = "register", ![s].node = n]
  /\ UNCHANGED <<socket, client, nodeState, token, paired, deviceTokens, row,
                 connectedNodes, offlineWrites, unpair, stalls, restarts, faults>>

UpsertNode(s) ==
  /\ handler[s].at = "upsert"
  /\ \E n \in NodeIds :
       LET d == handler[s].device IN
       /\ Target(s, n)
       /\ DeviceFree(d, n)
       /\ row' = [row EXCEPT ![n] = [status |-> "ONLINE", key |-> client[s],
                    device |-> IF d = NoDevice THEN row[n].device ELSE d]]
       /\ handler' = [handler EXCEPT ![s].at = "register", ![s].node = n]
  /\ UNCHANGED <<socket, client, nodeState, token, paired, deviceTokens,
                 connectedNodes, offlineWrites, unpair, stalls, restarts, faults>>

\* Mutant: onNodeConnected is not called.
RegisterNode_NoCallback(s) ==
  /\ handler[s].at = "register"
  /\ connectedNodes' = [connectedNodes EXCEPT ![handler[s].node] = s]
  /\ handler' = [handler EXCEPT ![s] = Idle]
  /\ UNCHANGED <<socket, client, nodeState, token, paired, deviceTokens, row, offlineWrites,
                 unpair, stalls, restarts, faults>>

\* The continuation of the upsert: it does not ask whether the socket still lives.
RegisterNode(s) ==
  /\ handler[s].at = "register"
  /\ LET n == handler[s].node  d == handler[s].device IN
       /\ connectedNodes' = [connectedNodes EXCEPT ![n] = s]
       /\ nodeState' = [nodeState EXCEPT ![s] = n]
       /\ deviceTokens' = IF d # NoDevice /\ socket[s] = "open"
                          THEN deviceTokens \cup {d} ELSE deviceTokens
  /\ handler' = [handler EXCEPT ![s] = Idle]
  /\ UNCHANGED <<socket, client, token, paired, row, offlineWrites, unpair, stalls, restarts, faults>>

\* A database call of the handler throws, the upsert among others because the device
\* belongs to another node: the client is told INTERNAL_ERROR and nothing already
\* written is undone.
FailConnect(s) ==
  /\ \/ handler[s].at \in {"pair", "burn", "upsert"} /\ Fault
     \/ /\ handler[s].at = "upsert"
        /\ \A n \in NodeIds : Target(s, n) => ~DeviceFree(handler[s].device, n)
        /\ UNCHANGED faults
  /\ handler' = [handler EXCEPT ![s] = Idle]
  /\ UNCHANGED <<socket, client, nodeState, token, paired, deviceTokens, row,
                 connectedNodes, offlineWrites, unpair, stalls, restarts>>

----------------------------------------------------------------------------
(* Disconnection.                                                          *)

PeerCloses(s) ==
  /\ socket[s] = "open"
  /\ client[s] \in Orderly => handler[s] = Idle
  /\ socket' = [socket EXCEPT ![s] = "closing"]
  /\ UNCHANGED <<client, nodeState, handler, token, paired, deviceTokens, row,
                 connectedNodes, offlineWrites, unpair, stalls, restarts, faults>>

\* Mutant: the close handler forgets the map.
Without_Kept(n) == connectedNodes

\* The map without the entry of node n, whichever connection the entry names.
Without(n) == IF n = NoNode THEN connectedNodes ELSE [connectedNodes EXCEPT ![n] = NoSocket]

\* Mutant: no update is issued.
OfflineBy_None(who, s, n) == {}

OfflineBy(who, s, n) == IF n = NoNode THEN {} ELSE {[by |-> who, socket |-> s, node |-> n]}

CloseEvent(s) ==
  /\ socket[s] = "closing"
  /\ socket' = [socket EXCEPT ![s] = "closed"]
  /\ connectedNodes' = Without(nodeState[s])
  /\ offlineWrites' = offlineWrites \cup OfflineBy("close", s, nodeState[s])
  /\ UNCHANGED <<client, nodeState, handler, token, paired, deviceTokens, row,
                 unpair, stalls, restarts, faults>>

\* Mutant: the update is never sent.
OfflineWrite_Lost(w) ==
  /\ w \in offlineWrites
  /\ offlineWrites' = offlineWrites \ {w}
  /\ UNCHANGED <<socket, client, nodeState, handler, token, paired, deviceTokens, row,
                 connectedNodes, unpair, stalls, restarts, faults>>

\* The update is executed, or fails (a deleted row among others) and is only logged.
OfflineWrite(w) ==
  /\ w \in offlineWrites
  /\ offlineWrites' = offlineWrites \ {w}
  /\ \/ row' = Offline(row, w.node) /\ UNCHANGED faults
     \/ Fault /\ UNCHANGED row
  /\ UNCHANGED <<socket, client, nodeState, handler, token, paired, deviceTokens,
                 connectedNodes, unpair, stalls, restarts>>

\* Each check refreshes lastPing itself, so a node times out only when the event loop
\* stalled for longer than HEARTBEAT_TIMEOUT; then all nodes pinged before it do.
Shut(s) == IF socket[s] = "open" THEN "closing" ELSE socket[s]

heartbeatCheck(N) ==
  /\ stalls < MaxStalls
  /\ N # {} /\ \A n \in N : connectedNodes[n] # NoSocket
  /\ socket' = [s \in Sockets |-> IF \E n \in N : connectedNodes[n] = s THEN Shut(s) ELSE socket[s]]
  /\ connectedNodes' = [n \in NodeIds |-> IF n \in N THEN NoSocket ELSE connectedNodes[n]]
  /\ offlineWrites' = offlineWrites \cup
       UNION {OfflineBy("heartbeat", connectedNodes[n], n) : n \in N}
  /\ stalls' = stalls + 1
  /\ UNCHANGED <<client, nodeState, handler, token, paired, deviceTokens, row, unpair, restarts, faults>>

----------------------------------------------------------------------------
(* unpairNode: read the row, disconnect the node when the row says ONLINE, *)
(* delete the row.                                                         *)

UnpairNode(n) ==
  /\ unpair[n] = "idle"
  /\ Stored(n)
  /\ unpair' = [unpair EXCEPT ![n] = IF row[n].status = "ONLINE" THEN "disconnect" ELSE "delete"]
  /\ UNCHANGED <<socket, client, nodeState, handler, token, paired, deviceTokens, row,
                 connectedNodes, offlineWrites, stalls, restarts, faults>>

disconnectNode(n) ==
  /\ unpair[n] = "disconnect"
  /\ LET s == connectedNodes[n] IN
       IF s = NoSocket
       THEN /\ unpair' = [unpair EXCEPT ![n] = "delete"]
            /\ UNCHANGED <<socket, connectedNodes>>
       ELSE /\ unpair' = [unpair EXCEPT ![n] = "offline"]
            /\ socket' = [socket EXCEPT ![s] = Shut(s)]
            /\ connectedNodes' = Without(n)
  /\ UNCHANGED <<client, nodeState, handler, token, paired, deviceTokens, row,
                 offlineWrites, stalls, restarts, faults>>

\* An error of the update is caught and the deletion goes on.
DisconnectWrite(n) ==
  /\ unpair[n] = "offline"
  /\ unpair' = [unpair EXCEPT ![n] = "delete"]
  /\ \/ row' = Offline(row, n) /\ UNCHANGED faults
     \/ Fault /\ UNCHANGED row
  /\ UNCHANGED <<socket, client, nodeState, handler, token, paired, deviceTokens,
                 connectedNodes, offlineWrites, stalls, restarts>>

UnpairDelete(n) ==
  /\ unpair[n] = "delete"
  /\ unpair' = [unpair EXCEPT ![n] = "idle"]
  /\ \/ row' = [row EXCEPT ![n].status = "deleted"] /\ UNCHANGED faults
     \/ Fault /\ UNCHANGED row
  /\ UNCHANGED <<socket, client, nodeState, handler, token, paired, deviceTokens,
                 connectedNodes, offlineWrites, stalls, restarts>>

----------------------------------------------------------------------------
(* The process restarts: memory is lost, the tables stay as they are.      *)

Restart ==
  /\ restarts < MaxRestarts
  /\ restarts' = restarts + 1
  /\ socket' = [s \in Sockets |-> IF socket[s] = "unborn" THEN "unborn" ELSE "closed"]
  /\ nodeState' = [s \in Sockets |-> NoNode]
  /\ handler' = [s \in Sockets |-> Idle]
  /\ connectedNodes' = [n \in NodeIds |-> NoSocket]
  /\ offlineWrites' = {}
  /\ unpair' = [n \in NodeIds |-> "idle"]
  /\ UNCHANGED <<client, token, paired, deviceTokens, row, stalls, faults>>

NodeSteps ==
  \/ \E t \in Tokens : GenerateToken(t) \/ ExpireToken(t)
  \/ \E s \in Sockets :
       \/ Accept(s) \/ ConnectWithDevice(s) \/ PairDevice(s) \/ BurnToken(s)
       \/ UpsertNode(s) \/ RegisterNode(s) \/ FailConnect(s)
       \/ PeerCloses(s) \/ CloseEvent(s)
       \/ \E t \in Tokens : ConnectWithToken(s, t)
  \/ \E w \in offlineWrites : OfflineWrite(w)
  \/ \E N \in SUBSET NodeIds : heartbeatCheck(N)
  \/ \E n \in NodeIds : UnpairNode(n) \/ disconnectNode(n) \/ DisconnectWrite(n) \/ UnpairDelete(n)

NextNodes == NodeSteps \/ Restart

SpecNodes == InitNodes /\ [][NextNodes]_nodeVars

\* The event loop delivers a close event and the database answers; nothing obliges a
\* peer, a user or the clock.
ServerSteps ==
  /\ \A s \in Sockets : WF_nodeVars(CloseEvent(s))
  /\ \A s \in Sockets, n \in NodeIds, by \in {"close", "heartbeat"} :
       WF_nodeVars(OfflineWrite([by |-> by, socket |-> s, node |-> n]))

----------------------------------------------------------------------------
(* Type correctness: every variable keeps its type, and a handler past the *)
(* upsert names a row that was stored.                                     *)

TypeOK ==
  /\ socket \in [Sockets -> {"unborn", "open", "closing", "closed"}]
  /\ client \in [Sockets -> Clients]
  /\ nodeState \in [Sockets -> NodeIds \cup {NoNode}]
  /\ handler \in [Sockets -> Handler]
  /\ token \in [Tokens -> {"unissued", "live", "expired", "gone"}]
  /\ paired \subseteq Devices /\ deviceTokens \subseteq Devices
  /\ row \in [NodeIds -> Row]
  /\ connectedNodes \in [NodeIds -> Sockets \cup {NoSocket}]
  /\ offlineWrites \subseteq [by : {"close", "heartbeat"}, socket : Sockets, node : NodeIds]
  /\ unpair \in [NodeIds -> {"idle", "disconnect", "offline", "delete"}]
  /\ stalls \in 0..MaxStalls /\ restarts \in 0..MaxRestarts /\ faults \in 0..MaxFaults
  /\ \A s \in Sockets : handler[s].at = "register" => row[handler[s].node].status # "unused"

\* The map and the connections agree: an entry names a connection that holds that node
\* as its own, whatever closes, times out or reconnects (websocket-server.ts:380).
EntryKnowsItsNode ==
  \A n \in NodeIds : connectedNodes[n] # NoSocket => nodeState[connectedNodes[n]] = n

\* When a connection whose handshake had finished closes, no entry names it any more
\* (the close handler of websocket-server.ts:165).
ClosedSocketsLeaveTheMap ==
  [][\A s \in Sockets : socket[s] # "closed" /\ socket'[s] = "closed" /\ nodeState[s] # NoNode
        => \A n \in NodeIds : connectedNodes'[n] # s]_nodeVars

\* A connection comes to write its node only when its pairing token is no longer stored
\* (websocket-server.ts:331), so a failure after that point has used the token up.
TokenSpentBeforeNodeStored ==
  \A s \in Sockets : handler[s].at \in {"upsert", "register"} /\ handler[s].token # NoToken
                        => token[handler[s].token] = "gone"

\* Nothing about node n is under way.
AtRest(n) ==
  /\ unpair[n] = "idle"
  /\ \A w \in offlineWrites : w.node # n
  /\ \A s \in Sockets : handler[s].node # n /\ socket[s] # "closing"

\* As long as no write was refused and the process has not restarted, a node of an
\* orderly client is, at rest, ONLINE in the table exactly when the map holds a
\* connection for it, whatever the clients beside it do.
StatusMatchesMap ==
  faults = 0 /\ restarts = 0 =>
    \A n \in NodeIds : AtRest(n) /\ Stored(n) /\ row[n].key \in Orderly
       => (row[n].status = "ONLINE" <=> connectedNodes[n] # NoSocket)

\* What the map, the table and the tokens say of nodes, of the three above.
NodesInOrder == EntryKnowsItsNode /\ TokenSpentBeforeNodeStored /\ StatusMatchesMap

\* When the connection of a node goes away, the table comes to show it (the OFFLINE
\* update of websocket-server.ts:170 and :623), unless the process restarts.
DisconnectShows ==
  \A s \in Sockets, n \in NodeIds :
    socket[s] = "closing" /\ nodeState[s] = n
      ~> row[n].status # "ONLINE" \/ faults > 0 \/ restarts > 0

----------------------------------------------------------------------------
\* "Store active connections by nodeId" (websocket-server.ts:94): a node with an open,
\* accepted connection is in the map.
ActiveConnectionsStored ==
  \A s \in Sockets : socket[s] = "open" /\ nodeState[s] # NoNode
                        => connectedNodes[nodeState[s]] # NoSocket

\* "Delete pairing token (single-use)" (websocket-server.ts:330): two connections never come
\* to write their nodes on the same token.
TokenAdmitsOnce ==
  LET Admitted == {s \in Sockets : handler[s].at \in {"upsert", "register"} /\ handler[s].token # NoToken} IN
  \A s, o \in Admitted : s # o => handler[s].token # handler[o].token
=============================================================================
