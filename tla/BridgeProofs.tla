---------------------------- MODULE BridgeProofs ----------------------------
(***************************************************************************)
(* Proofs about the bridge, for any number of sockets, clients, nodes and  *)
(* instructions.  First the nodes: the map of connections and the nodes    *)
(* table agree, whatever closes, times out, reconnects, is unpaired or     *)
(* restarts.  NodesInOrder is not inductive: it says nothing of a handler  *)
(* between its awaits or of an update on its way.  NodesInv adds what is   *)
(* known there.  Then the relay: whatever happens to the nodes, what is    *)
(* billed was stored and what was stored was shown.                        *)
(***************************************************************************)
EXTENDS BridgeRelay, TLAPS

\* A connect request: whether one is under way, and what is known at each point of it.  A
\* connection that has a node of its own makes no request any more.
HandlersOK == \A s \in Sockets :
  /\ handler[s].at = "none" => handler[s] = Idle
  /\ handler[s].at # "none" => nodeState[s] = NoNode
  /\ handler[s].at \in {"pair", "burn"} => handler[s].token \in Tokens
  /\ handler[s].at = "pair" => handler[s].device \in Devices
  /\ handler[s].at \in {"upsert", "register"} /\ handler[s].token # NoToken => token[handler[s].token] = "gone"
  /\ handler[s].at = "register" => handler[s].node \in NodeIds

\* An update that is issued is of a connection that the map has already forgotten.
WritesOK == \A w \in offlineWrites :
  nodeState[w.socket] = w.node /\ connectedNodes[w.node] # w.socket

\* The row of a node keeps the key of the client that holds the node or has just stored it.
KeysOK == \A s \in Sockets :
  /\ nodeState[s] # NoNode => row[nodeState[s]].status # "unused" /\ row[nodeState[s]].key = client[s]
  /\ handler[s].at = "register" => /\ row[handler[s].node].status # "unused"
                                   /\ row[handler[s].node].key = client[s]

\* An orderly client is served by one connection at a time.
OrderlyOK == \A s \in Sockets : client[s] \in Orderly =>
  /\ handler[s].at # "none" => socket[s] = "open"
  /\ \A n \in NodeIds : connectedNodes[n] = s => socket[s] \in {"open", "closing"}
  /\ \A o \in Sockets \ {s} : client[o] = client[s] => ~(Busy(s) /\ Busy(o))

\* Between two of its handlers, node n is ONLINE in the table only if it is connected, has
\* just been stored or is about to be OFFLINE; and a connected one of an orderly client is.
StatusOK(n) ==
  /\ row[n].status = "ONLINE" /\ connectedNodes[n] = NoSocket =>
       \/ \E s \in Sockets : handler[s].at = "register" /\ handler[s].node = n
       \/ \E w \in offlineWrites : w.node = n
  /\ Stored(n) /\ row[n].key \in Orderly /\ connectedNodes[n] # NoSocket => row[n].status = "ONLINE"
  /\ \A s \in Sockets : handler[s].at = "register" /\ handler[s].node = n /\ client[s] \in Orderly /\ Stored(n)
       => row[n].status = "ONLINE"

StatusesOK == faults = 0 /\ restarts = 0 => \A n \in NodeIds : unpair[n] = "idle" => StatusOK(n)

NodesInv ==
  /\ TypeOK
  /\ HandlersOK
  /\ EntryKnowsItsNode
  /\ WritesOK
  /\ KeysOK
  /\ OrderlyOK
  /\ StatusesOK

----------------------------------------------------------------------------
\* The bridge starts with nothing under way.
LEMMA NodesStart == InitNodes => NodesInv
<1> SUFFICES ASSUME InitNodes PROVE NodesInv
  OBVIOUS
<1> USE DEF InitNodes
<1>1. Idle \in Handler /\ Idle.at = "none"  BY DEF Idle, Handler, Stages
<1>2. Unused \in Row /\ Unused.status = "unused"  BY DEF Unused, Row
<1>3. TypeOK
  <2>1. stalls \in 0..MaxStalls /\ restarts \in 0..MaxRestarts /\ faults \in 0..MaxFaults  BY BoundsAssumption
  <2>2. handler \in [Sockets -> Handler] /\ row \in [NodeIds -> Row]  BY <1>1, <1>2
  <2>3. \A s \in Sockets : handler[s].at # "register"  BY <1>1
  <2> QED  BY <2>1, <2>2, <2>3 DEF TypeOK
<1>4. HandlersOK  BY <1>1 DEF HandlersOK
<1>5. EntryKnowsItsNode /\ WritesOK  BY DEF EntryKnowsItsNode, WritesOK
<1>6. KeysOK  BY <1>1 DEF KeysOK
<1>7. OrderlyOK
  <2>1. \A s \in Sockets : ~Busy(s)  BY DEF Busy
  <2>2. \A s \in Sockets, n \in NodeIds : connectedNodes[n] # s  BY NullsAssumption
  <2> QED  BY <2>1, <2>2, <1>1 DEF OrderlyOK
<1>8. StatusesOK  BY <1>1, <1>2 DEF StatusesOK, StatusOK, Stored
<1> QED  BY <1>3, <1>4, <1>5, <1>6, <1>7, <1>8 DEF NodesInv

----------------------------------------------------------------------------
(* What holds of a step whatever it does.                                  *)

\* A connection is busy only if the invariant lets it be: what makes it so.
LEMMA BusyMeans ==
  ASSUME NodesInv, NEW s \in Sockets
  PROVE  Busy(s) <=> \/ socket[s] \in {"open", "closing"} \/ handler[s].at # "none"
                     \/ \E w \in offlineWrites : w.socket = s
<1>1. handler[s].at = "none" => handler[s] = Idle  BY DEF NodesInv, HandlersOK
<1>2. handler[s] = Idle => handler[s].at = "none"  BY DEF Idle
<1> QED  BY <1>1, <1>2 DEF Busy

----------------------------------------------------------------------------
(* Pairing tokens.                                                         *)

\* A token that is issued or expires was not used up.
LEMMA TokenStep ==
  ASSUME NodesInv, NEW t \in Tokens, GenerateToken(t) \/ ExpireToken(t)
  PROVE  NodesInv'
<1>1. /\ token[t] \in {"unissued", "live"} /\ \E to \in {"live", "expired"} : token' = [token EXCEPT ![t] = to]
      /\ UNCHANGED <<socket, client, nodeState, handler, paired, deviceTokens, row,
                     connectedNodes, offlineWrites, unpair, stalls, restarts, faults>>
  BY DEF GenerateToken, ExpireToken
<1> USE <1>1 DEF NodesInv
<1>2. TypeOK'  BY DEF TypeOK
<1>3. HandlersOK'  
  <2>1. \A x \in Tokens : token[x] = "gone" => token'[x] = "gone"  BY DEF TypeOK
  <2>2. \A s \in Sockets : handler[s].token \in Tokens \cup {NoToken}  BY DEF TypeOK, Handler
  <2> QED  BY <2>1, <2>2 DEF HandlersOK
<1>4. EntryKnowsItsNode' /\ WritesOK'  BY DEF EntryKnowsItsNode, WritesOK
<1>5. KeysOK'  BY DEF KeysOK
<1>6. OrderlyOK'  BY DEF OrderlyOK, Busy
<1>7. StatusesOK'  BY DEF StatusesOK, StatusOK, Stored
<1> QED  BY <1>2, <1>3, <1>4, <1>5, <1>6, <1>7

----------------------------------------------------------------------------
(* The handshake, up to the write of the node.                             *)

\* A step of a request that is not at the last stage before it or after it.
LEMMA RequestStep ==
  ASSUME NodesInv, NEW s \in Sockets, NEW h \in Handler,
         handler' = [handler EXCEPT ![s] = h], handler[s].at # "register", h.at # "register",
         h.at = "none" => h = Idle,
         h.at # "none" => nodeState[s] = NoNode /\ (handler[s].at # "none" \/ socket[s] = "open"),
         h.at \in {"pair", "burn"} => h.token \in Tokens,
         h.at = "pair" => h.device \in Devices,
         token' \in [Tokens -> {"unissued", "live", "expired", "gone"}],
         \A x \in Tokens : token[x] = "gone" => token'[x] = "gone",
         h.at = "upsert" /\ h.token # NoToken => token'[h.token] = "gone",
         paired' \subseteq Devices, faults' \in 0..MaxFaults, faults' >= faults,
         UNCHANGED <<socket, client, nodeState, deviceTokens, row, connectedNodes, offlineWrites, unpair,
                     stalls, restarts>>
  PROVE  NodesInv'
<1> USE DEF NodesInv
<1>1. handler'[s] = h /\ \A o \in Sockets \ {s} : handler'[o] = handler[o]  BY DEF TypeOK
<1>2. \A o \in Sockets : handler'[o].at = "register" <=> handler[o].at = "register"  BY <1>1
<1>3. \A o \in Sockets : handler'[o].at = "register" => handler'[o] = handler[o]  BY <1>1
<1>4. TypeOK'  BY <1>2, <1>3 DEF TypeOK
<1>5. HandlersOK'
  <2>1. \A o \in Sockets : handler[o].token \in Tokens \cup {NoToken}  BY DEF TypeOK, Handler
  <2>2. ASSUME NEW o \in Sockets \ {s}
        PROVE  handler'[o].at \in {"upsert", "register"} /\ handler'[o].token # NoToken => token'[handler'[o].token] = "gone"
    BY <1>1, <2>1 DEF HandlersOK
  <2> QED  BY <1>1, <2>2 DEF HandlersOK
<1>6. EntryKnowsItsNode' /\ WritesOK'  BY DEF EntryKnowsItsNode, WritesOK
<1>7. KeysOK'  BY <1>3, <1>2 DEF KeysOK
<1>8. OrderlyOK'
  <2>1. \A o \in Sockets : Busy(o)' <=> \/ socket[o] \in {"open", "closing"} \/ handler'[o].at # "none"
                                        \/ \E w \in offlineWrites : w.socket = o
    <3>1. \A o \in Sockets : handler'[o] = Idle <=> handler'[o].at = "none"  BY <1>5 DEF HandlersOK, Idle
    <3> QED  BY <3>1 DEF Busy
  <2>2. \A o \in Sockets : Busy(o)' => Busy(o)  BY <2>1, <1>1, BusyMeans
  <2>3. \A o \in Sockets : handler'[o].at # "none" => handler[o].at # "none" \/ socket[o] = "open"  BY <1>1
  <2> QED  BY <2>2, <2>3 DEF OrderlyOK
<1>9. StatusesOK'
  <2> SUFFICES ASSUME faults' = 0, restarts = 0, NEW n \in NodeIds, unpair[n] = "idle"
               PROVE  StatusOK(n)'
    BY DEF StatusesOK
  <2>1. StatusOK(n)  BY DEF StatusesOK, TypeOK
  <2>2. \A o \in Sockets : (handler'[o].at = "register" /\ handler'[o].node = n) <=> (handler[o].at = "register" /\ handler[o].node = n)
    BY <1>2, <1>3
  <2> QED  BY <2>1, <2>2 DEF StatusOK, Stored
<1> QED  BY <1>4, <1>5, <1>6, <1>7, <1>8, <1>9

\* Facts about the tables that the steps of a handshake keep citing.
LEMMA GoneStays ==
  ASSUME NodesInv
  PROVE  /\ token \in [Tokens -> {"unissued", "live", "expired", "gone"}]
         /\ paired \subseteq Devices /\ faults \in 0..MaxFaults /\ faults >= faults
         /\ \A s \in Sockets : handler[s] \in Handler
BY DEF NodesInv, TypeOK

\* Each step of the handshake before the node's upsert is such a step of a request.
LEMMA HandshakeStep ==
  ASSUME NodesInv, NEW s \in Sockets,
         \/ \E t \in Tokens : ConnectWithToken(s, t)
         \/ ConnectWithDevice(s) \/ PairDevice(s) \/ BurnToken(s) \/ FailConnect(s)
  PROVE  NodesInv'
<1> DEFINE h == handler[s]
<1>0. h \in Handler /\ Idle \in Handler /\ Idle.at = "none" /\ Idle.token = NoToken  BY GoneStays DEF Handler, Idle, Stages
<1>1. CASE \E t \in Tokens : ConnectWithToken(s, t)
  <2>1. PICK t \in Tokens : ConnectWithToken(s, t)  BY <1>1
  <2> DEFINE d == DeviceOf[client[s]]
             e == [at |-> NextStage(d), token |-> t, device |-> d, node |-> NoNode]
  <2>2. /\ handler' = [handler EXCEPT ![s] = e] /\ socket[s] = "open" /\ handler[s] = Idle /\ nodeState[s] = NoNode
        /\ UNCHANGED <<socket, client, nodeState, token, paired, deviceTokens, row,
                       connectedNodes, offlineWrites, unpair, stalls, restarts, faults>>
    BY <2>1 DEF ConnectWithToken, MayConnect
  <2>3. d \in Devices \cup {NoDevice}  BY DeviceAssumption DEF NodesInv, TypeOK
  <2> HIDE DEF d
  <2>4. e \in Handler /\ e.at \in {"pair", "burn"} /\ e.token = t /\ (e.at = "pair" => e.device \in Devices)
    BY <2>3 DEF NextStage, Handler, Stages
  <2> HIDE DEF e
  <2> QED  BY <2>2, <2>4, <1>0, GoneStays, RequestStep
<1>2. CASE ConnectWithDevice(s)
  <2> DEFINE e == [Idle EXCEPT !.at = "upsert", !.device = DeviceOf[client[s]]]
  <2>2. /\ handler' = [handler EXCEPT ![s] = e] /\ socket[s] = "open" /\ handler[s] = Idle /\ nodeState[s] = NoNode
        /\ UNCHANGED <<socket, client, nodeState, token, paired, deviceTokens, row,
                       connectedNodes, offlineWrites, unpair, stalls, restarts, faults>>
    BY <1>2 DEF ConnectWithDevice, MayConnect
  <2>3. DeviceOf[client[s]] \in Devices \cup {NoDevice}  BY DeviceAssumption DEF NodesInv, TypeOK
  <2>4. e \in Handler /\ e.at = "upsert" /\ e.token = NoToken
    BY <2>3, <1>0 DEF Handler, Stages, Idle
  <2> HIDE DEF e
  <2> QED  BY <2>2, <2>4, <1>0, GoneStays, RequestStep
<1>3. CASE PairDevice(s)
  <2> DEFINE e == [h EXCEPT !.at = "burn"]
  <2>2. /\ handler' = [handler EXCEPT ![s] = e] /\ h.at = "pair" /\ paired' = paired \cup {h.device}
        /\ UNCHANGED <<socket, client, nodeState, token, deviceTokens, row,
                       connectedNodes, offlineWrites, unpair, stalls, restarts, faults>>
    BY <1>3 DEF PairDevice
  <2>3. h.device \in Devices /\ h.token \in Tokens /\ nodeState[s] = NoNode  BY <2>2 DEF NodesInv, HandlersOK
  <2> HIDE DEF h
  <2>4. e \in Handler /\ e.at = "burn" /\ e.token = h.token  BY <1>0 DEF Handler, Stages
  <2> HIDE DEF e
  <2> QED  BY <2>2, <2>3, <2>4, GoneStays, RequestStep DEF h
<1>4. CASE BurnToken(s)
  <2> DEFINE e == [h EXCEPT !.at = "upsert"]
  <2>2. /\ handler' = [handler EXCEPT ![s] = e] /\ h.at = "burn" /\ token' = [token EXCEPT ![h.token] = "gone"]
        /\ UNCHANGED <<socket, client, nodeState, paired, deviceTokens, row,
                       connectedNodes, offlineWrites, unpair, stalls, restarts, faults>>
    BY <1>4 DEF BurnToken
  <2>3. h.token \in Tokens /\ nodeState[s] = NoNode  BY <2>2 DEF NodesInv, HandlersOK
  <2>5. /\ token'[h.token] = "gone" /\ token' \in [Tokens -> {"unissued", "live", "expired", "gone"}]
        /\ \A x \in Tokens : token[x] = "gone" => token'[x] = "gone"
    BY <2>2, <2>3, GoneStays
  <2> HIDE DEF h
  <2>4. e \in Handler /\ e.at = "upsert" /\ e.token = h.token  BY <1>0 DEF Handler, Stages
  <2> HIDE DEF e
  <2> QED  BY <2>2, <2>3, <2>4, <2>5, GoneStays, RequestStep DEF h
<1>5. CASE FailConnect(s)
  <2>1. /\ handler' = [handler EXCEPT ![s] = Idle] /\ h.at \in {"pair", "burn", "upsert"}
        /\ faults' \in 0..MaxFaults /\ faults' >= faults
        /\ UNCHANGED <<socket, client, nodeState, token, paired, deviceTokens, row,
                       connectedNodes, offlineWrites, unpair, stalls, restarts>>
    BY <1>5, GoneStays, BoundsAssumption DEF FailConnect, Fault
  <2> QED  BY <2>1, <1>0, GoneStays, RequestStep
<1> QED  BY <1>1, <1>2, <1>3, <1>4, <1>5

----------------------------------------------------------------------------
(* Sockets that open and close.                                            *)

\* A new connection of an orderly client finds none of its connections busy.
LEMMA AcceptStep == ASSUME NodesInv, NEW s \in Sockets, Accept(s) PROVE NodesInv'
<1> USE DEF NodesInv
<1>1. /\ socket[s] = "unborn" /\ socket' = [socket EXCEPT ![s] = "open"]
      /\ client[s] \in Orderly => \A o \in Sockets : client[o] = client[s] => ~Busy(o)
      /\ UNCHANGED <<client, nodeState, handler, token, paired, deviceTokens, row,
                     connectedNodes, offlineWrites, unpair, stalls, restarts, faults>>
  BY DEF Accept
<1>2. socket'[s] = "open" /\ \A o \in Sockets \ {s} : socket'[o] = socket[o]  BY <1>1 DEF TypeOK
<1>3. TypeOK'  BY <1>1 DEF TypeOK
<1>4. HandlersOK' /\ EntryKnowsItsNode' /\ WritesOK' /\ KeysOK'
  BY <1>1 DEF HandlersOK, EntryKnowsItsNode, WritesOK, KeysOK
<1>5. OrderlyOK'
  <2>1. \A o \in Sockets \ {s} : Busy(o)' <=> Busy(o)  BY <1>1, <1>2 DEF Busy
  <2>2. client[s] \in Orderly => \A o \in Sockets \ {s} : client[o] = client[s] => ~Busy(o)  BY <1>1
  <2> QED  BY <1>1, <1>2, <2>1, <2>2 DEF OrderlyOK
<1>6. StatusesOK'  BY <1>1 DEF StatusesOK, StatusOK, Stored
<1> QED  BY <1>3, <1>4, <1>5, <1>6

\* A socket that starts to close keeps its entry of the map.
LEMMA PeerClosesStep == ASSUME NodesInv, NEW s \in Sockets, PeerCloses(s) PROVE NodesInv'
<1> USE DEF NodesInv
<1>1. /\ socket[s] = "open" /\ socket' = [socket EXCEPT ![s] = "closing"]
      /\ client[s] \in Orderly => handler[s] = Idle
      /\ UNCHANGED <<client, nodeState, handler, token, paired, deviceTokens, row,
                     connectedNodes, offlineWrites, unpair, stalls, restarts, faults>>
  BY DEF PeerCloses
<1>2. socket'[s] = "closing" /\ \A o \in Sockets \ {s} : socket'[o] = socket[o]  BY <1>1 DEF TypeOK
<1>3. TypeOK'  BY <1>1 DEF TypeOK
<1>4. HandlersOK' /\ EntryKnowsItsNode' /\ WritesOK' /\ KeysOK'
  BY <1>1 DEF HandlersOK, EntryKnowsItsNode, WritesOK, KeysOK
<1>5. OrderlyOK'
  <2>1. \A o \in Sockets : Busy(o)' => Busy(o)  BY <1>1, <1>2 DEF Busy
  <2>2. client[s] \in Orderly => handler[s].at = "none"  BY <1>1 DEF Idle
  <2> QED  BY <1>1, <1>2, <2>1, <2>2 DEF OrderlyOK
<1>6. StatusesOK'  BY <1>1 DEF StatusesOK, StatusOK, Stored
<1> QED  BY <1>3, <1>4, <1>5, <1>6

\* A connection of the map has no request under way.
LEMMA ListedIsIdle ==
  ASSUME NodesInv, NEW n \in NodeIds, connectedNodes[n] # NoSocket
  PROVE  /\ connectedNodes[n] \in Sockets /\ nodeState[connectedNodes[n]] = n
         /\ handler[connectedNodes[n]].at = "none"
<1>1. connectedNodes[n] \in Sockets /\ nodeState[connectedNodes[n]] = n  BY DEF NodesInv, TypeOK, EntryKnowsItsNode
<1> QED  BY <1>1, NullsAssumption DEF NodesInv, HandlersOK

\* The closed connection's node leaves the map and its OFFLINE update is issued together.
LEMMA CloseEventStep == ASSUME NodesInv, NEW s \in Sockets, CloseEvent(s) PROVE NodesInv'
<1> USE DEF NodesInv
<1> DEFINE n == nodeState[s]
<1>1. /\ socket[s] = "closing" /\ socket' = [socket EXCEPT ![s] = "closed"]
      /\ connectedNodes' = Without(n) /\ offlineWrites' = offlineWrites \cup OfflineBy("close", s, n)
      /\ UNCHANGED <<client, nodeState, handler, token, paired, deviceTokens, row,
                     unpair, stalls, restarts, faults>>
  BY DEF CloseEvent
<1>2. socket'[s] = "closed" /\ \A o \in Sockets \ {s} : socket'[o] = socket[o]  BY <1>1 DEF TypeOK
<1>3. n \in NodeIds \cup {NoNode}  BY DEF TypeOK
<1>4. \A m \in NodeIds : connectedNodes'[m] = IF m = n THEN NoSocket ELSE connectedNodes[m]
  BY <1>1, <1>3, NullsAssumption DEF TypeOK, Without
<1>5. \A w \in offlineWrites' : w \in offlineWrites \/ (n # NoNode /\ w = [by |-> "close", socket |-> s, node |-> n])
  BY <1>1 DEF OfflineBy
<1>6. n # NoNode => [by |-> "close", socket |-> s, node |-> n] \in offlineWrites'  BY <1>1 DEF OfflineBy
<1>7. offlineWrites \subseteq offlineWrites'  BY <1>1
<1>8. TypeOK'
  <2>1. connectedNodes' \in [NodeIds -> Sockets \cup {NoSocket}]  BY <1>1, <1>3 DEF TypeOK, Without
  <2>2. offlineWrites' \subseteq [by : {"close", "heartbeat"}, socket : Sockets, node : NodeIds]
    BY <1>5, <1>3 DEF TypeOK
  <2> QED  BY <1>1, <2>1, <2>2 DEF TypeOK
<1>9. HandlersOK' /\ KeysOK'  BY <1>1 DEF HandlersOK, KeysOK
<1>10. EntryKnowsItsNode'  BY <1>1, <1>4 DEF EntryKnowsItsNode
<1>11. WritesOK'
  <2>1. \A w \in offlineWrites : w.node \in NodeIds /\ w.socket \in Sockets  BY DEF TypeOK
  <2> HIDE DEF n
  <2>2. ASSUME NEW w \in offlineWrites' PROVE nodeState[w.socket] = w.node /\ connectedNodes'[w.node] # w.socket
    <3>1. CASE w \in offlineWrites  BY <3>1, <2>1, <1>4, NullsAssumption DEF WritesOK
    <3>2. CASE n # NoNode /\ w = [by |-> "close", socket |-> s, node |-> n]
      BY <3>2, <1>3, <1>4, NullsAssumption DEF n
    <3> QED  BY <3>1, <3>2, <1>5
  <2> QED  BY <2>2, <1>1 DEF WritesOK
<1>12. OrderlyOK'
  <2>1. ASSUME NEW o \in Sockets, Busy(o)' PROVE Busy(o)
    <3>1. CASE \E w \in offlineWrites' : w.socket = o
      <4>1. PICK w \in offlineWrites' : w.socket = o  BY <3>1
      <4>2. CASE w \in offlineWrites  BY <4>1, <4>2 DEF Busy
      <4>3. CASE w = [by |-> "close", socket |-> s, node |-> n]
        <5>1. o = s  BY <4>1, <4>3
        <5> QED  BY <5>1, <1>1 DEF Busy
      <4> QED  BY <4>2, <4>3, <1>5
    <3>2. CASE socket'[o] \in {"open", "closing"} \/ handler'[o] # Idle  BY <3>2, <1>1, <1>2 DEF Busy
    <3> QED  BY <3>1, <3>2, <2>1 DEF Busy
  <2>2. \A m \in NodeIds : connectedNodes'[m] # s
    <3>1. \A m \in NodeIds : m # n => connectedNodes[m] # s  BY NullsAssumption DEF EntryKnowsItsNode
    <3> QED  BY <3>1, <1>4, NullsAssumption
  <2>3. \A o \in Sockets, m \in NodeIds : connectedNodes'[m] = o => connectedNodes[m] = o /\ o # s
    BY <2>2, <1>4, NullsAssumption
  <2>4. client[s] \in Orderly => handler[s].at = "none"  BY <1>1 DEF OrderlyOK
  <2> QED  BY <1>1, <1>2, <2>1, <2>3, <2>4 DEF OrderlyOK
<1>13. StatusesOK'
  <2> SUFFICES ASSUME faults = 0, restarts = 0, NEW m \in NodeIds, unpair[m] = "idle"
               PROVE  StatusOK(m)'
    BY <1>1 DEF StatusesOK
  <2>1. StatusOK(m)  BY DEF StatusesOK
  <2>2. row[m].status = "ONLINE" /\ connectedNodes'[m] = NoSocket =>
          (\E o \in Sockets : handler[o].at = "register" /\ handler[o].node = m) \/ \E w \in offlineWrites' : w.node = m
    <3>1. CASE m = n
      <4> DEFINE w == [by |-> "close", socket |-> s, node |-> n]
      <4>1. w \in offlineWrites' /\ w.node = m  BY <3>1, <1>6, NullsAssumption
      <4> QED  BY <4>1
    <3>2. CASE m # n  BY <3>2, <2>1, <1>4, <1>7 DEF StatusOK
    <3> QED  BY <3>1, <3>2
  <2> HIDE DEF n
  <2> QED  BY <1>1, <1>4, <2>1, <2>2 DEF StatusOK, Stored
<1> QED  BY <1>8, <1>9, <1>10, <1>11, <1>12, <1>13

\* So do all the nodes that time out in one check.
LEMMA HeartbeatStep ==
  ASSUME NodesInv, NEW N \in SUBSET NodeIds, heartbeatCheck(N)
  PROVE  NodesInv'
<1> USE DEF NodesInv
<1> DEFINE out(n) == [by |-> "heartbeat", socket |-> connectedNodes[n], node |-> n]
<1>1. /\ \A n \in N : connectedNodes[n] # NoSocket
      /\ socket' = [s \in Sockets |-> IF \E n \in N : connectedNodes[n] = s THEN Shut(s) ELSE socket[s]]
      /\ connectedNodes' = [n \in NodeIds |-> IF n \in N THEN NoSocket ELSE connectedNodes[n]]
      /\ offlineWrites' = offlineWrites \cup UNION {OfflineBy("heartbeat", connectedNodes[n], n) : n \in N}
      /\ stalls < MaxStalls /\ stalls' = stalls + 1
      /\ UNCHANGED <<client, nodeState, handler, token, paired, deviceTokens, row, unpair, restarts, faults>>
  BY DEF heartbeatCheck
<1>2. \A n \in N : OfflineBy("heartbeat", connectedNodes[n], n) = {out(n)}  BY NullsAssumption DEF OfflineBy
<1>3. offlineWrites' = offlineWrites \cup {out(n) : n \in N}  BY <1>1, <1>2
<1>4. \A w \in offlineWrites' : w \in offlineWrites \/ \E n \in N : w = out(n)  BY <1>3
<1>5. \A n \in N : out(n) \in offlineWrites' /\ out(n).node = n /\ out(n).socket = connectedNodes[n]  BY <1>3
<1>6. \A n \in N : connectedNodes[n] \in Sockets /\ nodeState[connectedNodes[n]] = n  BY <1>1, ListedIsIdle
<1>7. \A m \in NodeIds : connectedNodes'[m] = IF m \in N THEN NoSocket ELSE connectedNodes[m]  BY <1>1
<1>8. \A s \in Sockets : \/ socket'[s] = socket[s]
                         \/ socket[s] = "open" /\ socket'[s] = "closing" /\ \E n \in N : connectedNodes[n] = s
  BY <1>1 DEF Shut
<1>9. TypeOK'
  <2>1. socket' \in [Sockets -> {"unborn", "open", "closing", "closed"}]  BY <1>1 DEF TypeOK, Shut
  <2>2. connectedNodes' \in [NodeIds -> Sockets \cup {NoSocket}]  BY <1>1 DEF TypeOK
  <2>3. offlineWrites' \subseteq [by : {"close", "heartbeat"}, socket : Sockets, node : NodeIds]
    BY <1>4, <1>6 DEF TypeOK
  <2>4. stalls' \in 0..MaxStalls  BY <1>1, BoundsAssumption DEF TypeOK
  <2> QED  BY <1>1, <2>1, <2>2, <2>3, <2>4 DEF TypeOK
<1>10. HandlersOK' /\ KeysOK'  BY <1>1 DEF HandlersOK, KeysOK
<1>11. EntryKnowsItsNode'  BY <1>1, <1>7 DEF EntryKnowsItsNode
<1>12. WritesOK'
  <2>1. \A w \in offlineWrites : w.node \in NodeIds /\ w.socket \in Sockets  BY DEF TypeOK
  <2>2. ASSUME NEW w \in offlineWrites' PROVE nodeState[w.socket] = w.node /\ connectedNodes'[w.node] # w.socket
    <3>1. CASE w \in offlineWrites  BY <3>1, <2>1, <1>7, NullsAssumption DEF WritesOK
    <3>2. ASSUME NEW n \in N, w = out(n) PROVE nodeState[w.socket] = w.node /\ connectedNodes'[w.node] # w.socket
      <4>1. w.socket = connectedNodes[n] /\ w.node = n  BY <3>2
      <4> QED  BY <4>1, <1>6, <1>7, NullsAssumption
    <3> QED  BY <3>1, <3>2, <1>4
  <2> QED  BY <2>2, <1>1 DEF WritesOK
<1>13. OrderlyOK'
  <2>1. ASSUME NEW o \in Sockets, client[o] \in Orderly, Busy(o)' PROVE Busy(o)
    <3>1. CASE \E w \in offlineWrites' : w.socket = o
      <4>1. PICK w \in offlineWrites' : w.socket = o  BY <3>1
      <4>2. CASE w \in offlineWrites  BY <4>1, <4>2 DEF Busy
      <4>3. ASSUME NEW n \in N, w = out(n) PROVE Busy(o)
        <5>1. connectedNodes[n] = o  BY <4>1, <4>3
        <5>2. socket[o] \in {"open", "closing"}  BY <5>1, <2>1 DEF OrderlyOK
        <5> QED  BY <5>2 DEF Busy
      <4> QED  BY <4>2, <4>3, <1>4
    <3>2. CASE socket'[o] \in {"open", "closing"} \/ handler'[o] # Idle  BY <3>2, <1>1, <1>8 DEF Busy
    <3> QED  BY <3>1, <3>2, <2>1 DEF Busy
  <2>2. ASSUME NEW o \in Sockets, handler[o].at # "none" PROVE socket'[o] = socket[o]
    <3>1. \A n \in N : connectedNodes[n] # o  BY <1>1, <2>2, ListedIsIdle
    <3> QED  BY <3>1, <1>8
  <2>3. \A o \in Sockets, m \in NodeIds : connectedNodes'[m] = o => connectedNodes[m] = o  BY <1>7, NullsAssumption
  <2> QED  BY <1>1, <1>8, <2>1, <2>2, <2>3 DEF OrderlyOK
<1>14. StatusesOK'
  <2> SUFFICES ASSUME faults = 0, restarts = 0, NEW m \in NodeIds, unpair[m] = "idle"
               PROVE  StatusOK(m)'
    BY <1>1 DEF StatusesOK
  <2>1. StatusOK(m)  BY DEF StatusesOK
  <2>2. row[m].status = "ONLINE" /\ connectedNodes'[m] = NoSocket =>
          (\E o \in Sockets : handler[o].at = "register" /\ handler[o].node = m) \/ \E w \in offlineWrites' : w.node = m
    <3>1. CASE m \in N  BY <3>1, <1>5
    <3>2. CASE m \notin N  BY <3>2, <2>1, <1>7, <1>3 DEF StatusOK
    <3> QED  BY <3>1, <3>2
  <2> QED  BY <1>1, <1>7, <2>1, <2>2 DEF StatusOK, Stored
<1> QED  BY <1>9, <1>10, <1>11, <1>12, <1>13, <1>14

----------------------------------------------------------------------------
(* The writes of the table, and the unpairing.                             *)

\* A row that becomes OFFLINE keeps all else.
LEMMA OfflineRow ==
  ASSUME TypeOK, NEW n \in NodeIds
  PROVE  /\ Offline(row, n) \in [NodeIds -> Row]
         /\ \A m \in NodeIds : /\ Offline(row, n)[m].key = row[m].key
                               /\ m # n => Offline(row, n)[m] = row[m]
                               /\ Offline(row, n)[n].status = IF row[n].status = "ONLINE" THEN "OFFLINE" ELSE row[n].status
<1>1. row \in [NodeIds -> Row]  BY DEF TypeOK
<1>2. CASE row[n].status = "ONLINE"
  <2> DEFINE r == [row[n] EXCEPT !.status = "OFFLINE"]
  <2>1. r \in Row /\ r.key = row[n].key /\ r.status = "OFFLINE"  BY <1>1 DEF Row
  <2>2. Offline(row, n) = [row EXCEPT ![n] = r]  BY <1>2 DEF Offline
  <2> HIDE DEF r
  <2> QED  BY <1>1, <1>2, <2>1, <2>2
<1>3. CASE row[n].status # "ONLINE"
  <2>1. Offline(row, n) = row  BY <1>3 DEF Offline
  <2> QED  BY <1>1, <1>3, <2>1
<1> QED  BY <1>2, <1>3

\* What a step leaves of the keys when the rows keep theirs.
LEMMA KeysStay ==
  ASSUME KeysOK, TypeOK, HandlersOK, UNCHANGED <<client, nodeState, handler>>,
         \A m \in NodeIds : row'[m].key = row[m].key /\ (row[m].status # "unused" => row'[m].status # "unused")
  PROVE  /\ KeysOK'
         /\ \A s \in Sockets : handler'[s].at = "register" => row'[handler'[s].node].status # "unused"
<1>1. \A s \in Sockets : nodeState[s] \in NodeIds \cup {NoNode} /\ (handler[s].at = "register" => handler[s].node \in NodeIds)
  BY DEF TypeOK, HandlersOK
<1> QED  BY <1>1 DEF KeysOK

\* An OFFLINE update that lands late finds no newer connection of an orderly client.
LEMMA OfflineWriteStep == ASSUME NodesInv, NEW w \in offlineWrites, OfflineWrite(w) PROVE NodesInv'
<1> USE DEF NodesInv
<1> DEFINE n == w.node
<1>1. /\ offlineWrites' = offlineWrites \ {w}
      /\ UNCHANGED <<socket, client, nodeState, handler, token, paired, deviceTokens,
                     connectedNodes, unpair, stalls, restarts>>
  BY DEF OfflineWrite
<1>2. (row' = Offline(row, n) /\ UNCHANGED faults) \/ (Fault /\ UNCHANGED row)  BY DEF OfflineWrite
<1>3. n \in NodeIds /\ w.socket \in Sockets  BY DEF TypeOK
<1>4. nodeState[w.socket] = n /\ connectedNodes[n] # w.socket  BY DEF WritesOK
<1> HIDE DEF n
<1>5. faults \in 0..MaxFaults /\ faults' \in 0..MaxFaults /\ faults' >= faults /\ (faults' = 0 => row' = Offline(row, n))
  BY <1>2, BoundsAssumption DEF TypeOK, Fault
<1>6. /\ row' \in [NodeIds -> Row]
      /\ \A m \in NodeIds : row'[m].key = row[m].key /\ (row[m].status # "unused" => row'[m].status # "unused")
  <2>1. CASE row' = Offline(row, n)  BY <2>1, <1>3, OfflineRow
  <2>2. CASE row' = row  BY <2>2 DEF TypeOK
  <2> QED  BY <1>2, <2>1, <2>2
<1>7. KeysOK' /\ \A s \in Sockets : handler'[s].at = "register" => row'[handler'[s].node].status # "unused"
  BY <1>1, <1>6, KeysStay
<1>8. TypeOK'  BY <1>1, <1>5, <1>6, <1>7 DEF TypeOK
<1>9. HandlersOK' /\ EntryKnowsItsNode' /\ WritesOK'  BY <1>1 DEF HandlersOK, EntryKnowsItsNode, WritesOK
<1>10. OrderlyOK'
  <2>1. \A s \in Sockets : Busy(s)' => Busy(s)  BY <1>1 DEF Busy
  <2> QED  BY <1>1, <2>1 DEF OrderlyOK
<1>11. StatusesOK'
  <2> SUFFICES ASSUME faults' = 0, restarts = 0, NEW m \in NodeIds, unpair[m] = "idle"
               PROVE  StatusOK(m)'
    BY <1>1 DEF StatusesOK
  <2>1. StatusOK(m) /\ row' = Offline(row, n)  BY <1>5 DEF StatusesOK
  <2>2. CASE m # n
    <3>1. row'[m] = row[m]  BY <2>1, <2>2, <1>3, OfflineRow
    <3>2. (\E v \in offlineWrites : v.node = m) => \E v \in offlineWrites' : v.node = m  BY <1>1, <2>2 DEF n
    <3> QED  BY <1>1, <2>1, <3>1, <3>2 DEF StatusOK, Stored
  <2>3. CASE m = n
    \* No connection of an orderly client is there to be disturbed: it would be the one whose
    \* update this is, or another while that one is not done with.
    <3>1. row'[n].status # "ONLINE" /\ row'[n].key = row[n].key /\ (Stored(n)' => Stored(n))
      BY <2>1, <1>3, OfflineRow DEF Stored
    <3>2. row[n].key = client[w.socket]  BY <1>3, <1>4, NullsAssumption DEF KeysOK
    <3>3. ASSUME NEW s \in Sockets, client[s] \in Orderly, client[s] = row[n].key, Busy(s) PROVE s = w.socket
      <4>1. Busy(w.socket)  BY DEF Busy
      <4> QED  BY <4>1, <3>2, <3>3, <1>3 DEF OrderlyOK
    <3>4. row[n].key \in Orderly => connectedNodes[n] = NoSocket
      <4> SUFFICES ASSUME row[n].key \in Orderly, connectedNodes[n] # NoSocket PROVE FALSE
        OBVIOUS
      <4>1. connectedNodes[n] \in Sockets /\ nodeState[connectedNodes[n]] = n  BY <1>3, ListedIsIdle
      <4>2. client[connectedNodes[n]] = row[n].key  BY <4>1, <1>3, NullsAssumption DEF KeysOK
      <4>3. Busy(connectedNodes[n])  BY <4>1, <4>2, <1>3 DEF OrderlyOK, Busy
      <4> QED  BY <4>1, <4>2, <4>3, <3>3, <1>4
    <3>5. ASSUME NEW s \in Sockets, handler[s].at = "register", handler[s].node = n, client[s] \in Orderly PROVE FALSE
      <4>1. client[s] = row[n].key  BY <3>5 DEF KeysOK
      <4>2. Busy(s)  BY <3>5, BusyMeans
      <4>3. nodeState[s] = NoNode  BY <3>5 DEF HandlersOK
      <4> QED  BY <4>1, <4>2, <4>3, <3>3, <3>5, <1>3, <1>4, NullsAssumption
    <3> QED  BY <1>1, <2>3, <3>1, <3>4, <3>5 DEF StatusOK
  <2> QED  BY <2>2, <2>3
<1> QED  BY <1>7, <1>8, <1>9, <1>10, <1>11

\* What is under way for node n while it is unpaired keeps nothing but the rest of the table.
LEMMA UnpairStep ==
  ASSUME NodesInv, NEW n \in NodeIds, UnpairNode(n) \/ DisconnectWrite(n) \/ UnpairDelete(n)
  PROVE  NodesInv'
<1> USE DEF NodesInv
<1>1. /\ UNCHANGED <<socket, client, nodeState, handler, token, paired, deviceTokens,
                     connectedNodes, offlineWrites, stalls, restarts>>
      /\ \E to \in {"idle", "disconnect", "delete"} : unpair' = [unpair EXCEPT ![n] = to]
      /\ \/ row' = row /\ UNCHANGED faults
         \/ row' = Offline(row, n) /\ UNCHANGED faults
         \/ row' = [row EXCEPT ![n].status = "deleted"] /\ UNCHANGED faults
         \/ Fault /\ UNCHANGED row
  BY DEF UnpairNode, DisconnectWrite, UnpairDelete
<1>2. unpair'[n] = "idle" => row' = [row EXCEPT ![n].status = "deleted"] \/ Fault
  BY DEF UnpairNode, DisconnectWrite, UnpairDelete, TypeOK
<1>3. faults \in 0..MaxFaults /\ faults' \in 0..MaxFaults /\ faults' >= faults /\ (Fault => faults' # 0)
  BY <1>1, BoundsAssumption DEF TypeOK, Fault
<1>4. row' = [row EXCEPT ![n].status = "deleted"] =>
        /\ row' \in [NodeIds -> Row] /\ row'[n].status = "deleted" /\ row'[n].key = row[n].key
        /\ \A m \in NodeIds \ {n} : row'[m] = row[m]
  <2> DEFINE r == [row[n] EXCEPT !.status = "deleted"]
  <2>1. r \in Row /\ r.key = row[n].key /\ r.status = "deleted"  BY DEF Row, TypeOK
  <2>2. [row EXCEPT ![n].status = "deleted"] = [row EXCEPT ![n] = r]  OBVIOUS
  <2> HIDE DEF r
  <2> QED  BY <2>1, <2>2 DEF TypeOK
<1>5. /\ row' \in [NodeIds -> Row] /\ \A m \in NodeIds \ {n} : row'[m] = row[m]
      /\ \A m \in NodeIds : row'[m].key = row[m].key /\ (row[m].status # "unused" => row'[m].status # "unused")
  <2>1. CASE row' = Offline(row, n)  BY <2>1, OfflineRow
  <2>2. CASE row' = row  BY <2>2 DEF TypeOK
  <2>3. CASE row' = [row EXCEPT ![n].status = "deleted"]  BY <2>3, <1>4
  <2> QED  BY <1>1, <2>1, <2>2, <2>3
<1>6. KeysOK' /\ \A s \in Sockets : handler'[s].at = "register" => row'[handler'[s].node].status # "unused"
  BY <1>1, <1>5, KeysStay
<1>7. TypeOK'
  <2>1. unpair' \in [NodeIds -> {"idle", "disconnect", "offline", "delete"}]  BY <1>1 DEF TypeOK
  <2> QED  BY <1>1, <1>3, <1>5, <1>6, <2>1 DEF TypeOK
<1>8. HandlersOK' /\ EntryKnowsItsNode' /\ WritesOK'  BY <1>1 DEF HandlersOK, EntryKnowsItsNode, WritesOK
<1>9. OrderlyOK'  BY <1>1 DEF OrderlyOK, Busy
<1>10. StatusesOK'
  <2> SUFFICES ASSUME faults' = 0, restarts = 0, NEW m \in NodeIds, unpair'[m] = "idle"
               PROVE  StatusOK(m)'
    BY <1>1 DEF StatusesOK
  <2>1. CASE m = n
    <3>1. row'[n].status = "deleted"  BY <2>1, <1>2, <1>3, <1>4
    <3> QED  BY <2>1, <3>1 DEF StatusOK, Stored
  <2>2. CASE m # n
    <3>1. unpair[m] = "idle" /\ row'[m] = row[m]  BY <2>2, <1>1, <1>5 DEF TypeOK
    <3>2. StatusOK(m)  BY <3>1, <1>3 DEF StatusesOK
    <3> QED  BY <1>1, <3>1, <3>2 DEF StatusOK, Stored
  <2> QED  BY <2>1, <2>2
<1> QED  BY <1>6, <1>7, <1>8, <1>9, <1>10

\* An unpairing closes the connection of its node.
LEMMA DisconnectStep == ASSUME NodesInv, NEW n \in NodeIds, disconnectNode(n) PROVE NodesInv'
<1> USE DEF NodesInv
<1> DEFINE s == connectedNodes[n]
<1>1. /\ unpair[n] = "disconnect"
      /\ UNCHANGED <<client, nodeState, handler, token, paired, deviceTokens, row, offlineWrites, stalls, restarts, faults>>
  BY DEF disconnectNode
<1>2. \E to \in {"delete", "offline"} : unpair' = [unpair EXCEPT ![n] = to]  BY DEF disconnectNode
<1>3. \/ s = NoSocket /\ UNCHANGED <<socket, connectedNodes>>
      \/ s # NoSocket /\ socket' = [socket EXCEPT ![s] = Shut(s)] /\ connectedNodes' = Without(n)
  BY DEF disconnectNode
<1>4. \A m \in NodeIds : connectedNodes'[m] = IF m = n THEN NoSocket ELSE connectedNodes[m]
  BY <1>3, NullsAssumption DEF TypeOK, Without
<1>5. s # NoSocket => s \in Sockets /\ handler[s].at = "none"  BY ListedIsIdle
<1>6. \A o \in Sockets : socket'[o] = socket[o] \/ (o = s /\ socket[o] = "open" /\ socket'[o] = "closing")
  BY <1>3, <1>5 DEF TypeOK, Shut
<1>7. TypeOK'
  <2>1. unpair' \in [NodeIds -> {"idle", "disconnect", "offline", "delete"}]  BY <1>2 DEF TypeOK
  <2>2. socket' \in [Sockets -> {"unborn", "open", "closing", "closed"}]  BY <1>3, <1>5 DEF TypeOK, Shut
  <2>3. connectedNodes' \in [NodeIds -> Sockets \cup {NoSocket}]  BY <1>3 DEF TypeOK, Without
  <2> QED  BY <1>1, <2>1, <2>2, <2>3 DEF TypeOK
<1>8. HandlersOK' /\ KeysOK'  BY <1>1 DEF HandlersOK, KeysOK
<1>9. EntryKnowsItsNode'  BY <1>1, <1>4 DEF EntryKnowsItsNode
<1>10. WritesOK'
  <2>1. \A w \in offlineWrites : w.node \in NodeIds /\ w.socket \in Sockets  BY DEF TypeOK
  <2> QED  BY <2>1, <1>1, <1>4, NullsAssumption DEF WritesOK
<1> HIDE DEF s
<1>11. OrderlyOK'
  <2>1. \A o \in Sockets : Busy(o)' => Busy(o)  BY <1>1, <1>6 DEF Busy
  <2>2. \A o \in Sockets : handler[o].at # "none" => socket'[o] = socket[o]  BY <1>5, <1>6, NullsAssumption
  <2>3. \A o \in Sockets, m \in NodeIds : connectedNodes'[m] = o => connectedNodes[m] = o  BY <1>4, NullsAssumption
  <2> QED  BY <1>1, <1>6, <2>1, <2>2, <2>3 DEF OrderlyOK
<1>12. StatusesOK'
  <2> SUFFICES ASSUME faults = 0, restarts = 0, NEW m \in NodeIds, unpair'[m] = "idle"
               PROVE  StatusOK(m)'
    BY <1>1 DEF StatusesOK
  <2>1. m # n /\ unpair[m] = "idle"  BY <1>2 DEF TypeOK
  <2>2. StatusOK(m) /\ connectedNodes'[m] = connectedNodes[m]  BY <2>1, <1>4 DEF StatusesOK
  <2> QED  BY <1>1, <2>2 DEF StatusOK, Stored
<1> QED  BY <1>7, <1>8, <1>9, <1>10, <1>11, <1>12

----------------------------------------------------------------------------
(* The node is stored and enters the map.                                  *)

\* The row that is stored is the client's own or a new one.
LEMMA UpsertStep == ASSUME NodesInv, NEW s \in Sockets, UpsertNode(s) PROVE NodesInv'
<1> USE DEF NodesInv
<1>1. PICK n \in NodeIds :
        /\ Target(s, n)
        /\ \E d \in Devices \cup {NoDevice} : row' = [row EXCEPT ![n] = [status |-> "ONLINE", key |-> client[s], device |-> d]]
        /\ handler' = [handler EXCEPT ![s].at = "register", ![s].node = n]
  <2>1. \A n \in NodeIds : handler[s].device \in Devices \cup {NoDevice} /\ row[n].device \in Devices \cup {NoDevice}
    BY DEF TypeOK, Handler, Row
  <2> QED  BY <2>1 DEF UpsertNode
<1>2. /\ handler[s].at = "upsert"
      /\ UNCHANGED <<socket, client, nodeState, token, paired, deviceTokens,
                     connectedNodes, offlineWrites, unpair, stalls, restarts, faults>>
  BY DEF UpsertNode
<1>3. /\ row' \in [NodeIds -> Row] /\ row'[n].status = "ONLINE" /\ row'[n].key = client[s]
      /\ \A m \in NodeIds \ {n} : row'[m] = row[m]
  BY <1>1 DEF TypeOK, Row
<1>4. row[n].status # "unused" => row[n].key = client[s]  BY <1>1 DEF Target, Stored
<1>5. /\ handler' \in [Sockets -> Handler] /\ handler'[s].at = "register" /\ handler'[s].node = n
      /\ handler'[s].token = handler[s].token /\ \A o \in Sockets \ {s} : handler'[o] = handler[o]
  <2> DEFINE h == [handler[s] EXCEPT !.at = "register", !.node = n]
  <2>0. handler[s] \in Handler  BY DEF TypeOK
  <2>1. h \in Handler /\ h.at = "register" /\ h.node = n /\ h.token = handler[s].token
    BY <2>0 DEF Handler, Stages
  <2>2. handler' = [handler EXCEPT ![s] = h]  BY <1>1 DEF TypeOK, Handler
  <2> HIDE DEF h
  <2> QED  BY <2>1, <2>2 DEF TypeOK
<1>6. nodeState[s] = NoNode /\ (handler[s].token # NoToken => token[handler[s].token] = "gone")
  BY <1>2 DEF HandlersOK
<1>7. HandlersOK'  BY <1>2, <1>5, <1>6 DEF HandlersOK
<1>8. EntryKnowsItsNode' /\ WritesOK'  BY <1>2 DEF EntryKnowsItsNode, WritesOK
<1>9. KeysOK'
  <2>1. \A o \in Sockets : nodeState[o] \in NodeIds \cup {NoNode}  BY DEF TypeOK
  <2>2. \A o \in Sockets : handler[o].at = "register" => handler[o].node \in NodeIds  BY DEF HandlersOK
  <2> QED  BY <2>1, <2>2, <1>2, <1>3, <1>4, <1>5 DEF KeysOK
<1>10. TypeOK'
  <2>1. \A o \in Sockets : handler'[o].at = "register" => row'[handler'[o].node].status # "unused"  BY <1>9 DEF KeysOK
  <2> QED  BY <2>1, <1>2, <1>3, <1>5 DEF TypeOK
<1>11. OrderlyOK'
  <2>1. \A o \in Sockets : handler'[o].at # "none" <=> handler[o].at # "none"  BY <1>2, <1>5
  <2>2. \A o \in Sockets : handler[o] # Idle \/ handler'[o] = handler[o]  BY <1>2, <1>5 DEF Idle
  <2>3. \A o \in Sockets : Busy(o)' => Busy(o)  BY <1>2, <2>2 DEF Busy
  <2> QED  BY <1>2, <2>1, <2>3 DEF OrderlyOK
<1>12. StatusesOK'
  <2> SUFFICES ASSUME faults = 0, restarts = 0, NEW m \in NodeIds, unpair[m] = "idle"
               PROVE  StatusOK(m)'
    BY <1>2 DEF StatusesOK
  <2>1. CASE m = n  BY <2>1, <1>3, <1>5 DEF StatusOK
  <2>2. CASE m # n
    <3>1. \A o \in Sockets : (handler'[o].at = "register" /\ handler'[o].node = m) <=> (handler[o].at = "register" /\ handler[o].node = m)
      BY <2>2, <1>2, <1>5
    <3>2. StatusOK(m) /\ row'[m] = row[m]  BY <2>2, <1>3 DEF StatusesOK
    <3> QED  BY <1>2, <3>1, <3>2 DEF StatusOK, Stored
  <2> QED  BY <2>1, <2>2
<1> QED  BY <1>7, <1>8, <1>9, <1>10, <1>11, <1>12

\* The map learns of the connection that has just stored its row.
LEMMA RegisterStep == ASSUME NodesInv, NEW s \in Sockets, RegisterNode(s) PROVE NodesInv'
<1> USE DEF NodesInv
<1> DEFINE n == handler[s].node
           d == handler[s].device
<1>1. /\ handler[s].at = "register" /\ handler' = [handler EXCEPT ![s] = Idle]
      /\ connectedNodes' = [connectedNodes EXCEPT ![n] = s]
      /\ nodeState' = [nodeState EXCEPT ![s] = n]
      /\ UNCHANGED <<socket, client, token, paired, row, offlineWrites, unpair, stalls, restarts, faults>>
  BY DEF RegisterNode
<1>2. deviceTokens' = deviceTokens \/ (d # NoDevice /\ deviceTokens' = deviceTokens \cup {d})  BY DEF RegisterNode
<1>3. n \in NodeIds /\ nodeState[s] = NoNode /\ d \in Devices \cup {NoDevice}
  BY <1>1 DEF HandlersOK, TypeOK, Handler
<1>4. Idle \in Handler /\ Idle.at = "none"  BY DEF Idle, Handler, Stages
<1>5. row[n].status # "unused" /\ row[n].key = client[s]  BY <1>1 DEF KeysOK
<1> HIDE DEF n, d
<1>6. handler'[s] = Idle /\ \A o \in Sockets \ {s} : handler'[o] = handler[o]  BY <1>1 DEF TypeOK
<1>7. connectedNodes'[n] = s /\ \A m \in NodeIds \ {n} : connectedNodes'[m] = connectedNodes[m]
  BY <1>1, <1>3 DEF TypeOK
<1>8. nodeState'[s] = n /\ \A o \in Sockets \ {s} : nodeState'[o] = nodeState[o]  BY <1>1, <1>3 DEF TypeOK
<1>9. TypeOK'
  <2>1. deviceTokens' \subseteq Devices  BY <1>2, <1>3 DEF TypeOK
  <2>2. \A o \in Sockets : handler'[o].at = "register" => row'[handler'[o].node].status # "unused"
    BY <1>1, <1>4, <1>6 DEF TypeOK
  <2> QED  BY <2>1, <2>2, <1>1, <1>3, <1>4 DEF TypeOK
<1>10. HandlersOK'  BY <1>1, <1>4, <1>6, <1>8 DEF HandlersOK
<1>11. EntryKnowsItsNode'  BY <1>1, <1>3, <1>7, <1>8, ListedIsIdle, NullsAssumption DEF EntryKnowsItsNode
<1>12. WritesOK'
  <2>1. \A w \in offlineWrites : w.node \in NodeIds /\ w.socket \in Sockets  BY DEF TypeOK
  <2>2. \A w \in offlineWrites : w.socket # s  BY <2>1, <1>3, NullsAssumption DEF WritesOK
  <2> QED  BY <2>1, <2>2, <1>1, <1>7, <1>8 DEF WritesOK
<1>13. KeysOK'  BY <1>1, <1>4, <1>5, <1>6, <1>8 DEF KeysOK
<1>14. OrderlyOK'
  <2>1. Busy(s)  BY <1>1, BusyMeans
  <2>2. \A o \in Sockets : Busy(o)' => Busy(o)  BY <2>1, <1>1, <1>6 DEF Busy
  <2>3. \A o \in Sockets : handler'[o].at # "none" => handler[o].at # "none"  BY <1>1, <1>4, <1>6
  <2>4. client[s] \in Orderly => socket[s] = "open"  BY <1>1 DEF OrderlyOK
  <2>5. \A o \in Sockets, m \in NodeIds : connectedNodes'[m] = o => connectedNodes[m] = o \/ o = s  BY <1>7
  <2> QED  BY <1>1, <2>2, <2>3, <2>4, <2>5 DEF OrderlyOK
<1>15. StatusesOK'
  <2> SUFFICES ASSUME faults = 0, restarts = 0, NEW m \in NodeIds, unpair[m] = "idle"
               PROVE  StatusOK(m)'
    BY <1>1 DEF StatusesOK
  <2>1. StatusOK(m)  BY DEF StatusesOK
  <2>2. \A o \in Sockets : handler'[o].at = "register" => handler'[o] = handler[o]  BY <1>4, <1>6
  <2>3. CASE m = n
    <3>1. connectedNodes'[n] # NoSocket  BY <1>7, NullsAssumption
    <3>2. Stored(n) /\ row[n].key \in Orderly => row[n].status = "ONLINE"  BY <2>1, <2>3, <1>1, <1>5 DEF StatusOK, n
    <3> QED  BY <1>1, <2>1, <2>2, <2>3, <3>1, <3>2 DEF StatusOK, Stored
  <2>4. CASE m # n
    <3>1. connectedNodes'[m] = connectedNodes[m]  BY <2>4, <1>7
    <3>2. \A o \in Sockets : handler[o].at = "register" /\ handler[o].node = m => handler'[o] = handler[o]
      BY <2>4, <1>6 DEF n
    <3> QED  BY <1>1, <2>1, <2>2, <3>1, <3>2 DEF StatusOK, Stored
  <2> QED  BY <2>3, <2>4
<1> QED  BY <1>9, <1>10, <1>11, <1>12, <1>13, <1>14, <1>15

\* A restart empties the memory; the rows it leaves ONLINE are excused by restarts.
LEMMA RestartStep == ASSUME NodesInv, Restart PROVE NodesInv'
<1> USE DEF NodesInv
<1>1. /\ restarts < MaxRestarts /\ restarts' = restarts + 1
      /\ socket' = [s \in Sockets |-> IF socket[s] = "unborn" THEN "unborn" ELSE "closed"]
      /\ nodeState' = [s \in Sockets |-> NoNode]
      /\ handler' = [s \in Sockets |-> Idle]
      /\ connectedNodes' = [n \in NodeIds |-> NoSocket]
      /\ offlineWrites' = {}
      /\ unpair' = [n \in NodeIds |-> "idle"]
      /\ UNCHANGED <<client, token, paired, deviceTokens, row, stalls, faults>>
  BY DEF Restart
<1>2. Idle \in Handler /\ Idle.at = "none"  BY DEF Idle, Handler, Stages
<1>3. restarts' \in 0..MaxRestarts /\ restarts' # 0  BY <1>1, BoundsAssumption DEF TypeOK
<1>4. TypeOK'
  <2>1. socket' \in [Sockets -> {"unborn", "open", "closing", "closed"}]  BY <1>1
  <2> QED  BY <2>1, <1>1, <1>2, <1>3 DEF TypeOK
<1>5. HandlersOK' /\ EntryKnowsItsNode' /\ WritesOK' /\ KeysOK'
  BY <1>1, <1>2 DEF HandlersOK, EntryKnowsItsNode, WritesOK, KeysOK
<1>6. OrderlyOK'
  <2>1. \A s \in Sockets : ~Busy(s)'  BY <1>1 DEF Busy
  <2>2. \A s \in Sockets, n \in NodeIds : connectedNodes'[n] # s  BY <1>1, NullsAssumption
  <2> QED  BY <2>1, <2>2, <1>1, <1>2 DEF OrderlyOK
<1>7. StatusesOK'  BY <1>3 DEF StatusesOK
<1> QED  BY <1>4, <1>5, <1>6, <1>7

\* Every step of the bridge keeps the invariant.
LEMMA NodesStep == NodesInv /\ [NextNodes]_nodeVars => NodesInv'
<1> SUFFICES ASSUME NodesInv, [NextNodes]_nodeVars PROVE NodesInv'
  OBVIOUS
<1>1. CASE \E t \in Tokens : GenerateToken(t) \/ ExpireToken(t)  BY <1>1, TokenStep
<1>2. CASE \E s \in Sockets : Accept(s) \/ PeerCloses(s) \/ CloseEvent(s)
  BY <1>2, AcceptStep, PeerClosesStep, CloseEventStep
<1>3. CASE \E s \in Sockets : \/ ConnectWithDevice(s) \/ PairDevice(s) \/ BurnToken(s) \/ FailConnect(s)
                              \/ \E t \in Tokens : ConnectWithToken(s, t)
  BY <1>3, HandshakeStep
<1>4. CASE \E s \in Sockets : UpsertNode(s) \/ RegisterNode(s)  BY <1>4, UpsertStep, RegisterStep
<1>5. CASE \E w \in offlineWrites : OfflineWrite(w)  BY <1>5, OfflineWriteStep
<1>6. CASE \E N \in SUBSET NodeIds : heartbeatCheck(N)  BY <1>6, HeartbeatStep
<1>7. CASE \E n \in NodeIds : UnpairNode(n) \/ disconnectNode(n) \/ DisconnectWrite(n) \/ UnpairDelete(n)
  BY <1>7, UnpairStep, DisconnectStep
<1>8. CASE Restart  BY <1>8, RestartStep
<1>9. CASE UNCHANGED nodeVars
  BY <1>9 DEF nodeVars, connVars, NodesInv, TypeOK, HandlersOK, EntryKnowsItsNode, WritesOK, KeysOK,
              OrderlyOK, Busy, StatusesOK, StatusOK, Stored
<1> QED  BY <1>1, <1>2, <1>3, <1>4, <1>5, <1>6, <1>7, <1>8, <1>9 DEF NextNodes, NodeSteps

\* At rest, nothing is left that could explain a difference between table and map.
LEMMA NodesShow == NodesInv => NodesInOrder
<1> SUFFICES ASSUME NodesInv PROVE EntryKnowsItsNode /\ TokenSpentBeforeNodeStored /\ StatusMatchesMap
  BY DEF NodesInOrder
<1> USE DEF NodesInv
<1>1. EntryKnowsItsNode /\ TokenSpentBeforeNodeStored  BY DEF HandlersOK, TokenSpentBeforeNodeStored
<1>2. StatusMatchesMap
  <2> SUFFICES ASSUME faults = 0, restarts = 0, NEW n \in NodeIds, AtRest(n), Stored(n), row[n].key \in Orderly
               PROVE  row[n].status = "ONLINE" <=> connectedNodes[n] # NoSocket
    BY DEF StatusMatchesMap
  <2>1. StatusOK(n)  BY DEF StatusesOK, AtRest
  <2> QED  BY <2>1 DEF StatusOK, AtRest
<1> QED  BY <1>1, <1>2

\* So it holds in every reachable state.
LEMMA NodesHold == SpecNodes => []NodesInv
<1>1. InitNodes => NodesInv  BY NodesStart
<1>2. NodesInv /\ [NextNodes]_nodeVars => NodesInv'  BY NodesStep
<1> QED  BY <1>1, <1>2, PTL DEF SpecNodes

\* Every variable of the bridge keeps its type, and a handler past its upsert names a row that
\* was stored (the handshake of handleConnect, websocket-server.ts:228-410).
THEOREM NodesTypeCorrect == SpecNodes => []TypeOK
<1>1. NodesInv => TypeOK  BY DEF NodesInv
<1> QED  BY <1>1, NodesHold, PTL

\* In every reachable state an entry of the map names a connection that holds the node, a
\* node is stored only when its pairing token is used up, and at rest the table shows an
\* orderly client's node ONLINE exactly when the map holds a connection for it.
THEOREM AlwaysNodesInOrder == SpecNodes => []NodesInOrder
BY NodesHold, NodesShow, PTL

\* A connection that closes leaves the map.
LEMMA ClosedLeavesStep ==
  ASSUME NodesInv, [NextNodes]_nodeVars, NEW s \in Sockets,
         socket[s] # "closed", socket'[s] = "closed", nodeState[s] # NoNode
  PROVE  \A n \in NodeIds : connectedNodes'[n] # s
<1> USE DEF NodesInv
<1>1. socket \in [Sockets -> {"unborn", "open", "closing", "closed"}]  BY DEF TypeOK
<1>2. CASE Restart  BY <1>2, NullsAssumption DEF Restart
<1>3. CASE \E o \in Sockets : CloseEvent(o)
  <2>1. CloseEvent(s)  BY <1>1, <1>3 DEF CloseEvent
  <2>2. connectedNodes' = [connectedNodes EXCEPT ![nodeState[s]] = NoSocket]  BY <2>1 DEF CloseEvent, Without
  <2>3. connectedNodes \in [NodeIds -> Sockets \cup {NoSocket}]  BY DEF TypeOK
  <2> QED  BY <2>2, <2>3, NullsAssumption DEF EntryKnowsItsNode
<1>4. CASE \E o \in Sockets : Accept(o) \/ PeerCloses(o)  BY <1>1, <1>4 DEF Accept, PeerCloses
<1>5. CASE \E N \in SUBSET NodeIds : heartbeatCheck(N)  BY <1>1, <1>5 DEF heartbeatCheck, Shut
<1>6. CASE \E n \in NodeIds : disconnectNode(n)
  <2>1. PICK n \in NodeIds : disconnectNode(n)  BY <1>6
  <2> DEFINE o == connectedNodes[n]
  <2>2. socket' = socket \/ socket' = [socket EXCEPT ![o] = Shut(o)]  BY <2>1 DEF disconnectNode
  <2>3. Shut(o) # "closed" \/ Shut(o) = socket[o]  BY DEF Shut
  <2> HIDE DEF o
  <2> QED  BY <1>1, <2>2, <2>3
<1>7. CASE UNCHANGED socket  BY <1>7
<1>8. CASE \E t \in Tokens : GenerateToken(t) \/ ExpireToken(t)  BY <1>7, <1>8 DEF GenerateToken, ExpireToken
<1>9. ASSUME NEW o \in Sockets,
             \/ ConnectWithDevice(o) \/ PairDevice(o) \/ BurnToken(o) \/ UpsertNode(o) \/ RegisterNode(o)
             \/ FailConnect(o) \/ \E t \in Tokens : ConnectWithToken(o, t)
      PROVE  UNCHANGED socket
  BY <1>9 DEF ConnectWithDevice, PairDevice, BurnToken, UpsertNode, RegisterNode, FailConnect, ConnectWithToken
<1>10. ASSUME NEW w \in offlineWrites, OfflineWrite(w) PROVE UNCHANGED socket
  BY <1>10 DEF OfflineWrite
<1>11. ASSUME NEW n \in NodeIds, UnpairNode(n) \/ DisconnectWrite(n) \/ UnpairDelete(n) PROVE UNCHANGED socket
  BY <1>11 DEF UnpairNode, DisconnectWrite, UnpairDelete
<1>12. CASE UNCHANGED nodeVars  BY <1>7, <1>12 DEF nodeVars, connVars
<1> QED  BY <1>2, <1>3, <1>4, <1>5, <1>6, <1>7, <1>8, <1>9, <1>10, <1>11, <1>12 DEF NextNodes, NodeSteps

\* No step closes a connection whose handshake had finished and leaves an entry of the map
\* naming it (the close handler of websocket-server.ts:165).
THEOREM AlwaysClosedLeave == SpecNodes => ClosedSocketsLeaveTheMap
<1> DEFINE A == \A s \in Sockets : socket[s] # "closed" /\ socket'[s] = "closed" /\ nodeState[s] # NoNode
                  => \A n \in NodeIds : connectedNodes'[n] # s
<1>1. NodesInv /\ [NextNodes]_nodeVars => [A]_nodeVars  BY ClosedLeavesStep
<1> QED  BY <1>1, NodesHold, PTL DEF SpecNodes, ClosedSocketsLeaveTheMap

----------------------------------------------------------------------------
(* The relay of instructions, while the nodes do what they do.             *)

RelayStages == {"create", "log", "send", "stream", "read", "close", "bill", "ended"}

\* The instruction may still be answered, or its answer is on its way to the table.
Awaited(r) == r \in pendingRequests \/ r \in storing

\* What is known of an instruction at each point of its call.  Nothing is stored or billed
\* before it is sent; it is answered once; once the wait is over nothing more is stored,
\* unless the session is gone, and then it stays gone.
BooksOK(r) ==
  /\ request[r].at \notin {"stream", "read", "close", "bill", "ended", "lost"} =>
       ~Awaited(r) /\ responses[r] = 0 /\ written[r] = 0
  /\ request[r].at # "ended" => trace[r] = 0
  /\ Awaited(r) => responses[r] = 0 /\ written[r] = 0
  /\ r \in pendingRequests => r \notin storing
  /\ Awaited(r) => request[r].at = "stream" \/ ~Alive(r)
  /\ request[r].at \in {"new", "create"} => session[r].status = "none"
  /\ request[r].at \in {"log", "send", "stream", "read", "close"} => session[r].status \in {"none", "ACTIVE"}
  /\ request[r].at \in RelayStages => request[r].node \in NodeIds
  /\ responses[r] <= written[r] \/ request[r].at = "lost"
  /\ request[r].at = "close" /\ Alive(r) => request[r].cost = Cost(r)
  /\ request[r].at = "bill" /\ Alive(r) =>
       session[r].status = "COMPLETED" /\ session[r].cost = request[r].cost /\ request[r].cost = Cost(r)
  /\ trace[r] # 0 /\ Alive(r) =>
       session[r].status = "COMPLETED" /\ session[r].cost = trace[r] /\ trace[r] = Cost(r)

RelayInv == NodesInv /\ RelayTypeOK /\ \A r \in Requests : BooksOK(r)

\* The instructions start with nothing sent.
LEMMA RelayStart == Init => RelayInv
<1> SUFFICES ASSUME Init PROVE RelayInv
  OBVIOUS
<1>1. NodesInv  BY NodesStart DEF Init
<1> DEFINE new == [at |-> "new", node |-> NoNode, cost |-> 0]
<1>2. /\ request = [r \in Requests |-> new] /\ session = [r \in Requests |-> NoRow]
      /\ responses = [r \in Requests |-> 0] /\ written = [r \in Requests |-> 0] /\ trace = [r \in Requests |-> 0]
      /\ pendingRequests = {} /\ storing = {} /\ inbox = [r \in Requests |-> NoSocket]
  BY Zenon DEF Init, InitRelay
<1>3. new.at = "new" /\ new \in [at : Stage, node : NodeIds \cup {NoNode}, cost : {0, 1, 3}]  BY DEF Stage
<1>4. NoRow.status = "none" /\ NoRow \in [status : {"none", "ACTIVE", "COMPLETED", "ERROR"}, cost : {0, 1, 3}]
  BY DEF NoRow
<1> HIDE DEF new
<1>5. RelayTypeOK  BY <1>2, <1>3, <1>4 DEF RelayTypeOK
<1>6. ASSUME NEW r \in Requests PROVE BooksOK(r)
  <2>1. /\ request[r].at = "new" /\ session[r].status = "none" /\ responses[r] = 0 /\ written[r] = 0 /\ trace[r] = 0
        /\ r \notin pendingRequests /\ r \notin storing
    BY <1>2, <1>3, <1>4
  <2> QED  BY <2>1 DEF BooksOK, Awaited, Alive, RelayStages
<1> QED  BY <1>1, <1>5, <1>6 DEF RelayInv

\* A write the database refuses changes nothing the nodes rely on.
LEMMA FaultKeeps == ASSUME NodesInv, UNCHANGED connVars, Fault \/ UNCHANGED faults PROVE NodesInv'
<1>1. CASE UNCHANGED faults
  <2>1. UNCHANGED nodeVars  BY <1>1 DEF nodeVars
  <2> QED  BY <2>1, NodesStep
<1>2. CASE Fault
  <2>1. faults' \in 0..MaxFaults /\ faults' # 0  BY <1>2, BoundsAssumption DEF Fault, NodesInv, TypeOK
  <2>2. TypeOK'  BY <2>1 DEF connVars, NodesInv, TypeOK
  <2>3. StatusesOK'  BY <2>1 DEF StatusesOK
  <2>4. HandlersOK' /\ EntryKnowsItsNode' /\ WritesOK' /\ KeysOK' /\ OrderlyOK'
    BY DEF connVars, NodesInv, HandlersOK, EntryKnowsItsNode, WritesOK, KeysOK, OrderlyOK, Busy
  <2> QED  BY <2>2, <2>3, <2>4 DEF NodesInv
<1> QED  BY <1>1, <1>2

RequestRow == [at : Stage, node : NodeIds \cup {NoNode}, cost : {0, 1, 3}]
SessionRow == [status : {"none", "ACTIVE", "COMPLETED", "ERROR"}, cost : {0, 1, 3}]

\* A call moves on.
LEMMA CallGoesTo ==
  ASSUME RelayTypeOK, NEW r \in Requests, NEW stage \in Stage, GoTo(r, stage)
  PROVE  /\ request' \in [Requests -> RequestRow] /\ request'[r].at = stage
         /\ request'[r].node = request[r].node /\ request'[r].cost = request[r].cost
         /\ \A q \in Requests \ {r} : request'[q] = request[q]
<1> DEFINE c == request[r]  d == [c EXCEPT !.at = stage]
<1>1. request \in [Requests -> RequestRow] /\ c \in RequestRow  BY DEF RelayTypeOK, RequestRow
<1>2. request' = [request EXCEPT ![r] = d]  BY <1>1 DEF GoTo
<1>3. d \in RequestRow /\ d.at = stage /\ d.node = c.node /\ d.cost = c.cost
  <2> HIDE DEF c
  <2> QED  BY <1>1 DEF RequestRow
<1> HIDE DEF d
<1> QED  BY <1>1, <1>2, <1>3

\* The instructions another one's step does not touch.
LEMMA OthersKept ==
  ASSUME RelayInv, NodesInv', RelayTypeOK', NEW r \in Requests, BooksOK(r)',
         \A q \in Requests \ {r} :
           /\ request'[q] = request[q] /\ session'[q] = session[q] /\ responses'[q] = responses[q]
           /\ written'[q] = written[q] /\ trace'[q] = trace[q]
           /\ (q \in pendingRequests' <=> q \in pendingRequests) /\ (q \in storing' <=> q \in storing)
  PROVE  RelayInv'
<1>1. ASSUME NEW q \in Requests \ {r} PROVE BooksOK(q)'
  <2>1. BooksOK(q)  BY DEF RelayInv
  <2> QED  BY <2>1 DEF BooksOK, Awaited, Alive, Cost
<1> QED  BY <1>1 DEF RelayInv

\* The call begins, stores its session and its instruction, or is refused.
LEMMA CallSteps ==
  ASSUME RelayInv, NEW r \in Requests,
         (\E n \in NodeIds : Relay(r, n)) \/ CreateSession(r) \/ LogInstruction(r) \/ SendFails(r)
  PROVE  RelayInv'
<1> USE DEF RequestRow, SessionRow
<1>0. NodesInv /\ RelayTypeOK /\ BooksOK(r)  BY DEF RelayInv
<1>1. ASSUME NEW n \in NodeIds, Relay(r, n) PROVE RelayInv'
  <2> DEFINE d == [at |-> "create", node |-> n, cost |-> 0]
  <2>1. /\ request[r].at = "new" /\ request' = [request EXCEPT ![r] = d] /\ UNCHANGED nodeVars
        /\ UNCHANGED <<session, responses, pendingRequests, inbox, storing, written, trace>>
    BY <1>1 DEF Relay
  <2>2. d \in RequestRow /\ d.at = "create" /\ d.node = n  BY DEF Stage
  <2> HIDE DEF d
  <2>3. request \in [Requests -> RequestRow]  BY <1>0 DEF RelayTypeOK
  <2>4. request'[r] = d /\ \A q \in Requests \ {r} : request'[q] = request[q]  BY <2>1, <2>3
  <2>5. RelayTypeOK'  BY <1>0, <2>1, <2>2 DEF RelayTypeOK
  <2>6. NodesInv'  BY <1>0, <2>1, NodesStep
  <2>7. BooksOK(r)'  BY <1>0, <2>1, <2>2, <2>4 DEF BooksOK, Awaited, Alive
  <2> QED  BY <2>1, <2>4, <2>5, <2>6, <2>7, OthersKept
<1>2. CASE CreateSession(r)
  <2>1. /\ request[r].at = "create" /\ UNCHANGED connVars
        /\ UNCHANGED <<responses, pendingRequests, inbox, storing, written, trace>>
        /\ (Fault \/ UNCHANGED faults)
    BY <1>2 DEF CreateSession, FaultOr
  <2>2. NodesInv'  BY <1>0, <2>1, FaultKeeps
  <2>3. CASE GoTo(r, "log") /\ session' = [session EXCEPT ![r].status = "ACTIVE"]
    <3> DEFINE s == session[r]  d == [s EXCEPT !.status = "ACTIVE"]
    <3>1. session \in [Requests -> SessionRow] /\ s \in SessionRow  BY <1>0 DEF RelayTypeOK
    <3>2. session' = [session EXCEPT ![r] = d]  BY <2>3, <3>1
    <3>3. d \in SessionRow /\ d.status = "ACTIVE"
      <4> HIDE DEF s
      <4> QED  BY <3>1
    <3> HIDE DEF d
    <3>4. /\ session' \in [Requests -> SessionRow] /\ session'[r].status = "ACTIVE"
          /\ \A q \in Requests \ {r} : session'[q] = session[q]
      BY <3>1, <3>2, <3>3
    <3>5. "log" \in Stage  BY DEF Stage
    <3>6. /\ request' \in [Requests -> RequestRow] /\ request'[r].at = "log" /\ request'[r].node = request[r].node
          /\ \A q \in Requests \ {r} : request'[q] = request[q]
      BY <1>0, <2>3, <3>5, CallGoesTo
    <3>7. RelayTypeOK'  BY <1>0, <2>1, <3>4, <3>6 DEF RelayTypeOK
    <3>8. BooksOK(r)'  BY <1>0, <2>1, <3>4, <3>6 DEF BooksOK, Awaited, Alive, RelayStages
    <3> QED  BY <2>1, <2>2, <3>4, <3>6, <3>7, <3>8, OthersKept
  <2>4. CASE GoTo(r, "failed") /\ UNCHANGED session
    <3>5. "failed" \in Stage  BY DEF Stage
    <3>6. /\ request' \in [Requests -> RequestRow] /\ request'[r].at = "failed"
          /\ \A q \in Requests \ {r} : request'[q] = request[q]
      BY <1>0, <2>4, <3>5, CallGoesTo
    <3>7. RelayTypeOK'  BY <1>0, <2>1, <2>4, <3>6 DEF RelayTypeOK
    <3>8. BooksOK(r)'  BY <1>0, <2>1, <2>4, <3>6 DEF BooksOK, Awaited, Alive, RelayStages
    <3> QED  BY <2>1, <2>2, <2>4, <3>6, <3>7, <3>8, OthersKept
  <2> QED  BY <1>2, <2>3, <2>4 DEF CreateSession
<1>3. CASE LogInstruction(r) \/ SendFails(r)
  <2>1. PICK stage \in {"send", "failed"} :
          /\ (request[r].at = "log" \/ stage = "failed")
          /\ request[r].at \in {"log", "send"} /\ GoTo(r, stage)
          /\ UNCHANGED connVars /\ UNCHANGED <<session, responses, pendingRequests, inbox, storing, written, trace>>
          /\ (Fault \/ UNCHANGED faults)
    BY <1>3 DEF LogInstruction, SendFails, FaultOr, nodeVars
  <2>2. NodesInv'  BY <1>0, <2>1, FaultKeeps
  <2>3. stage \in Stage  BY DEF Stage
  <2>4. /\ request' \in [Requests -> RequestRow] /\ request'[r].at = stage /\ request'[r].node = request[r].node
        /\ \A q \in Requests \ {r} : request'[q] = request[q]
    BY <1>0, <2>1, <2>3, CallGoesTo
  <2>5. RelayTypeOK'  BY <1>0, <2>1, <2>4 DEF RelayTypeOK
  <2>6. BooksOK(r)'  BY <1>0, <2>1, <2>4 DEF BooksOK, Awaited, Alive, RelayStages
  <2> QED  BY <2>1, <2>2, <2>4, <2>5, <2>6, OthersKept
<1> QED  BY <1>1, <1>2, <1>3

\* The instruction is sent.
LEMMA SendStep == ASSUME RelayInv, NEW r \in Requests, SendInstruction(r) PROVE RelayInv'
<1> USE DEF RequestRow, SessionRow
<1>0. NodesInv /\ RelayTypeOK /\ BooksOK(r)  BY DEF RelayInv
<1>1. /\ request[r].at = "send" /\ UNCHANGED <<nodeVars, session, responses, storing, written, trace>>
      /\ pendingRequests' = pendingRequests \cup {r} /\ GoTo(r, "stream")
      /\ CanSend(r) /\ Deliver(r, connectedNodes[request[r].node])
  BY DEF SendInstruction
<1>2. NodesInv'  BY <1>0, <1>1, NodesStep
<1>3. "stream" \in Stage  BY DEF Stage
<1>4. /\ request' \in [Requests -> RequestRow] /\ request'[r].at = "stream" /\ request'[r].node = request[r].node
      /\ \A q \in Requests \ {r} : request'[q] = request[q]
  BY <1>0, <1>1, <1>3, CallGoesTo
<1>5. connectedNodes[request[r].node] \in Sockets \cup {NoSocket}
  BY <1>0, <1>1 DEF BooksOK, RelayStages, NodesInv, TypeOK
<1>6. inbox' \in [Requests -> Sockets \cup {NoSocket}]
  BY <1>0, <1>1, <1>5 DEF RelayTypeOK, Deliver
<1>7. RelayTypeOK'  BY <1>0, <1>1, <1>4, <1>6 DEF RelayTypeOK
<1>8. BooksOK(r)'  BY <1>0, <1>1, <1>4 DEF BooksOK, Awaited, Alive, RelayStages
<1> QED  BY <1>1, <1>2, <1>4, <1>7, <1>8, OthersKept

\* It is answered, its answer is stored and shown, or nobody waits for it any more.
LEMMA AnswerSteps ==
  ASSUME RelayInv, NEW r \in Requests,
         (\E ok \in BOOLEAN : handleResponse(r, ok)) \/ StoreResponse(r) \/ PendingTimeout(r)
  PROVE  RelayInv'
<1> USE DEF RequestRow, SessionRow
<1>0. NodesInv /\ RelayTypeOK /\ BooksOK(r)  BY DEF RelayInv
<1>1. CASE (\E ok \in BOOLEAN : handleResponse(r, ok)) \/ PendingTimeout(r)
  <2>1. /\ r \in pendingRequests /\ pendingRequests' = pendingRequests \ {r}
        /\ storing' = storing \/ storing' = storing \cup {r}
        /\ UNCHANGED <<nodeVars, request, session, responses, inbox, written, trace>>
    BY <1>1 DEF handleResponse, PendingTimeout
  <2>2. NodesInv'  BY <1>0, <2>1, NodesStep
  <2>3. RelayTypeOK'  BY <1>0, <2>1 DEF RelayTypeOK
  <2>4. BooksOK(r)'  BY <1>0, <2>1 DEF BooksOK, Awaited, Alive, Cost
  <2> QED  BY <2>1, <2>2, <2>3, <2>4, OthersKept
<1>2. CASE StoreResponse(r)
  <2>1. /\ r \in storing /\ storing' = storing \ {r} /\ UNCHANGED connVars /\ (Fault \/ UNCHANGED faults)
        /\ UNCHANGED <<request, session, pendingRequests, inbox, trace>>
    BY <1>2 DEF StoreResponse, FaultOr
  <2>2. NodesInv'  BY <1>0, <2>1, FaultKeeps
  <2>3. CASE UNCHANGED <<responses, written>>
    <3>1. RelayTypeOK'  BY <1>0, <2>1, <2>3 DEF RelayTypeOK
    <3>2. BooksOK(r)'  BY <1>0, <2>1, <2>3 DEF BooksOK, Awaited, Alive, Cost
    <3> QED  BY <2>1, <2>2, <2>3, <3>1, <3>2, OthersKept
  <2>4. CASE /\ Alive(r) /\ responses' = [responses EXCEPT ![r] = @ + 1]
             /\ written' = IF request[r].at \in Open THEN [written EXCEPT ![r] = @ + 1] ELSE written
    <3>1. request[r].at = "stream" /\ responses[r] = 0 /\ written[r] = 0 /\ r \notin pendingRequests
      BY <1>0, <2>1, <2>4 DEF BooksOK, Awaited
    <3>2. request[r].at \in Open  BY <3>1 DEF Open
    <3>3. /\ responses' \in [Requests -> 0..1] /\ written' \in [Requests -> 0..1] /\ responses'[r] = 1 /\ written'[r] = 1
          /\ \A q \in Requests \ {r} : responses'[q] = responses[q] /\ written'[q] = written[q]
      BY <1>0, <2>4, <3>1, <3>2 DEF RelayTypeOK
    <3>4. RelayTypeOK'  BY <1>0, <2>1, <3>3 DEF RelayTypeOK
    <3>5. BooksOK(r)'  BY <1>0, <2>1, <3>1, <3>3 DEF BooksOK, Awaited, Alive, RelayStages
    <3> QED  BY <2>1, <2>2, <3>3, <3>4, <3>5, OthersKept
  <2> QED  BY <1>2, <2>3, <2>4 DEF StoreResponse
<1> QED  BY <1>1, <1>2

\* The wait is over: the session is read, priced, closed and billed.
LEMMA StreamSteps ==
  ASSUME RelayInv, NEW r \in Requests, EndWait(r) \/ ReadSession(r) \/ CloseSession(r) \/ BillSession(r)
  PROVE  RelayInv'
<1> USE DEF RequestRow, SessionRow
<1>0. NodesInv /\ RelayTypeOK /\ BooksOK(r)  BY DEF RelayInv
<1>1. UNCHANGED connVars /\ (Fault \/ UNCHANGED faults)
      /\ UNCHANGED <<responses, pendingRequests, inbox, storing, written>>
  BY DEF EndWait, ReadSession, CloseSession, BillSession, FaultOr, nodeVars
<1>2. NodesInv'  BY <1>0, <1>1, FaultKeeps
<1>3. ASSUME NEW stage \in {"read", "ended"}, GoTo(r, stage), UNCHANGED <<session, trace>>,
             request[r].at \in {"stream", "read", "close"}, stage = "read" => request[r].at = "stream",
             ~Alive(r) \/ ~Awaited(r)
      PROVE  RelayInv'
  <2>1. stage \in Stage  BY DEF Stage
  <2>2. /\ request' \in [Requests -> RequestRow] /\ request'[r].at = stage /\ request'[r].node = request[r].node
        /\ \A q \in Requests \ {r} : request'[q] = request[q]
    BY <1>0, <1>3, <2>1, CallGoesTo
  <2>3. RelayTypeOK'  BY <1>0, <1>1, <1>3, <2>2 DEF RelayTypeOK
  <2>4. BooksOK(r)'  BY <1>0, <1>1, <1>3, <2>2 DEF BooksOK, Awaited, Alive, RelayStages
  <2> QED  BY <1>1, <1>2, <1>3, <2>2, <2>3, <2>4, OthersKept
<1>4. ASSUME request[r].at \in {"read", "close"} PROVE ~Alive(r) \/ ~Awaited(r)
  BY <1>0, <1>4 DEF BooksOK
<1>5. CASE EndWait(r)
  <2>1. ~Alive(r) \/ ~Awaited(r)  BY <1>0, <1>5 DEF EndWait, WaitIsOver, Awaited, Alive, BooksOK
  <2> QED  BY <1>3, <1>5, <2>1 DEF EndWait
<1>6. CASE ReadSession(r)
  <2>1. CASE GoTo(r, "ended")  BY <1>3, <1>4, <1>6, <2>1 DEF ReadSession
  <2>2. CASE Alive(r) /\ request' = [request EXCEPT ![r].at = "close", ![r].cost = Cost(r)]
    <3> DEFINE c == request[r]  e == [c EXCEPT !.at = "close"]  d == [e EXCEPT !.cost = Cost(r)]
    <3>1. request \in [Requests -> RequestRow] /\ c \in RequestRow  BY <1>0 DEF RelayTypeOK
    <3>2. Cost(r) \in {0, 1, 3}  BY <1>0 DEF Cost, RelayTypeOK
    <3>3. request' = [request EXCEPT ![r] = d]  BY <2>2, <3>1
    <3>4. e \in RequestRow /\ e.at = "close" /\ e.node = c.node
      <4> HIDE DEF c
      <4> QED  BY <3>1 DEF Stage
    <3>5. d \in RequestRow /\ d.at = "close" /\ d.node = c.node /\ d.cost = Cost(r)
      <4> HIDE DEF c, e
      <4> QED  BY <3>2, <3>4
    <3> HIDE DEF d
    <3>6. /\ request' \in [Requests -> RequestRow] /\ request'[r] = d
          /\ \A q \in Requests \ {r} : request'[q] = request[q]
      BY <3>1, <3>3, <3>5
    <3>7. request[r].at = "read" /\ UNCHANGED <<session, trace>>  BY <1>6 DEF ReadSession
    <3>8. RelayTypeOK'  BY <1>0, <1>1, <3>6, <3>7 DEF RelayTypeOK
    <3>9. BooksOK(r)'  BY <1>0, <1>1, <1>4, <3>5, <3>6, <3>7 DEF BooksOK, Awaited, Alive, Cost, RelayStages
    <3> QED  BY <1>1, <1>2, <3>6, <3>7, <3>8, <3>9, OthersKept
  <2> QED  BY <1>6, <2>1, <2>2 DEF ReadSession
<1>7. CASE CloseSession(r)
  <2>1. CASE GoTo(r, "ended") /\ UNCHANGED session  BY <1>3, <1>4, <1>7, <2>1 DEF CloseSession
  <2>2. CASE Alive(r) /\ session' = [session EXCEPT ![r] = Closed(r)] /\ GoTo(r, "bill")
    <3>1. request[r].at = "close" /\ UNCHANGED trace  BY <1>7 DEF CloseSession
    <3>2. "bill" \in Stage  BY DEF Stage
    <3>3. /\ request' \in [Requests -> RequestRow] /\ request'[r].at = "bill" /\ request'[r].node = request[r].node
          /\ request'[r].cost = request[r].cost /\ \A q \in Requests \ {r} : request'[q] = request[q]
      BY <1>0, <2>2, <3>2, CallGoesTo
    <3>4. session[r].status = "ACTIVE" /\ request[r].cost = Cost(r) /\ ~Awaited(r) /\ trace[r] = 0
      BY <1>0, <2>2, <3>1 DEF BooksOK, Alive
    <3>5. request[r].cost \in {0, 1, 3}  BY <1>0 DEF RelayTypeOK
    <3>6. Closed(r) \in SessionRow /\ Closed(r).status = "COMPLETED" /\ Closed(r).cost = request[r].cost
      BY <3>4, <3>5 DEF Closed
    <3>7. /\ session' \in [Requests -> SessionRow] /\ session'[r] = Closed(r)
          /\ \A q \in Requests \ {r} : session'[q] = session[q]
      BY <1>0, <2>2, <3>6 DEF RelayTypeOK
    <3>8. RelayTypeOK'  BY <1>0, <1>1, <3>1, <3>3, <3>7 DEF RelayTypeOK
    <3>9. BooksOK(r)'
      BY <1>0, <1>1, <3>1, <3>3, <3>4, <3>6, <3>7 DEF BooksOK, Awaited, Alive, Cost, RelayStages
    <3> QED  BY <1>1, <1>2, <3>1, <3>3, <3>7, <3>8, <3>9, OthersKept
  <2> QED  BY <1>7, <2>1, <2>2 DEF CloseSession
<1>8. CASE BillSession(r)
  <2>1. /\ request[r].at = "bill" /\ GoTo(r, "ended") /\ UNCHANGED session
        /\ trace' = trace \/ trace' = [trace EXCEPT ![r] = request[r].cost]
    BY <1>8 DEF BillSession
  <2>2. "ended" \in Stage  BY DEF Stage
  <2>3. /\ request' \in [Requests -> RequestRow] /\ request'[r].at = "ended" /\ request'[r].node = request[r].node
        /\ request'[r].cost = request[r].cost /\ \A q \in Requests \ {r} : request'[q] = request[q]
    BY <1>0, <2>1, <2>2, CallGoesTo
  <2>4. /\ trace' \in [Requests -> {0, 1, 3}] /\ trace'[r] \in {0, request[r].cost}
        /\ \A q \in Requests \ {r} : trace'[q] = trace[q]
    <3>1. request[r].cost \in {0, 1, 3} /\ trace[r] = 0 /\ trace \in [Requests -> {0, 1, 3}]
      BY <1>0, <2>1 DEF RelayTypeOK, BooksOK
    <3> QED  BY <2>1, <3>1
  <2>5. RelayTypeOK'  BY <1>0, <1>1, <2>1, <2>3, <2>4 DEF RelayTypeOK
  <2>6. BooksOK(r)'  BY <1>0, <1>1, <2>1, <2>3, <2>4 DEF BooksOK, Awaited, Alive, Cost, RelayStages
  <2> QED  BY <1>1, <1>2, <2>1, <2>3, <2>4, <2>5, <2>6, OthersKept
<1> QED  BY <1>5, <1>6, <1>7, <1>8

\* A node is paired, connects, fails, or is deleted with its sessions and their events.
LEMMA RelayNodeStep == ASSUME RelayInv, NodeStep PROVE RelayInv'
<1> USE DEF SessionRow
<1>1. NodeSteps /\ Cascade /\ UNCHANGED <<request, pendingRequests, inbox, storing, written, trace>>
  BY Zenon DEF NodeStep
<1>2. NodesInv /\ RelayTypeOK  BY DEF RelayInv
<1>3. NodesInv'  BY <1>1, <1>2, NodesStep DEF NextNodes
<1> DEFINE gone == {r \in Requests : request[r].node # NoNode /\ row'[request[r].node].status = "deleted"}
<1>4. /\ session'   = [r \in Requests |-> IF r \in gone THEN NoRow ELSE session[r]]
      /\ responses' = [r \in Requests |-> IF r \in gone THEN 0 ELSE responses[r]]
  BY <1>1 DEF Cascade
<1> HIDE DEF gone
<1>5. NoRow \in SessionRow /\ NoRow.status = "none"  BY DEF NoRow
<1>6. RelayTypeOK'
  <2>1. session' \in [Requests -> SessionRow] /\ responses' \in [Requests -> 0..1]
    BY <1>2, <1>4, <1>5 DEF RelayTypeOK
  <2> QED  BY <1>1, <1>2, <2>1 DEF RelayTypeOK
<1>7. ASSUME NEW r \in Requests PROVE BooksOK(r)'
  <2>1. BooksOK(r) /\ responses[r] \in 0..1 /\ written[r] \in 0..1  BY <1>2 DEF RelayInv, RelayTypeOK
  <2>2. CASE r \in gone
    <3>1. session'[r].status = "none" /\ responses'[r] = 0  BY <1>4, <1>5, <2>2
    <3> QED  BY <1>1, <2>1, <3>1 DEF BooksOK, Awaited, Alive, RelayStages
  <2>3. CASE r \notin gone
    <3>1. session'[r] = session[r] /\ responses'[r] = responses[r]  BY <1>4, <2>3
    <3> QED  BY <1>1, <2>1, <3>1 DEF BooksOK, Awaited, Alive, Cost
  <2> QED  BY <2>2, <2>3
<1> QED  BY <1>3, <1>6, <1>7 DEF RelayInv

\* The process restarts.
LEMMA RelayRestart == ASSUME RelayInv, RestartServer PROVE RelayInv'
<1> USE DEF RequestRow
<1>0. NodesInv /\ RelayTypeOK  BY DEF RelayInv
<1>1. /\ request' = [r \in Requests |-> IF request[r].at \in {"new", "ended", "failed"}
                                        THEN request[r] ELSE [request[r] EXCEPT !.at = "lost"]]
      /\ pendingRequests' = {} /\ storing' = {} /\ UNCHANGED <<session, responses, inbox, written, trace>>
      /\ Restart
  BY Zenon DEF RestartServer
<1>2. NodesInv'  BY <1>0, <1>1, NodesStep DEF NextNodes
<1>3. ASSUME NEW r \in Requests
      PROVE  /\ request'[r] \in RequestRow
             /\ \/ request'[r] = request[r] /\ request[r].at \in {"new", "ended", "failed"}
                \/ request'[r].at = "lost"
  <2> DEFINE c == request[r]  d == [c EXCEPT !.at = "lost"]
  <2>1. c \in RequestRow  BY <1>0 DEF RelayTypeOK
  <2>2. d \in RequestRow /\ d.at = "lost"
    <3> HIDE DEF c
    <3> QED  BY <2>1 DEF Stage
  <2>3. request'[r] = IF c.at \in {"new", "ended", "failed"} THEN c ELSE d  BY <1>1
  <2> HIDE DEF d
  <2> QED  BY <2>1, <2>2, <2>3
<1>4. RelayTypeOK'
  <2>1. request' \in [Requests -> RequestRow]  BY <1>1, <1>3
  <2> QED  BY <1>0, <1>1, <2>1 DEF RelayTypeOK
<1>5. ASSUME NEW r \in Requests PROVE BooksOK(r)'
  <2>1. BooksOK(r)  BY DEF RelayInv
  <2>2. CASE request'[r] = request[r] /\ request[r].at \in {"new", "ended", "failed"}
    BY <1>1, <2>1, <2>2 DEF BooksOK, Awaited, Alive, Cost
  <2>3. CASE request'[r].at = "lost"
    BY <1>1, <2>1, <2>3 DEF BooksOK, Awaited, Alive, Cost, RelayStages
  <2> QED  BY <1>3, <2>2, <2>3
<1> QED  BY <1>2, <1>4, <1>5 DEF RelayInv

\* Every step of the bridge and its relay keeps the invariant.
LEMMA RelayKeeps == RelayInv /\ [Next]_vars => RelayInv'
<1> SUFFICES ASSUME RelayInv, [Next]_vars PROVE RelayInv'
  OBVIOUS
<1>1. CASE NodeStep  BY <1>1, RelayNodeStep
<1>2. CASE RestartServer  BY <1>2, RelayRestart
<1>3. ASSUME NEW r \in Requests, RelayStep(r) PROVE RelayInv'
  BY <1>3, CallSteps, SendStep, AnswerSteps, StreamSteps DEF RelayStep
<1>4. CASE UNCHANGED vars
  <2>1. NodesInv'  BY <1>4, NodesStep DEF vars, RelayInv
  <2>2. RelayTypeOK'  BY <1>4 DEF vars, relayVars, RelayInv, RelayTypeOK
  <2>3. \A r \in Requests : BooksOK(r)'  BY <1>4 DEF vars, relayVars, RelayInv, BooksOK, Awaited, Alive, Cost
  <2> QED  BY <2>1, <2>2, <2>3 DEF RelayInv
<1> QED  BY <1>1, <1>2, <1>3, <1>4 DEF Next

\* So it holds in every reachable state.
LEMMA RelayHolds == Spec => []RelayInv
BY RelayStart, RelayKeeps, PTL DEF Spec

\* Whatever the nodes, the database, the user and the timers do: an answer is stored only
\* after the browser's stream wrote it, unless the process restarted; what is billed is the
\* cost of what was stored, and the session that is still there shows it
\* (result-streaming.service.ts:110-199).
THEOREM AlwaysKeepsBooks == Spec => []RelayKeepsBooks
<1>1. RelayInv => RelayKeepsBooks
  BY DEF RelayInv, RelayKeepsBooks, BooksOK, StoredAnswersAreStreamed, BillMatchesSession
<1> QED  BY <1>1, RelayHolds, PTL

\* The nodes stay in order when instructions are relayed to them.
THEOREM NodesInOrderBesidesRelay == Spec => []NodesInOrder
<1>1. RelayInv => NodesInOrder  BY NodesShow DEF RelayInv
<1> QED  BY <1>1, RelayHolds, PTL
=============================================================================
