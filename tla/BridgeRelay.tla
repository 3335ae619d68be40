---------------------------- MODULE BridgeRelay ----------------------------
(***************************************************************************)
(* Instructions relayed to a remote node: relayToRemoteNode opens a bridge *)
(* session and sends node.invoke over the node's connection, the response  *)
(* is stored and emitted to the browser's event stream, and when the       *)
(* stream's wait is over the session is priced, closed and billed.         *)
(* Composed with BridgeNodes, whose steps happen between any two of these. *)
(***************************************************************************)
EXTENDS BridgeNodes

CONSTANTS
  Requests,  \* calls of relayToRemoteNode
  Runners    \* clients whose commands include system.run

ASSUME RunnersAssumption == Runners \subseteq Clients

VARIABLES
  request,         \* progress of the call, the node it is for, the cost computed
  session,         \* its bridge_sessions row: status and totalCost
  responses,       \* number of its RESPONSE rows in bridge_events
  pendingRequests, \* the calls with an entry in pendingRequests
  inbox,           \* the connection the instruction was delivered on
  storing,         \* handleResponse of the call waits for its insert
  written,         \* message events written to the browser
  trace            \* cost of the trace_sessions row written for billing, 0 if none

relayVars == <<request, session, responses, pendingRequests, inbox, storing, written, trace>>
vars      == <<nodeVars, relayVars>>

Stage    == {"new", "create", "log", "send", "stream", "read", "close", "bill", "ended", "failed", "lost"}
Open     == {"stream", "read", "close", "bill"}
NoRow    == [status |-> "none", cost |-> 0]
Alive(r) == session[r].status \in {"ACTIVE", "COMPLETED", "ERROR"}

\* The estimate counts the characters of the instruction and of every RESPONSE.
Cost(r) == 1 + 2 * responses[r]

InitRelay ==
  /\ request = [r \in Requests |-> [at |-> "new", node |-> NoNode, cost |-> 0]]
  /\ session = [r \in Requests |-> NoRow]
  /\ responses = [r \in Requests |-> 0]
  /\ pendingRequests = {}
  /\ inbox = [r \in Requests |-> NoSocket]
  /\ storing = {}
  /\ written = [r \in Requests |-> 0]
  /\ trace = [r \in Requests |-> 0]

Init == InitNodes /\ InitRelay

\* An outcome the database may bring about, or that cond makes certain.
FaultOr(cond) == Fault \/ (cond /\ UNCHANGED faults)

GoTo(r, stage) == request' = [request EXCEPT ![r].at = stage]

----------------------------------------------------------------------------
(* relayToRemoteNode.                                                      *)

\* Answered 503 without a step when the node is not in the map.
Relay(r, n) ==
  /\ request[r].at = "new"
  /\ connectedNodes[n] # NoSocket
  /\ request' = [request EXCEPT ![r] = [at |-> "create", node |-> n, cost |-> 0]]
  /\ UNCHANGED <<nodeVars, session, responses, pendingRequests, inbox, storing, written, trace>>

\* The row references the node, which may have been unpaired: then the call fails.
CreateSession(r) ==
  /\ request[r].at = "create"
  /\ \/ /\ Stored(request[r].node)
        /\ session' = [session EXCEPT ![r].status = "ACTIVE"]
        /\ GoTo(r, "log") /\ UNCHANGED faults
     \/ /\ FaultOr(~Stored(request[r].node))
        /\ GoTo(r, "failed")
        /\ UNCHANGED session
  /\ UNCHANGED <<connVars, responses, pendingRequests, inbox, storing, written, trace>>

LogInstruction(r) ==
  /\ request[r].at = "log"
  /\ \/ Alive(r) /\ GoTo(r, "send") /\ UNCHANGED faults
     \/ FaultOr(~Alive(r)) /\ GoTo(r, "failed")
  /\ UNCHANGED <<connVars, session, responses, pendingRequests, inbox, storing, written, trace>>

\* Sending on a connection that is no longer open drops the message silently.
Deliver(r, s) == inbox' = IF socket[s] = "open" THEN [inbox EXCEPT ![r] = s] ELSE inbox

CanSend(r) == LET s == connectedNodes[request[r].node] IN s # NoSocket /\ client[s] \in Runners

\* sendInstructionToNode returns and the stream is subscribed before any other event.
SendInstruction(r) ==
  /\ request[r].at = "send"
  /\ CanSend(r)
  /\ pendingRequests' = pendingRequests \cup {r}
  /\ Deliver(r, connectedNodes[request[r].node])
  /\ GoTo(r, "stream")
  /\ UNCHANGED <<nodeVars, session, responses, storing, written, trace>>

\* It throws when the node has left the map or lacks system.run; the branch that would
\* mark the session as ERROR is for a false it never returns.
SendFails(r) ==
  /\ request[r].at = "send"
  /\ ~CanSend(r)
  /\ GoTo(r, "failed")
  /\ UNCHANGED <<nodeVars, session, responses, pendingRequests, inbox, storing, written, trace>>

----------------------------------------------------------------------------
(* handleResponse and the timer of a pending request.                      *)

\* Mutant: the entry outlives its answer, so a second answer is taken too.
handleResponse_Kept(r, ok) ==
  /\ r \in pendingRequests
  /\ inbox[r] # NoSocket /\ socket[inbox[r]] \in {"open", "closing"}
  /\ storing' = IF ok THEN storing \cup {r} ELSE storing
  /\ UNCHANGED <<nodeVars, request, session, responses, pendingRequests, inbox, written, trace>>

\* The node answers on the connection it was asked on.  A failed command is answered
\* with ok = FALSE: nothing is stored and the reject of such a request does nothing.
handleResponse(r, ok) ==
  /\ r \in pendingRequests
  /\ inbox[r] # NoSocket /\ socket[inbox[r]] \in {"open", "closing"}
  /\ pendingRequests' = pendingRequests \ {r}
  /\ storing' = IF ok THEN storing \cup {r} ELSE storing
  /\ UNCHANGED <<nodeVars, request, session, responses, inbox, written, trace>>

\* The insert and the emission that follows it; an error of the insert is caught.
StoreResponse(r) ==
  /\ r \in storing
  /\ storing' = storing \ {r}
  /\ \/ /\ Alive(r)
        /\ responses' = [responses EXCEPT ![r] = @ + 1]
        /\ written' = IF request[r].at \in Open THEN [written EXCEPT ![r] = @ + 1] ELSE written
        /\ UNCHANGED faults
     \/ FaultOr(~Alive(r)) /\ UNCHANGED <<responses, written>>
  /\ UNCHANGED <<connVars, request, session, pendingRequests, inbox, trace>>

PendingTimeout(r) ==
  /\ r \in pendingRequests
  /\ pendingRequests' = pendingRequests \ {r}
  /\ UNCHANGED <<nodeVars, request, session, responses, inbox, storing, written, trace>>

----------------------------------------------------------------------------
(* streamResultsToClient after its subscription.                           *)

\* Mutant: the wait is shorter than the request's own timeout.
WaitIsOver_Early(r) == ~Alive(r) \/ session[r].status # "ACTIVE" \/ r \notin storing

\* Mutant: no timeout.
WaitIsOver_OnlyWhenClosed(r) == ~Alive(r) \/ session[r].status # "ACTIVE"

\* waitForSessionComplete polls until the session is gone or not ACTIVE, or five minutes
\* have passed; by then the request's own 30 seconds are over and an insert begun within
\* them is assumed to have finished.
WaitIsOver(r) == \/ ~Alive(r) \/ session[r].status # "ACTIVE"
                 \/ r \notin pendingRequests /\ r \notin storing

EndWait(r) ==
  /\ request[r].at = "stream"
  /\ WaitIsOver(r)
  /\ GoTo(r, "read")
  /\ UNCHANGED <<nodeVars, session, responses, pendingRequests, inbox, storing, written, trace>>

\* The session and its events are read and priced; a session that is gone ends the
\* stream at once, as does an error here and below.
ReadSession(r) ==
  /\ request[r].at = "read"
  /\ \/ /\ Alive(r) /\ UNCHANGED faults
        /\ request' = [request EXCEPT ![r].at = "close", ![r].cost = Cost(r)]
     \/ FaultOr(~Alive(r)) /\ GoTo(r, "ended")
  /\ UNCHANGED <<connVars, session, responses, pendingRequests, inbox, storing, written, trace>>

\* Mutant: the cost is not written.
Closed_Unpriced(r) == [session[r] EXCEPT !.status = "COMPLETED"]

Closed(r) == [status |-> IF session[r].status = "ERROR" THEN "ERROR" ELSE "COMPLETED",
              cost |-> request[r].cost]

CloseSession(r) ==
  /\ request[r].at = "close"
  /\ \/ Alive(r) /\ session' = [session EXCEPT ![r] = Closed(r)] /\ GoTo(r, "bill") /\ UNCHANGED faults
     \/ FaultOr(~Alive(r)) /\ GoTo(r, "ended") /\ UNCHANGED session
  /\ UNCHANGED <<connVars, responses, pendingRequests, inbox, storing, written, trace>>

\* The task trace and then the trace session, which do not reference the bridge session.
BillSession(r) ==
  /\ request[r].at = "bill"
  /\ \/ trace' = [trace EXCEPT ![r] = request[r].cost] /\ UNCHANGED faults
     \/ Fault /\ UNCHANGED trace
  /\ GoTo(r, "ended")
  /\ UNCHANGED <<connVars, session, responses, pendingRequests, inbox, storing, written>>

----------------------------------------------------------------------------
(* Composition with the nodes: deleting a node deletes its sessions and    *)
(* their events, and a restart forgets calls, timers and streams.          *)

Cascade ==
  LET gone == {r \in Requests : request[r].node # NoNode /\ row'[request[r].node].status = "deleted"}
  IN /\ session'   = [r \in Requests |-> IF r \in gone THEN NoRow ELSE session[r]]
     /\ responses' = [r \in Requests |-> IF r \in gone THEN 0 ELSE responses[r]]

NodeStep == NodeSteps /\ Cascade
            /\ UNCHANGED <<request, pendingRequests, inbox, storing, written, trace>>

RestartServer ==
  /\ Restart
  /\ request' = [r \in Requests |-> IF request[r].at \in {"new", "ended", "failed"}
                                    THEN request[r] ELSE [request[r] EXCEPT !.at = "lost"]]
  /\ pendingRequests' = {} /\ storing' = {}
  /\ UNCHANGED <<session, responses, inbox, written, trace>>

RelayStep(r) ==
  \/ \E n \in NodeIds : Relay(r, n)
  \/ CreateSession(r) \/ LogInstruction(r) \/ SendInstruction(r) \/ SendFails(r)
  \/ \E ok \in BOOLEAN : handleResponse(r, ok)
  \/ StoreResponse(r) \/ PendingTimeout(r)
  \/ EndWait(r) \/ ReadSession(r) \/ CloseSession(r) \/ BillSession(r)

Next == NodeStep \/ RestartServer \/ \E r \in Requests : RelayStep(r)

Spec == Init /\ [][Next]_vars

\* Timers fire and the database answers; nothing obliges a node to respond.
TimersAndDatabase ==
  \A r \in Requests :
    /\ WF_vars(PendingTimeout(r)) /\ WF_vars(StoreResponse(r))
    /\ WF_vars(EndWait(r)) /\ WF_vars(ReadSession(r))
    /\ WF_vars(CloseSession(r)) /\ WF_vars(BillSession(r))

LiveSpec == Spec /\ ServerSteps /\ TimersAndDatabase

----------------------------------------------------------------------------
RelayTypeOK ==
  /\ request \in [Requests -> [at : Stage, node : NodeIds \cup {NoNode}, cost : {0, 1, 3}]]
  /\ session \in [Requests -> [status : {"none", "ACTIVE", "COMPLETED", "ERROR"}, cost : {0, 1, 3}]]
  /\ responses \in [Requests -> 0..1] /\ written \in [Requests -> 0..1]
  /\ pendingRequests \subseteq Requests /\ storing \subseteq Requests
  /\ inbox \in [Requests -> Sockets \cup {NoSocket}]
  /\ trace \in [Requests -> {0, 1, 3}]

\* A stored answer was shown: no RESPONSE row exists that its stream did not write, though
\* the insert finishes at any time after the node answered (websocket-server.ts:443 and
\* the subscription of result-streaming.service.ts:110).
StoredAnswersAreStreamed == \A r \in Requests : responses[r] <= written[r] \/ request[r].at = "lost"

\* What is billed covers the answer that was stored, and the session that still exists
\* shows the same cost (result-streaming.service.ts:160 and :186).
BillMatchesSession ==
  \A r \in Requests : trace[r] # 0 /\ Alive(r) =>
    session[r].status = "COMPLETED" /\ session[r].cost = trace[r] /\ trace[r] = Cost(r)

\* What was stored was shown, and what was billed was stored, of the two above, in states
\* that have their types.
RelayKeepsBooks == RelayTypeOK /\ StoredAnswersAreStreamed /\ BillMatchesSession

\* Every stream that was opened ends, whatever the node, the user who unpairs it and the
\* database do (result-streaming.service.ts:17 and :220), unless the process restarts.
StreamEnds == \A r \in Requests : request[r].at = "stream" ~> request[r].at \in {"ended", "lost"}
=============================================================================
