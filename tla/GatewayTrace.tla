---------------------------- MODULE GatewayTrace ----------------------------
(***************************************************************************)
(* One trace of the agent gateway: the request that creates it and starts  *)
(* its agents (one, a delegate, all at once, or one after the other), the  *)
(* executor of each agent, which streams the model's answer and settles    *)
(* its session and the trace, and the user's cancel, pause, resume, update *)
(* and delete calls.  Every database call is a step of its own; traces do  *)
(* not share state, so one trace stands for all.                           *)
(***************************************************************************)
EXTENDS Naturals, Sequences, FiniteSets

CONSTANTS
  Agents,     \* the agents asked for
  Order,      \* a sequence of them, in the order the database returns them
  Modes,      \* the modes explored
  Calls,      \* control calls the owner makes on the trace
  OpsOf,      \* the operations each of those calls may be
  MaxFaults   \* bound: database calls that fail

ASSUME OrderAssumption == /\ IsFiniteSet(Agents) /\ Agents # {}
                          /\ Order \in [1..Cardinality(Agents) -> Agents]
                          /\ \A a \in Agents : \E i \in DOMAIN Order : Order[i] = a
                          /\ \A i, j \in DOMAIN Order : Order[i] = Order[j] => i = j
ASSUME ModesAssumption == Modes \subseteq {"single", "delegate", "parallel", "sequential"}
ASSUME OpsAssumption   == OpsOf \in [Calls -> SUBSET {"cancel", "pause", "resume", "update", "delete"}]
ASSUME FaultAssumption == MaxFaults \in Nat

VARIABLES
  mode,    \* how the agents are run
  trace,   \* the task_traces row
  session, \* the trace_sessions row of each agent
  exec,    \* progress of each executor and how much of the answer it has read
  driver,  \* progress of the request and of executeSequentialAgents
  call,    \* progress of each control call
  faults

vars == <<mode, trace, session, exec, driver, call, faults>>

Team == IF mode \in {"single", "delegate"} THEN {Order[1]} ELSE Agents

\* An answer is read in two parts: message_start prices the input, message_delta the output.
Parts  == 0..2
Absent == [status |-> "absent", cost |-> 0]
Exists == trace.status # "absent"

Init ==
  /\ mode \in Modes
  /\ trace = Absent
  /\ session = [a \in Agents |-> Absent]
  /\ exec = [a \in Agents |-> [at |-> "off", read |-> 0, throws |-> FALSE, caught |-> FALSE]]
  /\ driver = [at |-> "trace", next |-> 1]
  /\ call = [c \in Calls |-> [op |-> "none", at |-> "idle"]]
  /\ faults = 0

Fault == faults < MaxFaults /\ faults' = faults + 1

----------------------------------------------------------------------------
(* createTraceWithSession, executeMultiAgent and executeSequentialAgents.  *)

CreateTrace ==
  /\ driver.at = "trace"
  /\ trace' = [status |-> "running", cost |-> 0]
  /\ driver' = [driver EXCEPT !.at = "create"]
  /\ UNCHANGED <<mode, session, exec, call, faults>>

Launch(a) == exec' = [exec EXCEPT ![a].at = "start"]

\* The sessions of a parallel run are created together, in any order; the other modes
\* create the session of the agent they have come to.
MayCreate(a) == /\ a \in Team /\ session[a] = Absent /\ Exists
                /\ mode # "parallel" => a = Order[driver.next]

CreateSession(a) ==
  /\ driver.at = "create"
  /\ MayCreate(a)
  /\ session' = [session EXCEPT ![a] = [status |-> "running", cost |-> 0]]
  /\ IF mode = "single"
     THEN Launch(a) /\ driver' = [driver EXCEPT !.at = "done"]
     ELSE /\ UNCHANGED exec
          /\ driver' = IF mode = "parallel" /\ \E b \in Team \ {a} : session[b] = Absent
                       THEN driver ELSE [driver EXCEPT !.at = "announce"]
  /\ UNCHANGED <<mode, trace, call, faults>>

\* Mutant: the executor of a sequential run is not awaited.
AfterLaunch_NoWait ==
  IF mode = "delegate" \/ driver.next = Len(Order) THEN [driver EXCEPT !.at = "done"]
  ELSE [driver EXCEPT !.next = @ + 1, !.at = IF mode = "sequential" THEN "create" ELSE @]

\* The event that says the agent starts, and its executor started without waiting.
AfterLaunch ==
  CASE mode = "delegate"   -> [driver EXCEPT !.at = "done"]
    [] mode = "sequential" -> [driver EXCEPT !.at = "wait"]
    [] OTHER -> IF driver.next = Len(Order) THEN [driver EXCEPT !.at = "done"]
                                            ELSE [driver EXCEPT !.next = @ + 1]

Announce ==
  /\ driver.at = "announce"
  /\ session[Order[driver.next]] # Absent
  /\ Launch(Order[driver.next])
  /\ driver' = AfterLaunch
  /\ UNCHANGED <<mode, trace, session, call, faults>>

\* An error, or the deletion of the trace, ends the request: what runs keeps running.
RequestFails ==
  /\ driver.at \in {"create", "announce"}
  /\ \/ Fault
     \/ UNCHANGED faults /\ ~Exists
  /\ driver' = [driver EXCEPT !.at = "failed"]
  /\ UNCHANGED <<mode, trace, session, exec, call>>

\* executeRealAnthropicCall returned: poll its session until it is completed or error.
PollSession ==
  /\ driver.at = "wait"
  /\ exec[Order[driver.next]].at = "done"
  /\ session[Order[driver.next]].status \in {"completed", "error"}
  /\ driver' = IF driver.next = Len(Order) THEN [driver EXCEPT !.at = "finish"]
                                           ELSE [at |-> "create", next |-> driver.next + 1]
  /\ UNCHANGED <<mode, trace, session, exec, call, faults>>

SequenceRejected ==
  /\ driver.at = "wait"
  /\ exec[Order[driver.next]].at = "threw"
  /\ driver' = [driver EXCEPT !.at = "failed"]
  /\ UNCHANGED <<mode, trace, session, exec, call, faults>>

FinishSequence ==
  /\ driver.at = "finish"
  /\ trace' = IF Exists THEN [trace EXCEPT !.status = "completed"] ELSE trace
  /\ driver' = [driver EXCEPT !.at = "done"]
  /\ UNCHANGED <<mode, session, exec, call, faults>>

----------------------------------------------------------------------------
(* executeRealAnthropicCall.                                               *)

Go(a, at) == exec' = [exec EXCEPT ![a].at = at]

\* The key and the agent are read and the thinking event is stored; the key may have been
\* removed since the request checked it, which is reported and thrown.
Begin(a) ==
  /\ exec[a].at = "start"
  /\ \/ session[a] # Absent /\ Go(a, "fetch")
     \/ exec' = [exec EXCEPT ![a].at = "error", ![a].throws = TRUE]
  /\ UNCHANGED <<mode, trace, session, driver, call, faults>>

\* The API opens a stream, or refuses, which is reported inside the try block, or fails.
Fetch(a) ==
  /\ exec[a].at = "fetch"
  /\ \/ Go(a, "check") \/ Go(a, "error")
     \/ exec' = [exec EXCEPT ![a].at = "error", ![a].caught = TRUE]
  /\ UNCHANGED <<mode, trace, session, driver, call, faults>>

\* Mutant: a paused trace holds the loop.
CheckCancelled_WhilePaused(a) ==
  /\ exec[a].at = "check"
  /\ trace.status # "paused"
  /\ Go(a, IF trace.status = "cancelled" THEN "report" ELSE "read")
  /\ UNCHANGED <<mode, trace, session, driver, call, faults>>

\* The head of the read loop looks for a cancellation, then waits for the next part.
CheckCancelled(a) ==
  /\ exec[a].at = "check"
  /\ Go(a, IF trace.status = "cancelled" THEN "report" ELSE "read")
  /\ UNCHANGED <<mode, trace, session, driver, call, faults>>

\* Mutant: the end of the stream is not noticed.
ReadPart_PastEnd(a) ==
  /\ exec[a].at = "read"
  /\ exec' = [exec EXCEPT ![a].at = "check", ![a].read = @ + 1]
  /\ UNCHANGED <<mode, trace, session, driver, call, faults>>

ReadPart(a) ==
  /\ exec[a].at = "read"
  /\ \/ exec[a].read < 2 /\ exec' = [exec EXCEPT ![a].at = "check", ![a].read = @ + 1]
     \/ exec[a].read = 2 /\ Go(a, "report")
     \/ Go(a, "error")
  /\ UNCHANGED <<mode, trace, session, driver, call, faults>>

\* The final events; their inserts fail when the session is gone.
Report(a) ==
  /\ exec[a].at = "report"
  /\ Go(a, IF session[a] # Absent THEN "settle" ELSE "error")
  /\ UNCHANGED <<mode, trace, session, driver, call, faults>>

\* Mutant: the cost is left out of the update of the session.
Completed_Unpriced(row, cost) == [row EXCEPT !.status = "completed"]

Completed(row, cost) == [status |-> "completed", cost |-> cost]

SettleSession(a) ==
  /\ exec[a].at = "settle"
  /\ IF session[a] # Absent
     THEN session' = [session EXCEPT ![a] = Completed(@, exec[a].read)] /\ Go(a, "close")
     ELSE Go(a, "error") /\ UNCHANGED session
  /\ UNCHANGED <<mode, trace, driver, call, faults>>

\* The trace takes this session's status and cost, whoever else works for it.
SettleTrace(a) ==
  /\ exec[a].at = "close"
  /\ IF Exists
     THEN trace' = Completed(trace, exec[a].read) /\ Go(a, "done")
     ELSE Go(a, "error") /\ UNCHANGED trace
  /\ UNCHANGED <<mode, session, driver, call, faults>>

Return(a) == Go(a, IF exec[a].throws THEN "threw" ELSE "done")

\* A report that fails inside the try block is caught and made again, once.
ReportFails(a) ==
  IF exec[a].caught THEN exec' = [exec EXCEPT ![a].at = "error", ![a].caught = FALSE] ELSE Go(a, "threw")

ErrorEvent(a) ==
  /\ exec[a].at = "error"
  /\ IF session[a] # Absent THEN Go(a, "failSession") ELSE ReportFails(a)
  /\ UNCHANGED <<mode, trace, session, driver, call, faults>>

\* Mutant: completeTrace forgets the session.
ErrorSession_TraceOnly(a) ==
  /\ exec[a].at = "failSession"
  /\ Go(a, "failTrace")
  /\ UNCHANGED <<mode, trace, session, driver, call, faults>>

ErrorSession(a) ==
  /\ exec[a].at = "failSession"
  /\ IF session[a] # Absent
     THEN session' = [session EXCEPT ![a].status = "error"] /\ Go(a, "failTrace")
     ELSE ReportFails(a) /\ UNCHANGED session
  /\ UNCHANGED <<mode, trace, driver, call, faults>>

\* Mutant: completeTrace forgets the trace.
ErrorTrace_SessionOnly(a) ==
  /\ exec[a].at = "failTrace"
  /\ Return(a)
  /\ UNCHANGED <<mode, trace, session, driver, call, faults>>

ErrorTrace(a) ==
  /\ exec[a].at = "failTrace"
  /\ IF Exists
     THEN trace' = [trace EXCEPT !.status = "error"] /\ Return(a)
     ELSE ReportFails(a) /\ UNCHANGED trace
  /\ UNCHANGED <<mode, session, driver, call, faults>>

\* A database call fails: inside the try block it is reported as an error, a report there
\* too; before the block and while reporting outside it, it rejects the executor.
ExecutorFault(a) ==
  /\ Fault
  /\ \/ exec[a].at \in {"check", "report", "settle", "close"} /\ Go(a, "error")
     \/ exec[a].at \in {"start", "error", "failSession", "failTrace"} /\ ReportFails(a)
  /\ UNCHANGED <<mode, trace, session, driver, call>>

Active(a) == exec[a].at \notin {"off", "done", "threw"}

Execute(a) == Begin(a) \/ Fetch(a) \/ CheckCancelled(a) \/ ReadPart(a) \/ Report(a)
              \/ SettleSession(a) \/ SettleTrace(a)
              \/ ErrorEvent(a) \/ ErrorSession(a) \/ ErrorTrace(a)

----------------------------------------------------------------------------
(* The owner's calls: read the trace, check its status, write.             *)

Allowed(op) == CASE op = "cancel" -> trace.status \notin {"completed", "cancelled"}
                 [] op = "pause"  -> trace.status = "running"
                 [] op = "resume" -> trace.status = "paused"
                 [] OTHER         -> TRUE

BeginCall(c, op) ==
  /\ call[c].at = "idle"
  /\ Exists /\ Allowed(op)
  /\ call' = [call EXCEPT ![c] = [op |-> op, at |-> IF op = "cancel" THEN "sessions" ELSE "write"]]
  /\ UNCHANGED <<mode, trace, session, exec, driver, faults>>

CancelSessions(c) ==
  /\ call[c].at = "sessions"
  /\ session' = [a \in Agents |-> IF session[a].status = "running"
                                  THEN [session[a] EXCEPT !.status = "cancelled"] ELSE session[a]]
  /\ call' = [call EXCEPT ![c].at = "write"]
  /\ UNCHANGED <<mode, trace, exec, driver, faults>>

\* The statuses a call may write.
Written(op) == CASE op = "cancel" -> {"cancelled"}
                 [] op = "pause"  -> {"paused"}
                 [] op = "resume" -> {"running"}
                 [] op = "update" -> {"running", "completed", "error", "cancelled"}
                 [] OTHER         -> {}

WriteTrace(c) ==
  /\ call[c].at = "write"
  /\ \/ \E status \in Written(call[c].op) : Exists /\ trace' = [trace EXCEPT !.status = status]
     \/ ~Exists /\ UNCHANGED trace
  /\ call' = [call EXCEPT ![c].at = "over"]
  /\ UNCHANGED <<mode, session, exec, driver, faults>>

\* Deleting the trace deletes its sessions and their events.
DeleteTrace(c) ==
  /\ call[c].at = "write" /\ call[c].op = "delete"
  /\ Exists
  /\ trace' = Absent
  /\ session' = [a \in Agents |-> Absent]
  /\ call' = [call EXCEPT ![c].at = "over"]
  /\ UNCHANGED <<mode, exec, driver, faults>>

Control(c) == (\E op \in OpsOf[c] : BeginCall(c, op)) \/ CancelSessions(c) \/ WriteTrace(c) \/ DeleteTrace(c)

Drive == CreateTrace \/ (\E a \in Agents : CreateSession(a)) \/ Announce \/ RequestFails
         \/ PollSession \/ SequenceRejected \/ FinishSequence

Next == \/ Drive
        \/ \E a \in Agents : Execute(a) \/ ExecutorFault(a)
        \/ \E c \in Calls : Control(c)

\* The database and the API answer, so an executor that was started goes on.
ExecutorsProceed == \A a \in Agents : WF_vars(Execute(a))

Spec == Init /\ [][Next]_vars /\ ExecutorsProceed

----------------------------------------------------------------------------
Rows == [status : {"absent", "running", "paused", "completed", "error", "cancelled"}, cost : Parts]

TypeOK ==
  /\ mode \in Modes
  /\ trace \in Rows /\ session \in [Agents -> Rows]
  /\ exec \in [Agents -> [at : {"off", "start", "fetch", "check", "read", "report", "settle", "close",
                                "error", "failSession", "failTrace", "done", "threw"},
                          read : Parts, throws : BOOLEAN, caught : BOOLEAN]]
  /\ driver \in [at : {"trace", "create", "announce", "wait", "finish", "done", "failed"},
                 next : 1..Len(Order)]
  /\ \A c \in Calls : call[c] \in [op : OpsOf[c] \cup {"none"}, at : {"idle", "sessions", "write", "over"}]
  /\ faults \in 0..MaxFaults

\* A session that shows completed carries the cost of what its executor read, whatever
\* cancellation, failure or other agent touched the trace meanwhile (gateway.service.ts:388).
CompletedSessionPriced ==
  \A a \in Agents : session[a].status = "completed" => session[a].cost = exec[a].read

\* The agents of a sequential run never work at the same time (gateway.service.ts:197 to
\* :210), though each executor reports its own end.
OneAtATime ==
  mode = "sequential" => \A a, b \in Agents : Active(a) /\ Active(b) => a = b

\* When no write fails and the trace is not deleted, no session is left running once the
\* executors have ended, though cancellation races their last writes.
NothingLeftRunning ==
  faults = 0 /\ Exists /\ driver.at = "done" /\ (\A a \in Agents : ~Active(a))
    => \A a \in Agents : session[a].status # "running"

\* With one agent and nobody interfering, trace and session end with the same verdict and
\* the same cost, on every path through the executor.
SettledTogether ==
  mode \in {"single", "delegate"} /\ faults = 0 /\ (\A c \in Calls : call[c].at = "idle")
    /\ driver.at = "done" /\ ~Active(Order[1]) => trace = session[Order[1]]

\* What sessions and traces show, of the four above.
TracesInOrder == CompletedSessionPriced /\ OneAtATime /\ NothingLeftRunning /\ SettledTogether

\* Every executor that is started comes to an end: it completes, reports an error or
\* throws, also when the trace is cancelled, paused or deleted under it.
ExecutionsEnd == \A a \in Agents : exec[a].at = "start" ~> ~Active(a)

=============================================================================
