--------------------------- MODULE GatewayProofs ----------------------------
(***************************************************************************)
(* Proofs about the two gateways: the sessions and traces of the agent     *)
(* gateway, and the connection of the OpenClaw gateway client.             *)
(***************************************************************************)
EXTENDS GatewayMC, FiniteSetTheorems, SequenceTheorems, TLAPS

(***************************************************************************)
(* What sessions and traces of the agent gateway show, for any number of   *)
(* agents, control calls and failing database calls: a completed session   *)
(* is priced, a sequential run has one executor at a time, nothing is left *)
(* running, and a trace with one agent ends as its session does.           *)
(***************************************************************************)

Places == 1..Len(Order)

ExecRow == [at : {"off", "start", "fetch", "check", "read", "report", "settle", "close",
                  "error", "failSession", "failTrace", "done", "threw"},
            read : Parts, throws : BOOLEAN, caught : BOOLEAN]

CallRow == [op : {"none", "cancel", "pause", "resume", "update", "delete"},
            at : {"idle", "sessions", "write", "over"}]

Typed ==
  /\ mode \in Modes
  /\ trace \in Rows /\ session \in [Agents -> Rows]
  /\ exec \in [Agents -> ExecRow]
  /\ driver \in [at : {"trace", "create", "announce", "wait", "finish", "done", "failed"}, next : Places]
  /\ call \in [Calls -> CallRow]
  /\ faults \in 0..MaxFaults

\* The request comes to the agents in order: where it goes in each mode, and that
\* sessions and executors of later agents do not exist yet.
Driven ==
  /\ driver.at = "trace" => trace = Absent /\ session = [a \in Agents |-> Absent]
  /\ driver.at \in {"trace", "create"} => (driver.next = 1 \/ mode = "sequential")
  /\ driver.at \in {"wait", "finish"} => mode = "sequential"
  /\ driver.at = "announce" => mode # "single"
  /\ mode \in {"single", "delegate"} => driver.next = 1
  /\ \A i \in Places :
       /\ i > driver.next => exec[Order[i]].at = "off"
       /\ i = driver.next /\ driver.at \in {"trace", "create", "announce"} => exec[Order[i]].at = "off"
       /\ i > driver.next /\ mode # "parallel" => session[Order[i]] = Absent

\* An executor that has completed its session reads no more.
Priced ==
  \A a \in Agents : session[a].status = "completed" =>
    /\ exec[a].at \in {"close", "error", "failSession", "failTrace", "done", "threw"}
    /\ session[a].cost = exec[a].read

\* A sequential request waits for the executor it has started.
Waiting == mode = "sequential" =>
  \A a \in Agents : Active(a) => driver.at = "wait" /\ a = Order[driver.next]

\* Before an executor has settled its session one way or the other.
Before == {"start", "fetch", "check", "read", "report", "settle", "error", "failSession"}

\* A running session has an executor that will settle it, or the request will start one.
Attended == faults = 0 /\ Exists /\ driver.at # "failed" =>
  \A a \in Agents : session[a].status = "running" =>
    \/ exec[a].at \in Before
    \/ /\ driver.at \in {"create", "announce"}
       /\ \E i \in Places : i >= driver.next /\ a = Order[i]

Fresh == [status |-> "running", cost |-> 0]

\* One agent, no failure, and the owner does nothing.
Alone == mode \in {"single", "delegate"} /\ faults = 0 /\ \A c \in Calls : call[c].at = "idle"

\* What its session and its trace show at each place of the executor e.
Together(e, row) ==
  /\ driver.at \in {"trace", "create", "announce", "done"}
  /\ driver.at = "done" => e.at # "off"
  /\ driver.at = "announce" => row = Fresh
  /\ e.at = "off" => (driver.at = "trace" \/ trace = Fresh) /\ row \in {Absent, Fresh}
  /\ e.at \in Before => trace = Fresh /\ row = Fresh
  /\ e.at = "close" => trace = Fresh /\ row = [status |-> "completed", cost |-> e.read]
  /\ e.at = "failTrace" => trace = Fresh /\ row = [status |-> "error", cost |-> 0]
  /\ e.at \in {"done", "threw"} => trace = row

TraceInv == Typed /\ Driven /\ Priced /\ Waiting /\ Attended
            /\ (Alone => Together(exec[Order[1]], session[Order[1]]))

----------------------------------------------------------------------------
LEMMA OrderFacts ==
  /\ Len(Order) \in Nat \ {0}
  /\ \A i \in Places : Order[i] \in Agents
  /\ \A i, j \in Places : Order[i] = Order[j] => i = j
  /\ \A a \in Agents : \E i \in Places : a = Order[i]
  /\ 1 \in Places
<1> DEFINE n == Cardinality(Agents)
<1>1. n \in Nat \ {0}
  BY OrderAssumption, FS_CardinalityType, FS_EmptySet
<1>2. Order \in Seq(Agents) /\ Len(Order) = n /\ DOMAIN Order = 1..n
  BY <1>1, OrderAssumption, SeqDef, LenProperties
<1> QED BY <1>1, <1>2, OrderAssumption DEF Places

LEMMA TraceStarts == Init => TraceInv
<1> SUFFICES ASSUME Init PROVE TraceInv
  OBVIOUS
<1> USE OrderFacts, FaultAssumption DEF Init
<1>1. Typed
  BY DEF Typed, Rows, Absent, Parts, ExecRow, CallRow
<1>2. Driven /\ Priced /\ Waiting /\ Attended
  BY DEF Driven, Priced, Waiting, Attended, Active, Exists, Absent
<1>3. Together(exec[Order[1]], session[Order[1]])
  BY DEF Together, Before
<1> QED BY <1>1, <1>2, <1>3 DEF TraceInv

\* The step of one executor that touches nothing else.
LEMMA OnlyExec ==
  ASSUME TraceInv, NEW a \in Agents, Active(a), NEW e \in ExecRow, exec' = [exec EXCEPT ![a] = e],
         UNCHANGED <<mode, trace, session, driver, call>>, faults' \in 0..MaxFaults,
         e.at # "off", faults' = 0 => faults = 0,
         session[a].status = "completed" =>
           e.read = exec[a].read /\ e.at \in {"close", "error", "failSession", "failTrace", "done", "threw"},
         faults' = 0 /\ exec[a].at \in Before =>
           e.at \in Before \/ (e.at = "threw" /\ session[a] = Absent),
         faults' = 0 /\ exec[a].at \notin Before => ~ Exists
  PROVE  TraceInv'
<1> USE OrderFacts
<1>1. Typed'
  BY DEF TraceInv, Typed
<1>2. \A b \in Agents : exec'[b] = IF b = a THEN e ELSE exec[b]
  BY DEF TraceInv, Typed
<1>3. \A i \in Places : exec[Order[i]].at = "off" => exec'[Order[i]].at = "off"
  BY <1>2 DEF Active
<1>4. Driven'
  BY <1>3 DEF TraceInv, Driven
<1>5. Priced'
  BY <1>2 DEF TraceInv, Priced
<1>6. Waiting'
  BY <1>2 DEF TraceInv, Waiting, Active
<1>7. Attended'
  BY <1>2 DEF TraceInv, Attended, Exists, Absent
<1>8. ASSUME Alone' PROVE Together(exec[Order[1]], session[Order[1]])'
  <2>1. Alone /\ Together(exec[Order[1]], session[Order[1]])
    BY <1>8 DEF TraceInv, Alone
  <2>2. a = Order[1]
    BY <2>1 DEF TraceInv, Driven, Alone, Active, Places
  <2>3. exec'[Order[1]] = e
    BY <1>2, <2>2
  <2>4. faults' = 0
    BY <1>8 DEF Alone
  <2>5. driver.at # "trace"
    BY <2>1, <2>2 DEF TraceInv, Driven, Active, Alone
  <2>6. exec[a].at \in Before \cup {"close", "failTrace"}
    BY DEF Active, TraceInv, Typed, ExecRow, Before
  <2> QED BY <2>1, <2>2, <2>3, <2>4, <2>5, <2>6 DEF Together, Before, Exists, Absent, Fresh
<1> QED BY <1>1, <1>4, <1>5, <1>6, <1>7, <1>8 DEF TraceInv
\* Which row of the executor a step leaves, for the steps that settle.
LEMMA Gone ==
  ASSUME TraceInv, NEW a \in Agents, NEW at, Go(a, at)
  PROVE  /\ exec' = [exec EXCEPT ![a] = [exec[a] EXCEPT !.at = at]]
         /\ exec'[a].at = at /\ exec'[a].read = exec[a].read
         /\ \A b \in Agents \ {a} : exec'[b] = exec[b]
         /\ at \in {"close", "error", "failSession", "failTrace", "done", "threw"}
              => exec' \in [Agents -> ExecRow]
<1>1. exec[a] \in ExecRow /\ exec \in [Agents -> ExecRow]
  BY DEF TraceInv, Typed
<1> DEFINE e == [exec[a] EXCEPT !.at = at]
<1>2. exec' = [exec EXCEPT ![a] = e]
  BY DEF Go
<1>3. e.at = at /\ e.read = exec[a].read
  BY <1>1 DEF ExecRow
<1>4. at \in {"close", "error", "failSession", "failTrace", "done", "threw"} => e \in ExecRow
  BY <1>1 DEF ExecRow
<1>5. exec' = [exec EXCEPT ![a] = [exec[a] EXCEPT !.at = at]]
  BY <1>2
<1> HIDE DEF e
<1>6. at \in {"close", "error", "failSession", "failTrace", "done", "threw"} => exec' \in [Agents -> ExecRow]
  BY <1>1, <1>2, <1>4
<1>7. exec'[a] = e /\ \A b \in Agents \ {a} : exec'[b] = exec[b]
  BY <1>1, <1>2
<1> QED BY <1>3, <1>5, <1>6, <1>7

\* A step that sends an executor to another place and does nothing else.
LEMMA OnlyGoes ==
  ASSUME TraceInv, NEW a \in Agents, Active(a), NEW at, Go(a, at),
         at \in {"start", "fetch", "check", "read", "report", "settle", "close",
                 "error", "failSession", "failTrace", "done", "threw"},
         UNCHANGED <<mode, trace, session, driver, call>>, faults' \in 0..MaxFaults,
         faults' = 0 => faults = 0,
         session[a].status = "completed" => at \in {"close", "error", "failSession", "failTrace", "done", "threw"},
         faults' = 0 /\ exec[a].at \in Before => at \in Before \/ (at = "threw" /\ session[a] = Absent),
         faults' = 0 /\ exec[a].at \notin Before => ~ Exists
  PROVE  TraceInv'
<1> DEFINE e == [exec[a] EXCEPT !.at = at]
<1>1. e \in ExecRow /\ e.at = at /\ e.read = exec[a].read
  BY DEF TraceInv, Typed, ExecRow
<1>2. exec' = [exec EXCEPT ![a] = e]
  BY Gone
<1> HIDE DEF e
<1> QED BY <1>1, <1>2, OnlyExec

\* A report that fails leaves its executor to report again, or rejects it.
LEMMA ReportGoes ==
  ASSUME TraceInv, NEW a \in Agents, ReportFails(a)
  PROVE  \E e \in ExecRow : /\ exec' = [exec EXCEPT ![a] = e]
                            /\ e.at \in {"error", "threw"} /\ e.read = exec[a].read
<1>1. exec[a] \in ExecRow
  BY DEF TraceInv, Typed
<1>2. CASE exec[a].caught
  <2> DEFINE e == [exec[a] EXCEPT !.at = "error", !.caught = FALSE]
  <2>1. e \in ExecRow /\ e.at = "error" /\ e.read = exec[a].read
    BY <1>1 DEF ExecRow
  <2>2. exec' = [exec EXCEPT ![a] = e]
    BY <1>2 DEF ReportFails
  <2> HIDE DEF e
  <2> QED BY <2>1, <2>2
<1>3. CASE ~ exec[a].caught
  <2> DEFINE e == [exec[a] EXCEPT !.at = "threw"]
  <2>1. e \in ExecRow /\ e.at = "threw" /\ e.read = exec[a].read
    BY <1>1 DEF ExecRow
  <2>2. exec' = [exec EXCEPT ![a] = e]
    BY <1>3 DEF ReportFails, Go
  <2> HIDE DEF e
  <2> QED BY <2>1, <2>2
<1> QED BY <1>2, <1>3

\* A failed report and nothing else: of an executor that has settled nothing, or that has
\* lost the trace, or under a fault.
LEMMA ReportKeeps ==
  ASSUME TraceInv, NEW a \in Agents, Active(a), ReportFails(a),
         UNCHANGED <<mode, trace, session, driver, call>>, faults' \in 0..MaxFaults,
         faults' = 0 => faults = 0,
         faults' = 0 /\ exec[a].at \in Before => session[a] = Absent,
         faults' = 0 /\ exec[a].at \notin Before => ~ Exists
  PROVE  TraceInv'
<1>1. PICK e \in ExecRow : /\ exec' = [exec EXCEPT ![a] = e]
                           /\ e.at \in {"error", "threw"} /\ e.read = exec[a].read
  BY ReportGoes
<1>2. "error" \in Before
  BY DEF Before
<1> QED BY <1>1, <1>2, OnlyExec

LEMMA ReadingKeeps ==
  ASSUME TraceInv, NEW a \in Agents,
         Begin(a) \/ Fetch(a) \/ CheckCancelled(a) \/ ReadPart(a) \/ Report(a) \/ ErrorEvent(a)
  PROVE  TraceInv'
<1> USE DEF Before
<1>1. Active(a) /\ UNCHANGED <<mode, trace, session, driver, call, faults>>
  BY DEF Begin, Fetch, CheckCancelled, ReadPart, Report, ErrorEvent, Active
<1>2. faults' \in 0..MaxFaults /\ (faults' = 0 => faults = 0)
  BY <1>1 DEF TraceInv, Typed
<1>3. session[a].status = "completed" => exec[a].at \in {"close", "error", "failSession", "failTrace", "done", "threw"}
  BY DEF TraceInv, Priced
<1>4. CASE Begin(a) /\ ~ Go(a, "fetch")
  <2> DEFINE e == [exec[a] EXCEPT !.at = "error", !.throws = TRUE]
  <2>1. e \in ExecRow /\ e.at = "error" /\ e.read = exec[a].read
    BY DEF TraceInv, Typed, ExecRow
  <2>2. exec' = [exec EXCEPT ![a] = e] /\ exec[a].at = "start"
    BY <1>4 DEF Begin
  <2> HIDE DEF e
  <2>3. session[a].status # "completed" /\ exec[a].at \in Before /\ e.at \in Before /\ e.at # "off"
    BY <1>3, <2>1, <2>2
  <2> HIDE DEF Before
  <2> QED BY <1>1, <1>2, <2>1, <2>2, <2>3, OnlyExec
<1>5. CASE ReadPart(a) /\ ~ Go(a, "report") /\ ~ Go(a, "error")
  <2> DEFINE e == [exec[a] EXCEPT !.at = "check", !.read = @ + 1]
  <2>1. exec[a].read < 2 /\ exec[a].at = "read" /\ exec' = [exec EXCEPT ![a] = e]
    BY <1>5 DEF ReadPart
  <2>2. exec[a].read + 1 \in Parts
    BY <2>1 DEF TraceInv, Typed, ExecRow, Parts
  <2>3. e \in ExecRow /\ e.at = "check"
    BY <2>2 DEF TraceInv, Typed, ExecRow
  <2> HIDE DEF e
  <2>4. session[a].status # "completed" /\ exec[a].at \in Before /\ e.at \in Before /\ e.at # "off"
    BY <1>3, <2>1, <2>3
  <2> HIDE DEF Before
  <2> QED BY <1>1, <1>2, <2>1, <2>3, <2>4, OnlyExec
<1>6. CASE \/ exec[a].at = "start" /\ Go(a, "fetch")
           \/ exec[a].at = "fetch" /\ (Go(a, "check") \/ Go(a, "error"))
           \/ CheckCancelled(a) \/ Report(a)
           \/ ErrorEvent(a) /\ session[a] # Absent
           \/ exec[a].at = "read" /\ (Go(a, "report") \/ Go(a, "error"))
  <2>1. PICK at \in {"fetch", "check", "error", "report", "read", "settle", "failSession"} :
          /\ Go(a, at)
          /\ exec[a].at \in Before
          /\ exec[a].at = "error" => at = "failSession"
    BY <1>6 DEF CheckCancelled, Report, ErrorEvent
  <2>2. session[a].status = "completed" => at \in {"close", "error", "failSession", "failTrace", "done", "threw"}
    <3>1. exec[a].at = "error" => at = "failSession"
      BY <2>1
    <3>2. exec[a].at # "failSession"
      BY <1>6 DEF CheckCancelled, Report, ErrorEvent
    <3> QED BY <1>3, <2>1, <3>1, <3>2
  <2> QED BY <1>1, <1>2, <2>1, <2>2, OnlyGoes
<1>7. CASE Fetch(a) /\ ~ Go(a, "check") /\ ~ Go(a, "error")
  <2> DEFINE e == [exec[a] EXCEPT !.at = "error", !.caught = TRUE]
  <2>1. e \in ExecRow /\ e.at = "error" /\ e.read = exec[a].read
    BY DEF TraceInv, Typed, ExecRow
  <2>2. exec' = [exec EXCEPT ![a] = e] /\ exec[a].at = "fetch"
    BY <1>7 DEF Fetch
  <2> HIDE DEF e
  <2>3. session[a].status # "completed" /\ exec[a].at \in Before /\ e.at \in Before /\ e.at # "off"
    BY <1>3, <2>1, <2>2
  <2> HIDE DEF Before
  <2> QED BY <1>1, <1>2, <2>1, <2>2, <2>3, OnlyExec
<1>8. CASE ErrorEvent(a) /\ session[a] = Absent
  <2>1. ReportFails(a) /\ exec[a].at \in Before
    BY <1>8 DEF ErrorEvent
  <2> HIDE DEF Before
  <2> QED BY <1>1, <1>2, <1>8, <2>1, ReportKeeps
<1> QED BY <1>4, <1>5, <1>6, <1>7, <1>8 DEF Begin, ReadPart, Fetch

LEMMA FaultKeeps ==
  ASSUME TraceInv, NEW a \in Agents, ExecutorFault(a)
  PROVE  TraceInv'
<1>1. Active(a) /\ UNCHANGED <<mode, trace, session, driver, call>>
  BY DEF ExecutorFault, Active
<1>2. faults' \in 0..MaxFaults /\ faults' # 0
  BY FaultAssumption DEF TraceInv, Typed, ExecutorFault, Fault
<1>3. CASE Go(a, "error")
  BY <1>1, <1>2, <1>3, OnlyGoes
<1>4. CASE ReportFails(a)
  BY <1>1, <1>2, <1>4, ReportKeeps
<1> QED BY <1>3, <1>4 DEF ExecutorFault

\* A step of an executor that writes the row of its session.
LEMMA SessionKeeps ==
  ASSUME TraceInv, NEW a \in Agents, SettleSession(a) \/ ErrorSession(a), session[a] # Absent
  PROVE  TraceInv'
<1> USE OrderFacts
<1>1. PICK row \in Rows :
        /\ session' = [session EXCEPT ![a] = row]
        /\ \/ exec[a].at = "settle" /\ Go(a, "close") /\ row = [status |-> "completed", cost |-> exec[a].read]
           \/ exec[a].at = "failSession" /\ Go(a, "failTrace") /\ row = [status |-> "error", cost |-> session[a].cost]
  <2>1. CASE SettleSession(a)
    <3>1. exec[a].read \in Parts
      BY DEF TraceInv, Typed, ExecRow
    <3>2. [status |-> "completed", cost |-> exec[a].read] \in Rows
      BY <3>1 DEF Rows
    <3> QED BY <2>1, <3>2 DEF SettleSession, Completed
  <2>2. CASE ErrorSession(a)
    <3>1. session[a] \in Rows
      BY DEF TraceInv, Typed
    <3>2. [session[a] EXCEPT !.status = "error"] = [status |-> "error", cost |-> session[a].cost]
          /\ [status |-> "error", cost |-> session[a].cost] \in Rows
      BY <3>1 DEF Rows
    <3>3. session' = [session EXCEPT ![a] = [session[a] EXCEPT !.status = "error"]]
      BY <2>2 DEF ErrorSession
    <3> QED BY <2>2, <3>2, <3>3 DEF ErrorSession
  <2> QED BY <2>1, <2>2
<1>2. Active(a) /\ UNCHANGED <<mode, trace, driver, call, faults>>
  BY DEF SettleSession, ErrorSession, Active
<1>3. /\ exec'[a].at \in {"close", "failTrace"} /\ exec'[a].read = exec[a].read
      /\ \A b \in Agents \ {a} : exec'[b] = exec[b]
      /\ exec' \in [Agents -> ExecRow]
      /\ exec'[a].at = "close" => row = [status |-> "completed", cost |-> exec[a].read]
      /\ exec'[a].at = "failTrace" => row = [status |-> "error", cost |-> session[a].cost]
  <2>1. CASE Go(a, "close") /\ row = [status |-> "completed", cost |-> exec[a].read]
    BY <2>1, Gone
  <2>2. CASE Go(a, "failTrace") /\ row = [status |-> "error", cost |-> session[a].cost]
    BY <2>2, Gone
  <2> QED BY <1>1, <2>1, <2>2
<1>4. session'[a] = row /\ \A b \in Agents \ {a} : session'[b] = session[b]
  BY <1>1 DEF TraceInv, Typed
<1>5. Typed'
  BY <1>1, <1>2, <1>3 DEF TraceInv, Typed
<1>6. \A j \in Places : exec[Order[j]].at = "off" => Order[j] # a
  BY <1>2 DEF Active
<1>7. driver.at # "trace"
  BY DEF TraceInv, Driven
<1>8. \A j \in Places : /\ exec[Order[j]].at = "off" => exec'[Order[j]].at = "off"
                        /\ exec[Order[j]].at = "off" => session'[Order[j]] = session[Order[j]]
  BY <1>3, <1>4, <1>6
<1>9. Driven'
  BY <1>2, <1>7, <1>8 DEF TraceInv, Driven
<1>10. Priced'
  BY <1>1, <1>3, <1>4 DEF TraceInv, Priced
<1>11. Waiting'
  BY <1>2, <1>3 DEF TraceInv, Waiting, Active
<1>12. Attended'
  BY <1>1, <1>2, <1>3, <1>4 DEF TraceInv, Attended, Exists
<1>13. ASSUME Alone' PROVE Together(exec[Order[1]], session[Order[1]])'
  <2>1. Alone /\ Together(exec[Order[1]], session[Order[1]])
    BY <1>2, <1>13 DEF TraceInv, Alone
  <2>2. a = Order[1]
    BY <1>2, <2>1 DEF TraceInv, Driven, Alone, Active, Places
  <2>3. exec[a].at \in Before /\ session[a] = Fresh /\ trace = Fresh
    BY <1>1, <2>1, <2>2 DEF Before, Together
  <2>4. \/ exec'[a].at = "close" /\ row = [status |-> "completed", cost |-> exec'[a].read]
        \/ exec'[a].at = "failTrace" /\ row = [status |-> "error", cost |-> 0]
    BY <1>3, <2>3 DEF Fresh
  <2>5. driver.at # "announce"
    BY <1>2, <2>1, <2>2 DEF TraceInv, Driven, Active, Alone
  <2> QED BY <1>2, <1>4, <2>1, <2>2, <2>3, <2>4, <2>5 DEF Together, Before
<1> QED BY <1>5, <1>9, <1>10, <1>11, <1>12, <1>13 DEF TraceInv

\* A step of an executor that writes the row of the trace.
LEMMA TraceKeeps ==
  ASSUME TraceInv, NEW a \in Agents, SettleTrace(a) \/ ErrorTrace(a), Exists
  PROVE  TraceInv'
<1> USE OrderFacts
<1>1. PICK at \in {"done", "threw"} : Go(a, at)
  BY DEF SettleTrace, ErrorTrace, Return
<1>2. Active(a) /\ UNCHANGED <<mode, session, driver, call, faults>>
  BY DEF SettleTrace, ErrorTrace, Active
<1>3. trace' \in Rows /\ \/ exec[a].at = "close" /\ trace' = [status |-> "completed", cost |-> exec[a].read]
                         \/ exec[a].at = "failTrace" /\ trace' = [status |-> "error", cost |-> trace.cost]
  BY DEF SettleTrace, ErrorTrace, Completed, Rows, TraceInv, Typed, ExecRow
<1>4. /\ exec'[a].at = at /\ exec'[a].read = exec[a].read
      /\ \A b \in Agents \ {a} : exec'[b] = exec[b]
  BY <1>1, Gone
<1>5. exec' \in [Agents -> ExecRow]
  BY <1>1, Gone
<1>6. Typed'
  BY <1>2, <1>3, <1>5 DEF TraceInv, Typed
<1>7. driver.at # "trace"
  BY DEF TraceInv, Driven, Exists, Absent
<1>8. \A j \in Places : exec[Order[j]].at = "off" => exec'[Order[j]].at = "off"
  BY <1>2, <1>4 DEF Active
<1>9. Driven'
  BY <1>2, <1>7, <1>8 DEF TraceInv, Driven
<1>10. Priced'
  BY <1>2, <1>3, <1>4 DEF TraceInv, Priced
<1>11. Waiting'
  BY <1>2, <1>4 DEF TraceInv, Waiting, Active
<1>12. Attended'
  BY <1>2, <1>3, <1>4 DEF TraceInv, Attended, Exists, Before
<1>13. ASSUME Alone' PROVE Together(exec[Order[1]], session[Order[1]])'
  <2>1. Alone /\ Together(exec[Order[1]], session[Order[1]])
    BY <1>2, <1>13 DEF TraceInv, Alone
  <2>2. a = Order[1]
    BY <1>2, <2>1 DEF TraceInv, Driven, Alone, Active, Places
  <2>3. trace' = session[a]
    BY <1>3, <2>1, <2>2 DEF Together, Fresh
  <2>5. driver.at # "announce"
    BY <1>2, <2>1, <2>2 DEF TraceInv, Driven, Active, Alone
  <2> QED BY <1>1, <1>2, <1>4, <2>1, <2>2, <2>3, <2>5 DEF Together, Before
<1> QED BY <1>6, <1>9, <1>10, <1>11, <1>12, <1>13 DEF TraceInv

\* An executor whose row is gone reports an error, or rejects.
LEMMA LostKeeps ==
  ASSUME TraceInv, NEW a \in Agents,
         \/ (SettleSession(a) \/ ErrorSession(a)) /\ session[a] = Absent
         \/ (SettleTrace(a) \/ ErrorTrace(a)) /\ ~ Exists
  PROVE  TraceInv'
<1>1. /\ Go(a, "error") \/ ReportFails(a)
      /\ exec[a].at \in {"settle", "failSession", "close", "failTrace"}
      /\ exec[a].at \in {"close", "failTrace"} => ~ Exists
      /\ exec[a].at \in {"settle", "failSession"} => session[a] = Absent
  BY DEF SettleSession, ErrorSession, SettleTrace, ErrorTrace
<1>2. Active(a) /\ UNCHANGED <<mode, trace, session, driver, call, faults>>
  BY DEF SettleSession, ErrorSession, SettleTrace, ErrorTrace, Active
<1>3. faults' \in 0..MaxFaults /\ (faults' = 0 => faults = 0)
  BY <1>2 DEF TraceInv, Typed
<1>4. exec[a].at \in Before => session[a] = Absent
  BY <1>1 DEF Before
<1>5. exec[a].at \notin Before => ~ Exists
  BY <1>1 DEF Before
<1>6. CASE Go(a, "error")
  BY <1>2, <1>3, <1>5, <1>6, OnlyGoes DEF Before
<1>7. CASE ReportFails(a)
  BY <1>2, <1>3, <1>4, <1>5, <1>7, ReportKeeps
<1> QED BY <1>1, <1>6, <1>7

----------------------------------------------------------------------------
LEMMA CreateTraceKeeps ==
  ASSUME TraceInv, CreateTrace
  PROVE  TraceInv'
<1> USE OrderFacts
<1>1. driver' = [at |-> "create", next |-> driver.next] /\ trace' = Fresh /\ driver.at = "trace"
      /\ UNCHANGED <<mode, session, exec, call, faults>> /\ session = [a \in Agents |-> Absent]
  BY DEF CreateTrace, Fresh, TraceInv, Typed, Driven
<1>2. \A a \in Agents : session[a] = Absent
  BY <1>1
<1>3. Typed'
  BY <1>1 DEF TraceInv, Typed, Rows, Fresh, Parts
<1>4. Driven'
  BY <1>1 DEF TraceInv, Driven
<1>5. Priced' /\ Attended'
  BY <1>1, <1>2 DEF Priced, Attended, Absent
<1>6. Waiting'
  BY <1>1 DEF TraceInv, Waiting, Active
<1>7. Alone' => Together(exec[Order[1]], session[Order[1]])'
  <2> SUFFICES ASSUME Alone' PROVE Together(exec[Order[1]], session[Order[1]])'
    OBVIOUS
  <2>1. exec[Order[1]].at = "off"
    BY <1>1 DEF Alone, TraceInv, Driven
  <2> QED BY <1>1, <1>2, <2>1 DEF Together, Before
<1> QED BY <1>3, <1>4, <1>5, <1>6, <1>7 DEF TraceInv

LEMMA CreateSessionKeeps ==
  ASSUME TraceInv, NEW a \in Agents, CreateSession(a)
  PROVE  TraceInv'
<1> USE OrderFacts
<1>1. /\ driver.at = "create" /\ session[a] = Absent /\ Exists /\ a \in Team
      /\ mode # "parallel" => a = Order[driver.next]
      /\ session' = [session EXCEPT ![a] = Fresh] /\ UNCHANGED <<mode, trace, call, faults>>
  BY DEF CreateSession, MayCreate, Fresh
<1>2. session'[a] = Fresh /\ (\A b \in Agents \ {a} : session'[b] = session[b]) /\ session' \in [Agents -> Rows]
  BY <1>1 DEF TraceInv, Typed, Fresh, Rows, Parts
<1>3. driver.next \in Places /\ driver \in [at : {"trace", "create", "announce", "wait", "finish", "done", "failed"}, next : Places]
  BY DEF TraceInv, Typed
<1>4. PICK j \in Places : a = Order[j] /\ j >= driver.next /\ (mode # "parallel" => j = driver.next)
  <2>1. PICK j \in Places : a = Order[j]
    OBVIOUS
  <2>2. mode # "parallel" => j = driver.next
    BY <1>1, <1>3, <2>1
  <2>3. mode = "parallel" => driver.next = 1
    BY <1>1 DEF TraceInv, Driven
  <2> QED BY <1>3, <2>1, <2>2, <2>3 DEF Places
<1>5. CASE mode = "single"
  <2>1. exec' = [exec EXCEPT ![a] = [exec[a] EXCEPT !.at = "start"]] /\ driver' = [driver EXCEPT !.at = "done"]
    BY <1>5 DEF CreateSession, Launch
  <2>2. exec[a] \in ExecRow /\ exec \in [Agents -> ExecRow]
    BY DEF TraceInv, Typed
  <2> DEFINE e == [exec[a] EXCEPT !.at = "start"]
  <2>3. e \in ExecRow /\ e.at = "start"
    BY <2>2 DEF ExecRow
  <2>4. exec' = [exec EXCEPT ![a] = e]
    BY <2>1
  <2> HIDE DEF e
  <2>5. exec'[a].at = "start" /\ exec' \in [Agents -> ExecRow] /\ \A b \in Agents \ {a} : exec'[b] = exec[b]
    BY <2>2, <2>3, <2>4
  <2>6. driver'.at = "done" /\ driver'.next = driver.next /\ driver.next = 1
        /\ driver' \in [at : {"trace", "create", "announce", "wait", "finish", "done", "failed"}, next : Places]
    BY <1>3, <1>5, <2>1 DEF TraceInv, Driven
  <2>7. Typed'
    BY <1>1, <1>2, <2>5, <2>6 DEF TraceInv, Typed
  <2>8. Driven'
    BY <1>1, <1>2, <1>4, <1>5, <2>5, <2>6 DEF TraceInv, Driven, Places
  <2>9. Priced'
    BY <1>2, <2>5 DEF TraceInv, Priced, Fresh
  <2>10. Waiting'
    BY <1>1, <1>5 DEF Waiting
  <2>11. Attended'
    <3> SUFFICES ASSUME (faults = 0 /\ Exists)', NEW b \in Agents, session'[b].status = "running"
                 PROVE  exec'[b].at \in Before
      BY DEF Attended
    <3>1. CASE b = a
      BY <2>5, <3>1 DEF Before
    <3>2. CASE b # a
      <4>1. PICK i \in Places : b = Order[i]
        OBVIOUS
      <4>2. i > driver.next
        BY <1>4, <1>5, <2>6, <3>2, <4>1 DEF Places
      <4>3. session[b] = Absent
        BY <1>5, <4>1, <4>2 DEF TraceInv, Driven
      <4> QED BY <1>2, <3>2, <4>3 DEF Absent
    <3> QED BY <3>1, <3>2
  <2>12. Alone' => Together(exec[Order[1]], session[Order[1]])'
    <3> SUFFICES ASSUME Alone' PROVE Together(exec[Order[1]], session[Order[1]])'
      OBVIOUS
    <3>1. a = Order[1] /\ Alone
      BY <1>1, <1>5, <2>6 DEF Alone
    <3>2. exec[a].at = "off"
      BY <1>1, <2>6, <3>1 DEF TraceInv, Driven
    <3>3. trace = Fresh
      BY <1>1, <3>1, <3>2 DEF TraceInv, Together
    <3> QED BY <1>1, <1>2, <2>5, <2>6, <3>1, <3>3 DEF Together, Before
  <2> QED BY <2>7, <2>8, <2>9, <2>10, <2>11, <2>12 DEF TraceInv
<1>6. CASE mode # "single"
  <2>1. UNCHANGED exec /\ \/ driver' = driver /\ mode = "parallel"
                          \/ driver' = [driver EXCEPT !.at = "announce"]
    BY <1>6 DEF CreateSession
  <2>2. driver'.at \in {"create", "announce"} /\ driver'.next = driver.next
        /\ driver' \in [at : {"trace", "create", "announce", "wait", "finish", "done", "failed"}, next : Places]
        /\ (driver'.at = "create" => mode = "parallel")
    BY <1>1, <1>3, <2>1
  <2>3. Typed'
    BY <1>1, <1>2, <2>1, <2>2 DEF TraceInv, Typed
  <2>4. Driven'
    BY <1>1, <1>2, <1>4, <1>6, <2>1, <2>2 DEF TraceInv, Driven, Places
  <2>5. Priced'
    BY <1>2, <2>1 DEF TraceInv, Priced, Fresh
  <2>6. Waiting'
    BY <1>1, <2>1, <2>2 DEF TraceInv, Waiting, Active
  <2>7. Attended'
    BY <1>1, <1>2, <1>4, <2>1, <2>2 DEF TraceInv, Attended, Exists
  <2>8. Alone' => Together(exec[Order[1]], session[Order[1]])'
    <3> SUFFICES ASSUME Alone' PROVE Together(exec[Order[1]], session[Order[1]])'
      OBVIOUS
    <3>1. Alone /\ driver.next = 1
      BY <1>1 DEF TraceInv, Driven, Alone
    <3>2. a = Order[1] /\ exec[a].at = "off"
      BY <1>1, <3>1 DEF TraceInv, Driven, Alone
    <3>3. trace = Fresh
      BY <1>1, <3>1, <3>2 DEF TraceInv, Together
    <3> QED BY <1>1, <1>2, <2>1, <2>2, <3>2, <3>3 DEF Together, Before
  <2> QED BY <2>3, <2>4, <2>5, <2>6, <2>7, <2>8 DEF TraceInv
<1> QED BY <1>5, <1>6

LEMMA AnnounceKeeps ==
  ASSUME TraceInv, Announce
  PROVE  TraceInv'
<1> USE OrderFacts
<1> DEFINE a == Order[driver.next]
<1>1. driver.at = "announce" /\ session[a] # Absent /\ driver' = AfterLaunch /\ a \in Agents /\ driver.next \in Places
      /\ UNCHANGED <<mode, trace, session, call, faults>>
  BY DEF Announce, TraceInv, Typed
<1>2. exec[a].at = "off" /\ exec[a] \in ExecRow
  BY <1>1 DEF TraceInv, Driven, Typed
<1>3. exec'[a].at = "start" /\ exec' \in [Agents -> ExecRow] /\ \A b \in Agents \ {a} : exec'[b] = exec[b]
  <2> DEFINE e == [exec[a] EXCEPT !.at = "start"]
  <2>1. e \in ExecRow /\ e.at = "start"
    BY <1>2 DEF ExecRow
  <2>2. exec' = [exec EXCEPT ![a] = e]
    BY DEF Announce, Launch
  <2> HIDE DEF e
  <2> QED BY <1>1, <2>1, <2>2 DEF TraceInv, Typed
<1>4. /\ driver' \in [at : {"trace", "create", "announce", "wait", "finish", "done", "failed"}, next : Places]
      /\ \/ driver'.at = "done" /\ driver'.next = driver.next
            /\ (mode # "delegate" => driver.next = Len(Order) /\ mode # "sequential")
         \/ driver'.at = "wait" /\ driver'.next = driver.next /\ mode = "sequential"
         \/ driver'.at = "announce" /\ driver'.next = driver.next + 1 /\ mode \notin {"delegate", "sequential"}
  <2>1. driver \in [at : {"trace", "create", "announce", "wait", "finish", "done", "failed"}, next : Places]
    BY DEF TraceInv, Typed
  <2>2. CASE mode = "delegate"
    BY <1>1, <2>1, <2>2 DEF AfterLaunch
  <2>3. CASE mode = "sequential"
    BY <1>1, <2>1, <2>3 DEF AfterLaunch
  <2>4. CASE mode \notin {"delegate", "sequential"} /\ driver.next = Len(Order)
    BY <1>1, <2>1, <2>4 DEF AfterLaunch
  <2>5. CASE mode \notin {"delegate", "sequential"} /\ driver.next # Len(Order)
    <3>1. driver.next + 1 \in Places
      BY <1>1, <2>5 DEF Places
    <3>2. driver' = [driver EXCEPT !.next = driver.next + 1]
      BY <1>1, <2>5 DEF AfterLaunch
    <3> QED BY <1>1, <2>1, <2>5, <3>1, <3>2
  <2> QED BY <2>2, <2>3, <2>4, <2>5
<1>5. mode # "single"
  BY <1>1 DEF TraceInv, Driven
<1>6. Typed'
  BY <1>1, <1>3, <1>4 DEF TraceInv, Typed
<1>7. Driven'
  <2>1. \A i \in Places : i > driver.next => exec'[Order[i]].at = "off"
    BY <1>1, <1>3 DEF TraceInv, Driven, Places
  <2>2. mode = "delegate" => driver'.next = 1
    BY <1>1, <1>4 DEF TraceInv, Driven
  <2> QED BY <1>1, <1>4, <1>5, <2>1, <2>2 DEF TraceInv, Driven, Places
<1>8. Priced'
  BY <1>1, <1>2, <1>3 DEF TraceInv, Priced
<1>9. Waiting'
  BY <1>1, <1>2, <1>3, <1>4 DEF TraceInv, Waiting, Active
<1>10. Attended'
  <2> SUFFICES ASSUME (faults = 0 /\ Exists)', NEW b \in Agents, session'[b].status = "running"
               PROVE  \/ exec'[b].at \in Before
                      \/ /\ driver'.at = "announce"
                         /\ \E i \in Places : i >= driver'.next /\ b = Order[i]
    BY DEF Attended
  <2>1. CASE b = a
    BY <1>3, <2>1 DEF Before
  <2>2. CASE b # a /\ exec[b].at \in Before
    BY <1>3, <2>2
  <2>3. CASE b # a /\ exec[b].at \notin Before
    <3>1. PICK i \in Places : i >= driver.next /\ b = Order[i]
      BY <1>1, <2>3 DEF TraceInv, Attended, Exists
    <3>2. i > driver.next
      BY <1>1, <2>3, <3>1 DEF Places
    <3>3. mode = "parallel"
      BY <1>1, <3>1, <3>2 DEF TraceInv, Driven, Absent
    <3> QED BY <1>1, <1>4, <3>1, <3>2, <3>3 DEF Places
  <2> QED BY <2>1, <2>2, <2>3
<1>11. Alone' => Together(exec[Order[1]], session[Order[1]])'
  <2> SUFFICES ASSUME Alone' PROVE Together(exec[Order[1]], session[Order[1]])'
    OBVIOUS
  <2>1. Alone /\ driver.next = 1 /\ mode = "delegate"
    BY <1>1, <1>5 DEF TraceInv, Driven, Alone
  <2>2. session[a] = Fresh /\ trace = Fresh
    BY <1>1, <1>2, <2>1 DEF TraceInv, Together
  <2> QED BY <1>1, <1>3, <1>4, <2>1, <2>2 DEF Together, Before
<1> QED BY <1>6, <1>7, <1>8, <1>9, <1>10, <1>11 DEF TraceInv

\* The steps of the request that leave sessions and executors alone.
LEMMA DriverKeeps ==
  ASSUME TraceInv, RequestFails \/ PollSession \/ SequenceRejected \/ FinishSequence
  PROVE  TraceInv'
<1> USE OrderFacts
<1>1. driver \in [at : {"trace", "create", "announce", "wait", "finish", "done", "failed"}, next : Places]
      /\ faults \in 0..MaxFaults
  BY DEF TraceInv, Typed
<1>2. UNCHANGED <<mode, session, exec, call>> /\ trace' \in Rows /\ faults' \in 0..MaxFaults
      /\ (Exists' => Exists) /\ (faults' = 0 => faults = 0)
  BY <1>1, FaultAssumption DEF RequestFails, PollSession, SequenceRejected, FinishSequence, Fault,
                               Exists, TraceInv, Typed, Rows
<1>3. /\ driver' \in [at : {"trace", "create", "announce", "wait", "finish", "done", "failed"}, next : Places]
      /\ driver'.next >= driver.next /\ driver.at # "trace"
      /\ \/ driver'.at = "failed" /\ driver'.next = driver.next
         \/ /\ mode = "sequential" /\ driver'.at \in {"finish", "create", "done"} /\ driver.at \in {"wait", "finish"}
            /\ driver'.at = "create" => driver'.next = driver.next + 1
            /\ driver'.at # "create" => driver'.next = driver.next
            /\ driver.at = "wait" => exec[Order[driver.next]].at = "done"
  <2>1. CASE RequestFails
    BY <1>1, <2>1 DEF RequestFails, Places
  <2>2. CASE PollSession
    <3>1. driver.at = "wait" /\ exec[Order[driver.next]].at = "done" /\ mode = "sequential"
      BY <2>2 DEF PollSession, TraceInv, Driven
    <3>2. CASE driver.next = Len(Order)
      <4>1. driver' = [driver EXCEPT !.at = "finish"]
        BY <2>2, <3>2 DEF PollSession
      <4> QED BY <1>1, <3>1, <4>1 DEF Places
    <3>3. CASE driver.next # Len(Order)
      <4>1. driver.next + 1 \in Places
        BY <1>1, <3>3 DEF Places
      <4>2. driver' = [at |-> "create", next |-> driver.next + 1]
        BY <2>2, <3>3 DEF PollSession
      <4> QED BY <1>1, <3>1, <4>1, <4>2 DEF Places
    <3> QED BY <3>2, <3>3
  <2>3. CASE SequenceRejected
    BY <1>1, <2>3 DEF SequenceRejected, Places
  <2>4. CASE FinishSequence
    <3>1. driver.at = "finish" /\ mode = "sequential"
      BY <2>4 DEF FinishSequence, TraceInv, Driven
    <3> QED BY <1>1, <2>4, <3>1 DEF FinishSequence, Places
  <2> QED BY <2>1, <2>2, <2>3, <2>4
<1>4. Typed'
  BY <1>2, <1>3 DEF TraceInv, Typed
<1>5. Driven'
  BY <1>1, <1>2, <1>3 DEF TraceInv, Driven, Places
<1>6. Priced'
  BY <1>2 DEF TraceInv, Priced
<1>7. Waiting'
  <2> SUFFICES ASSUME mode = "sequential", NEW a \in Agents, Active(a) PROVE FALSE
    BY <1>2 DEF Waiting, Active
  <2>1. driver.at = "wait" /\ a = Order[driver.next]
    BY DEF TraceInv, Waiting
  <2>2. exec[a].at \in {"done", "threw"}
    BY <2>1 DEF RequestFails, PollSession, SequenceRejected, FinishSequence
  <2> QED BY <2>2 DEF Active
<1>8. Attended'
  BY <1>1, <1>2, <1>3 DEF TraceInv, Attended
<1>9. ~ Alone'
  <2> SUFFICES ASSUME Alone' PROVE FALSE
    OBVIOUS
  <2>1. Alone /\ driver'.at = "failed" /\ mode # "sequential"
    BY <1>2, <1>3 DEF Alone
  <2>2. RequestFails /\ ~ Exists
    <3>1. driver.at # "wait" /\ driver.at # "finish"
      BY <2>1 DEF TraceInv, Driven
    <3>2. RequestFails
      BY <3>1 DEF PollSession, SequenceRejected, FinishSequence
    <3>3. ~ Fault
      BY <1>1, <2>1 DEF Fault, Alone
    <3> QED BY <3>2, <3>3 DEF RequestFails
  <2>3. exec[Order[1]].at = "off"
    BY <1>3, <2>1, <2>2 DEF TraceInv, Driven, Alone, RequestFails
  <2>4. trace = Fresh
    BY <1>3, <2>1, <2>3 DEF TraceInv, Together
  <2> QED BY <2>2, <2>4 DEF Exists, Fresh
<1> QED BY <1>4, <1>5, <1>6, <1>7, <1>8, <1>9 DEF TraceInv

\* The owner's calls.
LEMMA ControlKeeps ==
  ASSUME TraceInv, NEW c \in Calls, Control(c)
  PROVE  TraceInv'
<1> USE OrderFacts
<1>1. /\ UNCHANGED <<mode, exec, driver, faults>> /\ call' \in [Calls -> CallRow] /\ call'[c].at # "idle"
  <2>1. call \in [Calls -> CallRow]
    BY DEF TraceInv, Typed
  <2>2. ASSUME NEW op \in OpsOf[c], BeginCall(c, op)
        PROVE  call' \in [Calls -> CallRow] /\ call'[c].at # "idle"
    <3> DEFINE row == [op |-> op, at |-> IF op = "cancel" THEN "sessions" ELSE "write"]
    <3>1. row \in CallRow /\ row.at # "idle"
      BY OpsAssumption DEF CallRow
    <3>2. call' = [call EXCEPT ![c] = row]
      BY <2>2 DEF BeginCall
    <3> HIDE DEF row
    <3> QED BY <2>1, <3>1, <3>2
  <2>3. ASSUME CancelSessions(c) \/ WriteTrace(c) \/ DeleteTrace(c)
        PROVE  call' \in [Calls -> CallRow] /\ call'[c].at # "idle"
    <3>1. PICK at \in {"write", "over"} : call' = [call EXCEPT ![c] = [call[c] EXCEPT !.at = at]]
      BY <2>3 DEF CancelSessions, WriteTrace, DeleteTrace
    <3> DEFINE row == [call[c] EXCEPT !.at = at]
    <3>2. row \in CallRow /\ row.at # "idle"
      BY <2>1 DEF CallRow
    <3> HIDE DEF row
    <3>3. call' = [call EXCEPT ![c] = row]
      BY <3>1 DEF row
    <3> QED BY <2>1, <3>2, <3>3
  <2>4. UNCHANGED <<mode, exec, driver, faults>>
    BY DEF Control, BeginCall, CancelSessions, WriteTrace, DeleteTrace
  <2> QED BY <2>2, <2>3, <2>4 DEF Control
<1>2. ~ Alone'
  BY <1>1 DEF Alone
<1>3. /\ trace' \in Rows /\ session' \in [Agents -> Rows] /\ (Exists' => Exists) /\ (trace' = trace \/ Exists)
      /\ \A a \in Agents : \/ session'[a] = session[a] \/ session'[a] = Absent
                           \/ session[a].status = "running" /\ session'[a].status = "cancelled"
  <2>1. trace \in Rows /\ session \in [Agents -> Rows]
    BY DEF TraceInv, Typed
  <2>2. ASSUME NEW op \in OpsOf[c], BeginCall(c, op) PROVE UNCHANGED <<trace, session>>
    BY <2>2 DEF BeginCall
  <2>3. CASE CancelSessions(c)
    <3>1. \A a \in Agents : session[a].status = "running" =>
            [session[a] EXCEPT !.status = "cancelled"] \in Rows
            /\ [session[a] EXCEPT !.status = "cancelled"].status = "cancelled"
      BY <2>1 DEF Rows
    <3> QED BY <2>1, <2>3, <3>1 DEF CancelSessions, Exists
  <2>4. CASE WriteTrace(c)
    <3>1. UNCHANGED session
      BY <2>4 DEF WriteTrace
    <3>2. CASE UNCHANGED trace
      BY <2>1, <3>1, <3>2 DEF Exists
    <3>3. CASE ~ UNCHANGED trace
      <4>1. PICK status \in Written(call[c].op) : Exists /\ trace' = [trace EXCEPT !.status = status]
        BY <2>4, <3>3 DEF WriteTrace
      <4>2. status \in {"cancelled", "paused", "running", "completed", "error"}
        <5>1. call[c].op \in {"none", "cancel", "pause", "resume", "update", "delete"}
          BY DEF TraceInv, Typed, CallRow
        <5> QED BY <5>1 DEF Written
      <4>3. trace' \in Rows
        BY <2>1, <4>1, <4>2 DEF Rows
      <4> QED BY <2>1, <3>1, <4>1, <4>3
    <3> QED BY <3>2, <3>3
  <2>5. CASE DeleteTrace(c)
    BY <2>1, <2>5 DEF DeleteTrace, Absent, Rows, Parts, Exists
  <2> QED BY <2>1, <2>2, <2>3, <2>4, <2>5 DEF Control, Exists
<1>4. Typed'
  BY <1>1, <1>3 DEF TraceInv, Typed
<1>5. Driven'
  <2>1. driver.at = "trace" => trace' = Absent /\ session' = [a \in Agents |-> Absent]
    <3> SUFFICES ASSUME driver.at = "trace" PROVE trace' = Absent /\ session' = [a \in Agents |-> Absent]
      OBVIOUS
    <3>1. trace = Absent /\ session = [a \in Agents |-> Absent]
      BY DEF TraceInv, Driven
    <3>2. \A a \in Agents : session'[a] = Absent
      BY <1>3, <3>1 DEF Absent
    <3> QED BY <1>3, <3>1, <3>2 DEF Exists, Absent
  <2>2. \A a \in Agents : session[a] = Absent => session'[a] = Absent
    BY <1>3 DEF Absent
  <2> QED BY <1>1, <2>1, <2>2 DEF TraceInv, Driven
<1>6. Priced'
  BY <1>1, <1>3 DEF TraceInv, Priced, Absent
<1>7. Waiting'
  BY <1>1 DEF TraceInv, Waiting, Active
<1>8. Attended'
  BY <1>1, <1>3 DEF TraceInv, Attended, Absent
<1> QED BY <1>2, <1>4, <1>5, <1>6, <1>7, <1>8 DEF TraceInv

LEMMA TraceStep == TraceInv /\ [Next]_vars => TraceInv'
<1>1. CASE UNCHANGED vars
  BY <1>1 DEF vars, TraceInv, Typed, Driven, Priced, Waiting, Active, Attended, Exists, Alone, Together
<1>2. ASSUME TraceInv, Drive PROVE TraceInv'
  BY <1>2, CreateTraceKeeps, CreateSessionKeeps, AnnounceKeeps, DriverKeeps DEF Drive
<1>3. ASSUME TraceInv, NEW a \in Agents, Execute(a) PROVE TraceInv'
  BY <1>3, ReadingKeeps, SessionKeeps, TraceKeeps, LostKeeps DEF Execute
<1> QED BY <1>1, <1>2, <1>3, FaultKeeps, ControlKeeps DEF Next

\* A completed session is priced, the executors of a sequential run never overlap,
\* nothing is left running when no write failed and the trace is there, and a trace
\* with one agent and nobody interfering ends as its session does.
THEOREM TracesAlwaysInOrder == Spec => []TracesInOrder
<1>1. Spec => []TraceInv
  BY TraceStarts, TraceStep, PTL DEF Spec
<1>2. TraceInv => TracesInOrder
  <2> SUFFICES ASSUME TraceInv PROVE TracesInOrder
    OBVIOUS
  <2>1. CompletedSessionPriced /\ OneAtATime
    BY DEF TraceInv, Priced, Waiting, CompletedSessionPriced, OneAtATime
  <2>2. NothingLeftRunning
    BY DEF TraceInv, Attended, NothingLeftRunning, Active, Before
  <2>3. SettledTogether
    <3> SUFFICES ASSUME Alone, driver.at = "done", ~ Active(Order[1]) PROVE trace = session[Order[1]]
      BY DEF SettledTogether, Alone
    <3> QED BY DEF TraceInv, Together, Active
  <2> QED BY <2>1, <2>2, <2>3 DEF TracesInOrder
<1> QED BY <1>1, <1>2, PTL

----------------------------------------------------------------------------
(***************************************************************************)
(* The client of the OpenClaw gateway never has two connections, and it is *)
(* ready only when the connection it has has been authenticated: for any   *)
(* number of connections, requests and attempts.                           *)
(*                                                                         *)
(* The invariant says that connections are numbered in the order they are  *)
(* made and that only the last one can be alive; that a timer for another  *)
(* one runs only while none is alive; and that the two flags speak of that *)
(* last connection.                                                        *)
(***************************************************************************)

\* Connections are made in order, and all but the last are over.
InOrder ==
  /\ \A j, k \in Connections : j < k /\ socket[k] # "unused" => socket[j] = "closed"
  /\ \A k \in Connections : socket[k] \in Live => retries = 0
  /\ retries \in {0, 1}

\* Connected says that the last connection is open, or was until an error closed it.
FlagsAgree ==
  /\ connected => \E k \in Connections : socket[k] \in {"open", "closing"}
  /\ \A k \in Connections : socket[k] \in {"open", "closing"} => connected
  /\ authenticated => connected
  /\ authenticated => \A k \in Connections : socket[k] \in Live => request[k].state = "answered"

\* The request that authenticates a connection goes over that connection.
OwnRequest == \A k \in Connections : request[k].over \in {k, NotSent}

RequestRecord == [state : {"new", "waiting"} \cup Done, over : Connections \cup {NotSent}]

ClientTypes ==
  /\ server \in {"running", "ended"}
  /\ socket \in [Connections -> Live \cup {"unused", "closed"}]
  /\ promise \in [Connections -> {"pending", "rejected"}]
  /\ deadline \subseteq Used
  /\ connected \in BOOLEAN /\ authenticated \in BOOLEAN
  /\ reconnectAttempts \in 0..maxReconnectAttempts
  /\ request \in [Requests -> RequestRecord]
  /\ pendingRequests = {r \in Requests : request[r].state = "waiting"}
  /\ \A r \in Requests : request[r].state = "waiting" => request[r].over # NotSent

ClientInv == ClientTypes /\ InOrder /\ FlagsAgree /\ OwnRequest

\* A connection that is alive is the one this.ws refers to.
LEMMA LastIsCurrent ==
  ASSUME ClientTypes, InOrder, NEW k \in Connections, socket[k] \in Live
  PROVE  ws = k
<1>1. k \in Used /\ \A j \in Used : j <= k
  BY BoundsAssumption DEF Used, Live, InOrder, Connections
<1>2. \A i \in Used : (\A j \in Used : j <= i) => i = k
  BY <1>1 DEF Used, Connections
<1> QED BY <1>1, <1>2 DEF ws

LEMMA InitEstablishes == ASSUME InitClient PROVE ClientInv
<1>1. ClientTypes
  <2>1. 1 \in Connections /\ deadline \subseteq Used
    BY BoundsAssumption DEF InitClient, Used, Connections
  <2>2. request \in [Requests -> RequestRecord] /\ \A r \in Requests : request[r].state = "new"
    BY DEF InitClient, RequestRecord
  <2>3. socket \in [Connections -> Live \cup {"unused", "closed"}] /\ promise \in [Connections -> {"pending", "rejected"}]
    BY DEF InitClient, Live
  <2>4. reconnectAttempts \in 0..maxReconnectAttempts
    BY BoundsAssumption DEF InitClient
  <2>5. pendingRequests = {r \in Requests : request[r].state = "waiting"}
    BY <2>2 DEF InitClient
  <2>6. connected \in BOOLEAN /\ authenticated \in BOOLEAN /\ server = "running"
    BY DEF InitClient
  <2> QED BY <2>1, <2>2, <2>3, <2>4, <2>5, <2>6 DEF ClientTypes
<1>2. InOrder /\ FlagsAgree /\ OwnRequest
  BY BoundsAssumption, NamesAssumption DEF InitClient, InOrder, FlagsAgree, OwnRequest, Live, Requests, Connections
<1> QED BY <1>1, <1>2 DEF ClientInv

----------------------------------------------------------------------------
(* The events of a connection.                                             *)

LEMMA OpenKeeps == ASSUME ClientInv, NEW k \in Connections, OpenEvent(k) PROVE ClientInv'
<1> USE DEF ClientInv, OpenEvent, Live
<1>1. ClientTypes'
  BY BoundsAssumption DEF ClientTypes, Used, Connections
<1>2. InOrder'
  BY DEF ClientTypes, InOrder, Connections
<1>3. \A j \in Connections : socket'[j] \in Live => j = k
  BY DEF ClientTypes, InOrder, Connections
<1>4. ~authenticated
  BY <1>3 DEF ClientTypes, InOrder, FlagsAgree, Connections
<1>5. FlagsAgree' /\ OwnRequest'
  BY <1>4 DEF ClientTypes, FlagsAgree, OwnRequest
<1> QED BY <1>1, <1>2, <1>5

\* Closing, whichever event it comes with.
LEMMA CloseKeeps ==
  ASSUME ClientInv, NEW k \in Connections, socket[k] \in Live, OnClose(k),
         server' \in {"running", "ended"}, promise' \in [Connections -> {"pending", "rejected"}]
  PROVE  ClientInv'
<1> USE DEF ClientInv, OnClose, Disconnected, Live
<1>1. ClientTypes'
  <2>1. reconnectAttempts' \in 0..maxReconnectAttempts
    BY BoundsAssumption DEF ClientTypes
  <2>2. socket' \in [Connections -> Live \cup {"unused", "closed"}] /\ Used \subseteq Used'
    BY DEF ClientTypes, Used
  <2> QED BY <2>1, <2>2 DEF ClientTypes
<1>2. \A j \in Connections : socket'[j] \notin Live
  BY DEF ClientTypes, InOrder, Connections
<1>3. InOrder'
  BY <1>2 DEF ClientTypes, InOrder, Connections
<1>4. FlagsAgree' /\ OwnRequest'
  BY <1>2 DEF ClientTypes, FlagsAgree, OwnRequest
<1> QED BY <1>1, <1>3, <1>4

LEMMA RejectTypes ==
  ASSUME ClientTypes, NEW k \in Connections, Reject(k)
  PROVE  server' \in {"running", "ended"} /\ promise' \in [Connections -> {"pending", "rejected"}]
BY DEF ClientTypes, Reject

LEMMA ErrorKeeps == ASSUME ClientInv, NEW k \in Connections, StreamError(k) PROVE ClientInv'
<1> USE DEF ClientInv, StreamError, Live
<1>1. server' \in {"running", "ended"} /\ promise' \in [Connections -> {"pending", "rejected"}]
  BY RejectTypes
<1>2. ClientTypes'
  BY <1>1 DEF ClientTypes, Used, Connections
<1>3. InOrder'
  BY DEF ClientTypes, InOrder, Connections
<1>4. FlagsAgree' /\ OwnRequest'
  BY DEF ClientTypes, FlagsAgree, OwnRequest
<1> QED BY <1>2, <1>3, <1>4

LEMMA TimeoutKeeps == ASSUME ClientInv, NEW k \in Connections, ConnectTimeout(k) PROVE ClientInv'
<1>1. server' \in {"running", "ended"} /\ promise' \in [Connections -> {"pending", "rejected"}]
  BY RejectTypes DEF ConnectTimeout, ClientInv, ClientTypes
<1> QED BY <1>1 DEF ClientInv, ConnectTimeout, ClientTypes, Used, InOrder, FlagsAgree, OwnRequest

LEMMA ReconnectKeeps == ASSUME ClientInv, Reconnect PROVE ClientInv'
<1> USE DEF ClientInv, Reconnect, Live
<1> PICK k \in Connections : /\ socket[k] = "unused"
                             /\ \A j \in Connections : j < k => socket[j] # "unused"
                             /\ socket' = [socket EXCEPT ![k] = "connecting"]
                             /\ deadline' = deadline \cup {k}
  OBVIOUS
<1>1. \A j \in Connections : socket[j] \notin Live
  BY DEF InOrder
<1>2. ~connected /\ ~authenticated
  BY <1>1 DEF FlagsAgree, ClientTypes
<1>3. ClientTypes'
  BY DEF ClientTypes, Used, Connections
<1>4. InOrder'
  BY <1>1 DEF ClientTypes, InOrder, Connections
<1>5. FlagsAgree' /\ OwnRequest'
  BY <1>1, <1>2 DEF ClientTypes, FlagsAgree, OwnRequest
<1> QED BY <1>3, <1>4, <1>5

----------------------------------------------------------------------------
(* Requests.                                                               *)

\* A request that is sent changes nothing but itself, and goes over the last connection.
LEMMA SendKeeps ==
  ASSUME ClientInv, NEW r \in Requests, Send(r), request[r].state = "new", connected,
         r \in Connections => socket[r] \in Live,
         r \in Connections => ~authenticated,
         UNCHANGED <<server, socket, promise, deadline, connected, authenticated, reconnectAttempts, retries>>
  PROVE  ClientInv'
<1> USE DEF ClientInv
<1>1. PICK k \in Connections : socket[k] \in {"open", "closing"}
  BY DEF FlagsAgree
<1>2. ws = k
  BY <1>1, LastIsCurrent DEF Live
<1>3. request' = [request EXCEPT ![r] = [state |-> "waiting", over |-> k]]
      /\ pendingRequests' = pendingRequests \cup {r}
  BY <1>2 DEF Send
<1>4. k # NotSent
  BY NamesAssumption DEF Connections
<1>5. ClientTypes'
  BY <1>3, <1>4 DEF ClientTypes, RequestRecord, Used
<1>6. r \in Connections => r = k
  BY <1>1 DEF InOrder, Live, Connections
<1>7. InOrder' /\ FlagsAgree'
  BY <1>3 DEF InOrder, FlagsAgree, ClientTypes, Requests
<1>8. OwnRequest'
  BY <1>3, <1>6 DEF OwnRequest, ClientTypes, Requests
<1> QED BY <1>5, <1>7, <1>8

LEMMA ChallengeKeeps == ASSUME ClientInv, NEW k \in Connections, Challenge(k) PROVE ClientInv'
<1>1. connected /\ k \in Requests /\ socket[k] \in Live
  BY DEF Challenge, ClientInv, FlagsAgree, Requests, Live
<1>2. ~authenticated
  BY <1>1 DEF Challenge, ClientInv, FlagsAgree
<1> QED BY <1>1, <1>2, SendKeeps DEF Challenge

LEMMA RouteKeeps == ASSUME ClientInv, NEW c \in Queries, Route(c) PROVE ClientInv'
<1>1. c \in Requests /\ c \notin Connections
  BY NamesAssumption DEF Requests, Connections
<1>2. CASE connected /\ authenticated
  BY <1>1, <1>2, SendKeeps DEF Route
<1>3. CASE ~(connected /\ authenticated)
  <2>1. ClientTypes'
    <3>1. request' = [request EXCEPT ![c].state = "refused"] /\ c \notin pendingRequests
      BY <1>1, <1>3 DEF Route, ClientInv, ClientTypes
    <3>2. request' \in [Requests -> RequestRecord]
      BY <1>1, <3>1 DEF ClientInv, ClientTypes, RequestRecord, Done
    <3> QED BY <1>1, <1>3, <3>1, <3>2 DEF Route, ClientInv, ClientTypes, RequestRecord, Used
  <2>2. InOrder' /\ FlagsAgree' /\ OwnRequest'
    BY <1>1, <1>3 DEF Route, ClientInv, ClientTypes, InOrder, FlagsAgree, OwnRequest, Requests
  <2> QED BY <2>1, <2>2 DEF ClientInv
<1> QED BY <1>2, <1>3

\* A request that settles leaves the map.
LEMMA SettleTypes ==
  ASSUME ClientTypes, NEW r \in pendingRequests, NEW state \in Done, Settle(r, state),
         authenticated' \in BOOLEAN,
         UNCHANGED <<server, socket, promise, deadline, connected, reconnectAttempts>>
  PROVE  ClientTypes'
BY DEF ClientTypes, Settle, RequestRecord, Done, Used

LEMMA ResponseKeeps ==
  ASSUME ClientInv, NEW r \in Requests, NEW ok \in BOOLEAN, handleResponse(r, ok) PROVE ClientInv'
<1> USE DEF ClientInv
<1> DEFINE state == IF ok THEN "answered" ELSE "failed"
<1>1. r \in pendingRequests /\ Settle(r, state) /\ state \in Done /\ authenticated' \in BOOLEAN
  BY DEF handleResponse, Done, ClientTypes
<1>2. ClientTypes'
  BY <1>1, SettleTypes DEF handleResponse
<1>3. InOrder'
  BY DEF handleResponse, InOrder
<1>4. request' = [request EXCEPT ![r].state = state] /\ request[r].state = "waiting"
  BY <1>1 DEF Settle, ClientTypes
<1>5. OwnRequest'
  BY <1>4 DEF OwnRequest, ClientTypes, RequestRecord, Requests
<1>6. FlagsAgree'
  <2>1. CASE authenticated' = authenticated
    BY <1>4, <2>1 DEF handleResponse, FlagsAgree, ClientTypes, RequestRecord, Requests
  <2>2. CASE authenticated' # authenticated
    <3>1. r \in Connections /\ ok /\ authenticated'
      BY <2>2 DEF handleResponse, ClientTypes
    <3>2. request[r].over = r /\ socket[r] = "open"
      BY <3>1 DEF handleResponse, OwnRequest
    <3>3. \A k \in Connections : socket[k] \in Live => k = r
      BY <3>1, <3>2, BoundsAssumption DEF InOrder, Live, Connections
    <3>4. request'[r].state = "answered"
      BY <1>4, <3>1 DEF ClientTypes, RequestRecord
    <3> QED BY <3>1, <3>2, <3>3, <3>4 DEF handleResponse, FlagsAgree
  <2> QED BY <2>1, <2>2
<1> QED BY <1>2, <1>3, <1>5, <1>6

LEMMA ExpiryKeeps == ASSUME ClientInv, NEW r \in Requests, RequestTimeout(r) PROVE ClientInv'
<1>1. ClientTypes'
  BY SettleTypes DEF ClientInv, ClientTypes, RequestTimeout, Done
<1>2. request[r].state = "waiting" /\ request' = [request EXCEPT ![r].state = "timed out"]
  BY DEF ClientInv, ClientTypes, RequestTimeout, Settle
<1>3. InOrder' /\ FlagsAgree' /\ OwnRequest'
  BY <1>2 DEF ClientInv, ClientTypes, RequestRecord, RequestTimeout, InOrder, FlagsAgree, OwnRequest, Requests
<1> QED BY <1>1, <1>3 DEF ClientInv

----------------------------------------------------------------------------
LEMMA NextKeeps == ASSUME ClientInv, [NextClient]_clientVars PROVE ClientInv'
<1>1. CASE UNCHANGED clientVars
  BY <1>1 DEF clientVars, ClientInv, ClientTypes, Used, InOrder, FlagsAgree, OwnRequest
<1>2. ASSUME NEW k \in Connections, OpenEvent(k) \/ StreamError(k) \/ ConnectTimeout(k) \/ Challenge(k)
      PROVE  ClientInv'
  BY <1>2, OpenKeeps, ErrorKeeps, TimeoutKeeps, ChallengeKeeps
<1>3. ASSUME NEW k \in Connections, ConnectFails(k) PROVE ClientInv'
  <2>1. socket[k] \in Live
    BY <1>3 DEF ConnectFails, Live
  <2> QED BY <1>3, <2>1, RejectTypes, CloseKeeps DEF ConnectFails, ClientInv
<1>4. ASSUME NEW k \in Connections, CloseEvent(k) PROVE ClientInv'
  <2>1. socket[k] \in Live /\ server' \in {"running", "ended"} /\ promise' \in [Connections -> {"pending", "rejected"}]
    BY <1>4 DEF CloseEvent, Live, ClientInv, ClientTypes
  <2> QED BY <1>4, <2>1, CloseKeeps DEF CloseEvent
<1>5. CASE Reconnect
  BY <1>5, ReconnectKeeps
<1>6. ASSUME NEW c \in Queries, Route(c) PROVE ClientInv'
  BY <1>6, RouteKeeps
<1>7. ASSUME NEW r \in Requests, (\E ok \in BOOLEAN : handleResponse(r, ok)) \/ RequestTimeout(r)
      PROVE  ClientInv'
  BY <1>7, ResponseKeeps, ExpiryKeeps
<1> QED BY <1>1, <1>2, <1>3, <1>4, <1>5, <1>6, <1>7 DEF NextClient

LEMMA InvGivesTypes == ASSUME ClientInv PROVE ClientTypeOK
BY DEF ClientInv, ClientTypes, InOrder, ClientTypeOK, RequestRecord

LEMMA InvGivesOne == ASSUME ClientInv PROVE OneConnection
<1> DEFINE Alive == {k \in Connections : socket[k] \in Live}
<1>1. CASE Alive = {}
  BY <1>1, FS_EmptySet DEF ClientInv, InOrder, OneConnection
<1>2. CASE Alive # {}
  <2>1. PICK k \in Connections : socket[k] \in Live
    BY <1>2
  <2>2. \A j \in Connections : socket[j] \in Live => j = k
    BY <2>1 DEF ClientInv, ClientTypes, InOrder, Live, Connections
  <2>3. Alive = {k}
    BY <2>1, <2>2
  <2>4. retries = 0
    BY <2>1 DEF ClientInv, InOrder
  <2>5. Cardinality(Alive) = 1
    BY <2>3, FS_Singleton
  <2> QED BY <2>4, <2>5 DEF OneConnection
<1> QED BY <1>1, <1>2

LEMMA InvGivesReady == ASSUME ClientInv PROVE ReadyMeansAuthenticated
<1> SUFFICES ASSUME connected, authenticated
             PROVE  socket[ws] \in {"open", "closing"} /\ request[ws].state = "answered"
  BY DEF ReadyMeansAuthenticated
<1>1. PICK k \in Connections : socket[k] \in {"open", "closing"}
  BY DEF ClientInv, FlagsAgree
<1>2. socket[k] \in Live /\ ws = k
  BY <1>1, LastIsCurrent DEF ClientInv, Live
<1> QED BY <1>1, <1>2 DEF ClientInv, FlagsAgree

THEOREM ClientInvariant == SpecClient => []ClientInv
BY InitEstablishes, NextKeeps, PTL DEF SpecClient

\* Every variable of the client has its type (openclaw-gateway-client.ts:38).
THEOREM ClientTypeCorrect == SpecClient => []ClientTypeOK
BY ClientInvariant, InvGivesTypes, PTL

\* The client never has two connections, or one and a timer about to make another
\* (openclaw-gateway-client.ts:127).
THEOREM NeverTwoConnections == SpecClient => []OneConnection
BY ClientInvariant, InvGivesOne, PTL

\* A client that calls itself ready was authenticated over the connection it has
\* (openclaw-gateway-client.ts:384).
THEOREM ReadyIsAuthenticated == SpecClient => []ReadyMeansAuthenticated
BY ClientInvariant, InvGivesReady, PTL

----------------------------------------------------------------------------
(* The traces and the client together: the one does what it does alone,    *)
(* whatever the other does beside it.                                      *)

\* A call of the owner is one of those it may be.
CallsAllowed == \A c \in Calls : call[c].op \in OpsOf[c] \cup {"none"}

LEMMA CallStep == Typed /\ CallsAllowed /\ [Next]_vars => CallsAllowed'
<1> SUFFICES ASSUME Typed, CallsAllowed, [Next]_vars PROVE CallsAllowed'  OBVIOUS
<1>1. CASE UNCHANGED call
  BY <1>1 DEF CallsAllowed
<1>2. ASSUME NEW c \in Calls, NEW op \in OpsOf[c], BeginCall(c, op) PROVE CallsAllowed'
  <2>1. call' = [call EXCEPT ![c] = [op |-> op, at |-> IF op = "cancel" THEN "sessions" ELSE "write"]]
    BY <1>2 DEF BeginCall
  <2>2. call'[c].op = op /\ \A k \in Calls : k # c => call'[k] = call[k]  BY <2>1 DEF Typed
  <2> QED BY <2>2 DEF CallsAllowed
<1>3. ASSUME NEW c \in Calls, CancelSessions(c) \/ WriteTrace(c) \/ DeleteTrace(c) PROVE CallsAllowed'
  <2>1. PICK at : call' = [call EXCEPT ![c].at = at]
    BY <1>3 DEF CancelSessions, WriteTrace, DeleteTrace
  <2>2. \A k \in Calls : call'[k].op = call[k].op
    BY <2>1 DEF Typed, CallRow
  <2> QED BY <2>2 DEF CallsAllowed
<1>4. ASSUME NEW a \in Agents, Execute(a) \/ ExecutorFault(a) PROVE UNCHANGED call
  BY <1>4 DEF Execute, ExecutorFault, Begin, Fetch, CheckCancelled, ReadPart, Report, SettleSession,
              SettleTrace, ErrorEvent, ErrorSession, ErrorTrace
<1>5. ASSUME Drive PROVE UNCHANGED call
  BY <1>5 DEF Drive, CreateTrace, CreateSession, Announce, RequestFails, PollSession,
              SequenceRejected, FinishSequence
<1> QED BY <1>1, <1>2, <1>3, <1>4, <1>5 DEF Next, Control, vars

\* Traces, sessions, executors, calls and drivers are well formed at every moment
\* (gateway.service.ts:63-560).
THEOREM TracesTypeCorrect == Spec => []TypeOK
<1>1. Typed /\ CallsAllowed => TypeOK
  <2> SUFFICES ASSUME Typed, CallsAllowed PROVE TypeOK  OBVIOUS
  <2>1. \A c \in Calls : call[c] \in [op : OpsOf[c] \cup {"none"}, at : {"idle", "sessions", "write", "over"}]
    BY DEF Typed, CallsAllowed, CallRow
  <2> QED BY <2>1, Zenon DEF Typed, TypeOK, ExecRow, Places
<1>2. Init => CallsAllowed  BY DEF Init, CallsAllowed
<1>3. TraceInv => Typed  BY DEF TraceInv
<1> QED BY <1>1, <1>2, <1>3, CallStep, TraceStarts, TraceStep, PTL DEF Spec

\* Every variable of the two has its type (gateway.service.ts, gateway-client.ts).
THEOREM GatewayTypeCorrect == SpecGateway => []GatewayTypeOK
<1>1. InitGateway => Init /\ InitClient  BY DEF InitGateway
<1>2. [NextGateway]_gatewayVars => [Next]_vars /\ [NextClient]_clientVars
  BY DEF NextGateway, gatewayVars
<1>3. SpecGateway => Spec /\ SpecClient
  BY <1>1, <1>2, PTL DEF SpecGateway, Spec, SpecClient
<1>4. TypeOK /\ ClientTypeOK => GatewayTypeOK  BY DEF GatewayTypeOK
<1> QED BY <1>3, <1>4, TracesTypeCorrect, ClientTypeCorrect, PTL
=============================================================================
