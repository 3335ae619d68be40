--------------------------- MODULE OfficesProofs ----------------------------
(***************************************************************************)
(* Proofs about three services of the office: payroll runs, the tabs of a  *)
(* workspace, and attendance.                                              *)
(***************************************************************************)
EXTENDS OfficesMC, Sums

(***************************************************************************)
(* Payroll runs for any number of employees, periods, handlers and         *)
(* failures: every row has its type, what a run has counted was paid, and  *)
(* a run that one handler processed counts all its payslips.               *)
(***************************************************************************)

\* The handler processes a run of the period.
Works(c, p) == clerk[c].at \in {"mark", "collect", "write", "complete"} /\ clerk[c].period = p

\* Whoever works on a run once found it in DRAFT.
Registered == \A c \in Clerks, p \in Periods : Works(c, p) => c \in begun[p]

\* Until a run is marked no payslip of it is written, and no handler is past the mark.
Fresh ==
  \A p \in Periods : run[p].status \in {"none", "DRAFT"} =>
    /\ Filed(p) = {}
    /\ \A c \in Clerks : Works(c, p) => clerk[c].at = "mark"

\* What a handler believes to have written is there.
DoneFiled ==
  \A c \in Clerks : clerk[c].at \in {"write", "complete"} =>
    \A s \in clerk[c].done : payslip[clerk[c].period][s.emp] = s.slip

Employees(done) == {s.emp : s \in done}

\* How far a run has come that only one handler has begun.
SoleHandler ==
  \A p \in Periods, c \in Clerks : begun[p] = {c} /\ Works(c, p) =>
    /\ run[p].status # "COMPLETED"
    /\ clerk[c].at \in {"mark", "collect"} => Filed(p) = {}
    /\ clerk[c].at \in {"write", "complete"} => Employees(clerk[c].done) = Filed(p)

PayrollInv ==
  /\ PayrollTypeOK
  /\ Registered /\ Fresh /\ DoneFiled /\ SoleHandler
  /\ CountedPayslipsExist /\ CompletedRunAddsUp

-----------------------------------------------------------------------------
\* The locals a handler has at each line.
LEMMA ClerkLocals ==
  ASSUME NEW j \in ClerkJobs
  PROVE  /\ j.at = "replace" => j.emp \in Staff /\ j.pay \in Pays
         /\ j.at \in {"mark", "collect"} => j \in [at : {"mark", "collect"}, period : Periods]
         /\ j.at \in {"write", "complete"} =>
              j \in [at : {"write", "complete"}, period : Periods,
                     due : SUBSET Pending, done : SUBSET Pending]
         /\ j.at \in {"idle", "replace", "mark", "collect", "write", "complete"}
  BY DEF ClerkJobs, AtDesk

LEMMA AtDeskJob == AtDesk \in ClerkJobs /\ AtDesk.at = "idle"
  BY DEF ClerkJobs, AtDesk

\* A handler with payslips left writes, one without completes.
LEMMA NextWriteJob ==
  ASSUME NEW p \in Periods, NEW due \in SUBSET Pending, NEW done \in SUBSET Pending
  PROVE  /\ NextWrite(p, due, done) \in ClerkJobs
         /\ NextWrite(p, due, done).at \in {"write", "complete"}
         /\ NextWrite(p, due, done).period = p
         /\ NextWrite(p, due, done).done = done
  BY DEF NextWrite, ClerkJobs

\* Only the moved handler changes its place.
LEMMA ClerkMoves ==
  ASSUME PayrollTypeOK, NEW c \in Clerks, NEW j \in ClerkJobs, Take(c, j)
  PROVE  /\ clerk' \in [Clerks -> ClerkJobs]
         /\ clerk'[c] = j
         /\ \A d \in Clerks : d # c => clerk'[d] = clerk[d]
  BY DEF PayrollTypeOK, Take

\* A payslip deducts at least the professional tax, so it is not the absent row.
LEMMA SlipIsARow ==
  ASSUME NEW slip \in Slips
  PROVE  slip # NoSlip
<1>1. PICK pay \in Amount : slip = Slip(pay)
  BY PaysAssumption DEF Slips
<1>2. pay.basic \in Nat /\ pay.allowances \in Nat
  BY DEF Amount
<1>3. calcPf(pay.basic) \in Nat
  BY <1>2 DEF calcPf
<1>4. calcEsi(Gross(pay)) \in Nat
  BY <1>2 DEF calcEsi, Gross
<1>5. Deductions(pay) # 0
  BY <1>3, <1>4 DEF Deductions, calcProfessionalTax
<1> QED BY <1>1, <1>5 DEF Slip, NoSlip

-----------------------------------------------------------------------------
\* A step that moves one handler and writes no table keeps the types.
LEMMA TypeMove ==
  ASSUME PayrollTypeOK, NEW c \in Clerks, NEW j \in ClerkJobs, Take(c, j),
         salary' \in [Staff -> Structure \cup {NoPay}], run' \in [Periods -> Runs],
         payslip' \in [Periods -> [Staff -> Slips \cup {NoSlip}]],
         begun' \in [Periods -> SUBSET Clerks], clerkFaults' \in 0 .. MaxClerkFaults,
         employed' \subseteq Staff
  PROVE  PayrollTypeOK'
  BY ClerkMoves DEF PayrollTypeOK

LEMMA TypeStep ==
  ASSUME PayrollTypeOK, [NextPayroll]_payrollVars
  PROVE  PayrollTypeOK'
<1> USE DEF PayrollTypeOK
<1>1. ASSUME NEW e \in Staff, ChangeStatus(e) PROVE PayrollTypeOK'
  BY <1>1 DEF ChangeStatus
<1>2. ASSUME NEW p \in Periods, CreateRun(p) PROVE PayrollTypeOK'
  <2>1. [run[p] EXCEPT !.status = "DRAFT"] \in Runs
    BY DEF Runs
  <2> QED BY <1>2, <2>1 DEF CreateRun
<1>3. ASSUME NEW c \in Clerks, NEW e \in Staff, NEW pay \in Pays, DeactivateSalary(c, e, pay)
      PROVE PayrollTypeOK'
  <2>1. [at |-> "replace", emp |-> e, pay |-> pay] \in ClerkJobs
    BY DEF ClerkJobs
  <2>2. salary[e] # NoPay => [salary[e] EXCEPT !.active = FALSE] \in Structure
    BY DEF Structure
  <2>3. salary' \in [Staff -> Structure \cup {NoPay}]
    BY <1>3, <2>2 DEF DeactivateSalary
  <2> QED BY <1>3, <2>1, <2>3, TypeMove DEF DeactivateSalary
<1>4. ASSUME NEW c \in Clerks, NEW p \in Periods, ProcessRun(c, p) PROVE PayrollTypeOK'
  <2>1. [at |-> "mark", period |-> p] \in ClerkJobs
    BY DEF ClerkJobs
  <2>2. begun' \in [Periods -> SUBSET Clerks]
    BY <1>4 DEF ProcessRun
  <2> QED BY <1>4, <2>1, <2>2, TypeMove DEF ProcessRun
<1>5. ASSUME NEW c \in Clerks, InsertSalary(c) PROVE PayrollTypeOK'
  <2>1. clerk[c].emp \in Staff /\ clerk[c].pay \in Pays
    BY <1>5, ClerkLocals DEF InsertSalary
  <2>2. [pay |-> clerk[c].pay, active |-> TRUE] \in Structure
    BY <2>1 DEF Structure
  <2>3. salary' \in [Staff -> Structure \cup {NoPay}]
    BY <1>5, <2>1, <2>2 DEF InsertSalary
  <2> QED BY <1>5, <2>3, AtDeskJob, TypeMove DEF InsertSalary
<1>6. ASSUME NEW c \in Clerks, MarkProcessing(c) PROVE PayrollTypeOK'
  <2>1. clerk[c] \in [at : {"mark", "collect"}, period : Periods]
    BY <1>6, ClerkLocals DEF MarkProcessing
  <2>2. [clerk[c] EXCEPT !.at = "collect"] \in ClerkJobs
    BY <2>1 DEF ClerkJobs
  <2>3. [run[clerk[c].period] EXCEPT !.status = "PROCESSING"] \in Runs
    BY <2>1 DEF Runs
  <2>4. run' \in [Periods -> Runs]
    BY <1>6, <2>1, <2>3 DEF MarkProcessing
  <2> QED BY <1>6, <2>2, <2>4, TypeMove DEF MarkProcessing
<1>7. ASSUME NEW c \in Clerks, CollectEmployees(c) PROVE PayrollTypeOK'
  <2> DEFINE due == {[emp |-> e, slip |-> Slip(salary[e].pay)] : e \in Payable}
  <2>1. clerk[c].period \in Periods
    BY <1>7, ClerkLocals DEF CollectEmployees
  <2>2. ASSUME NEW e \in Payable PROVE [emp |-> e, slip |-> Slip(salary[e].pay)] \in Pending
    BY DEF Payable, Structure, Pending, Slips
  <2>3. due \in SUBSET Pending
    BY <2>2
  <2>4. NextWrite(clerk[c].period, due, {}) \in ClerkJobs
    BY <2>1, <2>3, NextWriteJob
  <2> QED BY <1>7, <2>4, TypeMove DEF CollectEmployees
<1>8. ASSUME NEW c \in Clerks, CreatePayslip(c) PROVE PayrollTypeOK'
  <2> DEFINE p == clerk[c].period
             j(s) == NextWrite(p, clerk[c].due \ {s}, clerk[c].done \cup {s})
  <2>1. p \in Periods /\ clerk[c].due \subseteq Pending /\ clerk[c].done \subseteq Pending
    BY <1>8, ClerkLocals DEF CreatePayslip
  <2>2. PICK s \in clerk[c].due :
          IF payslip[p][s.emp] = NoSlip
          THEN payslip' = [payslip EXCEPT ![p][s.emp] = s.slip] /\ Take(c, j(s))
          ELSE Take(c, AtDesk) /\ UNCHANGED payslip
    BY <1>8 DEF CreatePayslip
  <2>3. s.emp \in Staff /\ s.slip \in Slips /\ j(s) \in ClerkJobs
    BY <2>1, NextWriteJob DEF Pending
  <2>4. payslip' \in [Periods -> [Staff -> Slips \cup {NoSlip}]]
    <3>1. [payslip[p] EXCEPT ![s.emp] = s.slip] \in [Staff -> Slips \cup {NoSlip}]
      BY <2>1, <2>3
    <3>2. payslip' = payslip \/ payslip' = [payslip EXCEPT ![p] = [payslip[p] EXCEPT ![s.emp] = s.slip]]
      BY <2>2
    <3> HIDE DEF p
    <3> QED BY <2>1, <3>1, <3>2
  <2> HIDE DEF p, j
  <2> QED BY <1>8, <2>2, <2>3, <2>4, AtDeskJob, TypeMove DEF CreatePayslip
<1>9. ASSUME NEW c \in Clerks, CompleteRun(c) PROVE PayrollTypeOK'
  <2>1. clerk[c].period \in Periods /\ Settled(clerk[c].done) \in Runs
    BY <1>9, ClerkLocals DEF CompleteRun, Settled, Runs
  <2>2. run' \in [Periods -> Runs]
    BY <1>9, <2>1 DEF CompleteRun
  <2> QED BY <1>9, <2>2, AtDeskJob, TypeMove DEF CompleteRun
<1>10. ASSUME NEW c \in Clerks, ClerkFault(c) PROVE PayrollTypeOK'
  <2>1. clerkFaults' \in 0 .. MaxClerkFaults
    BY <1>10, ClerkBound DEF ClerkFault
  <2> QED BY <1>10, <2>1, AtDeskJob, TypeMove DEF ClerkFault
<1>11. CASE UNCHANGED payrollVars
  BY <1>11 DEF payrollVars
<1> HIDE DEF PayrollTypeOK
<1> QED BY <1>1, <1>2, <1>3, <1>4, <1>5, <1>6, <1>7, <1>8, <1>9, <1>10, <1>11 DEF NextPayroll, Processing

\* Every column of every payroll table, and every handler, has its type at every moment
\* (payroll.service.ts:75 to :254).
THEOREM PayrollTypeCorrect == SpecPayroll => []PayrollTypeOK
<1>1. InitPayroll => PayrollTypeOK
  BY AtDeskJob, ClerkBound DEF InitPayroll, PayrollTypeOK, NoRun, Runs
<1>2. PayrollTypeOK /\ [NextPayroll]_payrollVars => PayrollTypeOK'
  BY TypeStep
<1> QED BY <1>1, <1>2, PTL DEF SpecPayroll

-----------------------------------------------------------------------------
\* A handler that leaves its run, or that enters a salary, disturbs nothing.
LEMMA Released ==
  ASSUME PayrollInv, PayrollTypeOK', NEW c \in Clerks, NEW j \in ClerkJobs, Take(c, j),
         j.at \in {"idle", "replace"}, UNCHANGED <<run, payslip, begun>>
  PROVE  PayrollInv'
<1>1. /\ clerk'[c].at \in {"idle", "replace"}
      /\ \A d \in Clerks : d # c => clerk'[d] = clerk[d]
  BY ClerkMoves DEF PayrollInv
<1>2. \A d \in Clerks, p \in Periods : Works(d, p)' => d # c /\ Works(d, p)
  BY <1>1 DEF Works
<1>3. \A p \in Periods : Filed(p)' = Filed(p) /\ (Alone(p)' <=> Alone(p))
  BY DEF Filed, Alone
<1>4. Registered' /\ Fresh'
  BY <1>1, <1>2, <1>3 DEF PayrollInv, Registered, Fresh
<1>5. DoneFiled'
  BY <1>1 DEF PayrollInv, DoneFiled
<1>6. SoleHandler'
  BY <1>1, <1>2, <1>3 DEF PayrollInv, SoleHandler
<1>7. CountedPayslipsExist' /\ CompletedRunAddsUp'
  BY <1>3 DEF PayrollInv, CountedPayslipsExist, CompletedRunAddsUp
<1> QED BY <1>4, <1>5, <1>6, <1>7 DEF PayrollInv

LEMMA ProcessRunStep ==
  ASSUME PayrollInv, PayrollTypeOK', NEW c \in Clerks, NEW p \in Periods, ProcessRun(c, p)
  PROVE  PayrollInv'
<1> DEFINE j == [at |-> "mark", period |-> p]
<1>1. j \in ClerkJobs /\ Take(c, j) /\ UNCHANGED <<run, payslip>> /\ run[p].status = "DRAFT"
  BY DEF ClerkJobs, ProcessRun, MayProcess
<1>2. clerk'[c] = j /\ \A d \in Clerks : d # c => clerk'[d] = clerk[d]
  BY <1>1, ClerkMoves DEF PayrollInv
<1>3. /\ begun'[p] = begun[p] \cup {c}
      /\ \A q \in Periods : q # p => begun'[q] = begun[q]
  BY DEF ProcessRun, PayrollInv, PayrollTypeOK
<1>4. \A d \in Clerks, q \in Periods : Works(d, q)' => (d = c /\ q = p) \/ (d # c /\ Works(d, q))
  BY <1>2 DEF Works
<1>5. \A q \in Periods : Filed(q)' = Filed(q)
  BY <1>1 DEF Filed
<1>6. Filed(p) = {}
  BY <1>1 DEF PayrollInv, Fresh
<1>7. Registered'
  BY <1>3, <1>4 DEF PayrollInv, Registered
<1>8. Fresh'
  BY <1>1, <1>2, <1>4, <1>5 DEF PayrollInv, Fresh
<1>9. DoneFiled'
  BY <1>1, <1>2 DEF PayrollInv, DoneFiled
<1>10. SoleHandler'
  <2> SUFFICES ASSUME NEW q \in Periods, NEW d \in Clerks, begun'[q] = {d}, Works(d, q)'
               PROVE  /\ run'[q].status # "COMPLETED"
                      /\ clerk'[d].at \in {"mark", "collect"} => Filed(q)' = {}
                      /\ clerk'[d].at \in {"write", "complete"} =>
                           Employees(clerk'[d].done) = Filed(q)'
    BY DEF SoleHandler, Employees
  <2>1. CASE q = p
    <3>1. d = c
      BY <1>3, <2>1
    <3> QED BY <1>1, <1>2, <1>5, <1>6, <2>1, <3>1
  <2>2. CASE q # p
    BY <1>1, <1>2, <1>3, <1>4, <1>5, <2>2 DEF PayrollInv, SoleHandler
  <2> QED BY <2>1, <2>2
<1>11. CountedPayslipsExist'
  BY <1>1 DEF PayrollInv, CountedPayslipsExist
<1>12. CompletedRunAddsUp'
  BY <1>1, <1>3, <1>5 DEF PayrollInv, CompletedRunAddsUp, Alone
<1> QED BY <1>7, <1>8, <1>9, <1>10, <1>11, <1>12 DEF PayrollInv

\* A run that only one handler began is worked on by that handler alone.
LEMMA OnlyWorker ==
  ASSUME PayrollInv, NEW c \in Clerks, NEW d \in Clerks, NEW p \in Periods,
         Works(c, p), begun[p] = {d}
  PROVE  c = d
  BY DEF PayrollInv, Registered

LEMMA MarkProcessingStep ==
  ASSUME PayrollInv, PayrollTypeOK', NEW c \in Clerks, MarkProcessing(c)
  PROVE  PayrollInv'
<1> DEFINE p == clerk[c].period
           j == [clerk[c] EXCEPT !.at = "collect"]
<1>1. clerk[c] \in [at : {"mark", "collect"}, period : Periods] /\ clerk[c].at = "mark"
  BY ClerkLocals DEF MarkProcessing, PayrollInv, PayrollTypeOK
<1>2. j \in ClerkJobs /\ j.at = "collect" /\ j.period = p /\ p \in Periods
  BY <1>1 DEF ClerkJobs
<1>3. Take(c, j) /\ UNCHANGED <<payslip, begun>>
  BY DEF MarkProcessing
<1>4. clerk'[c] = j /\ \A d \in Clerks : d # c => clerk'[d] = clerk[d]
  BY <1>2, <1>3, ClerkMoves DEF PayrollInv
<1>5. /\ run'[p].status = "PROCESSING" /\ run'[p].counted = run[p].counted
      /\ \A q \in Periods : q # p => run'[q] = run[q]
  BY <1>2 DEF MarkProcessing, PayrollInv, PayrollTypeOK, Runs
<1>6. Works(c, p) /\ \A d \in Clerks, q \in Periods : Works(d, q)' <=> Works(d, q)
  BY <1>1, <1>2, <1>4 DEF Works
<1>7. \A q \in Periods : Filed(q)' = Filed(q) /\ (Alone(q)' <=> Alone(q))
  BY <1>3 DEF Filed, Alone
<1> HIDE DEF p, j
<1>8. Registered'
  BY <1>3, <1>6 DEF PayrollInv, Registered
<1>9. Fresh'
  <2> SUFFICES ASSUME NEW q \in Periods, run'[q].status \in {"none", "DRAFT"}
               PROVE  Filed(q)' = {} /\ \A d \in Clerks : Works(d, q)' => clerk'[d].at = "mark"
    BY DEF Fresh
  <2>1. q # p /\ run'[q] = run[q]
    BY <1>5
  <2>2. \A d \in Clerks : Works(d, q)' => d # c
    BY <1>2, <1>4, <2>1 DEF Works
  <2> QED BY <1>4, <1>6, <1>7, <2>1, <2>2 DEF PayrollInv, Fresh
<1>10. DoneFiled'
  BY <1>2, <1>3, <1>4 DEF PayrollInv, DoneFiled
<1>11. SoleHandler'
  <2> SUFFICES ASSUME NEW q \in Periods, NEW d \in Clerks, begun[q] = {d}, Works(d, q)
               PROVE  /\ run'[q].status # "COMPLETED"
                      /\ clerk'[d].at \in {"mark", "collect"} => Filed(q) = {}
                      /\ clerk'[d].at \in {"write", "complete"} =>
                           Employees(clerk'[d].done) = Filed(q)
    BY <1>3, <1>6, <1>7 DEF SoleHandler, Employees
  <2>1. CASE q = p
    <3>1. d = c
      BY <1>2, <1>6, <2>1, OnlyWorker
    <3> QED BY <1>1, <1>2, <1>4, <1>5, <2>1, <3>1 DEF PayrollInv, SoleHandler
  <2>2. CASE q # p
    <3>1. d # c
      BY <1>6, <2>2 DEF Works, p
    <3> QED BY <1>4, <1>5, <2>2, <3>1 DEF PayrollInv, SoleHandler
  <2> QED BY <2>1, <2>2
<1>12. CountedPayslipsExist'
  BY <1>2, <1>3, <1>5 DEF PayrollInv, CountedPayslipsExist
<1>13. CompletedRunAddsUp'
  BY <1>2, <1>5, <1>7 DEF PayrollInv, CompletedRunAddsUp
<1> QED BY <1>8, <1>9, <1>10, <1>11, <1>12, <1>13 DEF PayrollInv

LEMMA CollectEmployeesStep ==
  ASSUME PayrollInv, PayrollTypeOK', NEW c \in Clerks, CollectEmployees(c)
  PROVE  PayrollInv'
<1> DEFINE p == clerk[c].period
           due == {[emp |-> e, slip |-> Slip(salary[e].pay)] : e \in Payable}
           j == NextWrite(p, due, {})
<1>1. p \in Periods /\ clerk[c].at = "collect"
  BY ClerkLocals DEF CollectEmployees, PayrollInv, PayrollTypeOK
<1>2. due \in SUBSET Pending
  BY DEF PayrollInv, PayrollTypeOK, Payable, Structure, Pending, Slips
<1>3. j \in ClerkJobs /\ j.at \in {"write", "complete"} /\ j.period = p /\ j.done = {}
  BY <1>1, <1>2, NextWriteJob
<1>4. Take(c, j) /\ UNCHANGED <<run, payslip, begun>>
  BY DEF CollectEmployees
<1>5. clerk'[c] = j /\ \A d \in Clerks : d # c => clerk'[d] = clerk[d]
  BY <1>3, <1>4, ClerkMoves DEF PayrollInv
<1>6. Works(c, p) /\ \A d \in Clerks, q \in Periods : Works(d, q)' <=> Works(d, q)
  BY <1>1, <1>3, <1>5 DEF Works
<1>7. \A q \in Periods : Filed(q)' = Filed(q) /\ (Alone(q)' <=> Alone(q))
  BY <1>4 DEF Filed, Alone
<1> HIDE DEF p, j
<1>8. Registered'
  BY <1>4, <1>6 DEF PayrollInv, Registered
<1>9. Fresh'
  <2> SUFFICES ASSUME NEW q \in Periods, run[q].status \in {"none", "DRAFT"}
               PROVE  Filed(q) = {} /\ \A d \in Clerks : Works(d, q) => clerk'[d].at = "mark"
    BY <1>4, <1>6, <1>7 DEF Fresh
  <2>1. ~ Works(c, q)
    BY <1>1 DEF PayrollInv, Fresh
  <2> QED BY <1>5, <2>1 DEF PayrollInv, Fresh
<1>10. DoneFiled'
  BY <1>3, <1>4, <1>5 DEF PayrollInv, DoneFiled
<1>11. SoleHandler'
  <2> SUFFICES ASSUME NEW q \in Periods, NEW d \in Clerks, begun[q] = {d}, Works(d, q)
               PROVE  /\ run[q].status # "COMPLETED"
                      /\ clerk'[d].at \in {"mark", "collect"} => Filed(q) = {}
                      /\ clerk'[d].at \in {"write", "complete"} =>
                           Employees(clerk'[d].done) = Filed(q)
    BY <1>4, <1>6, <1>7 DEF SoleHandler, Employees
  <2>1. CASE d = c
    <3>1. Filed(q) = {} /\ run[q].status # "COMPLETED"
      BY <1>1, <2>1 DEF PayrollInv, SoleHandler
    <3> QED BY <1>3, <1>5, <2>1, <3>1 DEF Employees
  <2>2. CASE d # c
    BY <1>5, <2>2 DEF PayrollInv, SoleHandler
  <2> QED BY <2>1, <2>2
<1>12. CountedPayslipsExist' /\ CompletedRunAddsUp'
  BY <1>4, <1>7 DEF PayrollInv, CountedPayslipsExist, CompletedRunAddsUp
<1> QED BY <1>8, <1>9, <1>10, <1>11, <1>12 DEF PayrollInv

\* The payslip a handler inserts, and what that leaves of the others.
LEMMA PayslipInserted ==
  ASSUME PayrollTypeOK, NEW p \in Periods, NEW s \in Pending, payslip[p][s.emp] = NoSlip,
         payslip' = [payslip EXCEPT ![p][s.emp] = s.slip]
  PROVE  /\ payslip'[p][s.emp] = s.slip
         /\ \A q \in Periods, e \in Staff : payslip[q][e] # NoSlip => payslip'[q][e] = payslip[q][e]
         /\ Filed(p)' = Filed(p) \cup {s.emp}
         /\ \A q \in Periods : q # p => Filed(q)' = Filed(q)
<1>1. s.emp \in Staff /\ s.slip \in Slips
  BY DEF Pending
<1>2. s.slip # NoSlip
  BY <1>1, SlipIsARow
<1>3. payslip \in [Periods -> [Staff -> Slips \cup {NoSlip}]]
  BY DEF PayrollTypeOK
<1>4. \A q \in Periods, e \in Staff :
        payslip'[q][e] = IF q = p /\ e = s.emp THEN s.slip ELSE payslip[q][e]
  BY <1>1, <1>3
<1> QED BY <1>1, <1>2, <1>4 DEF Filed

\* An inserted payslip is counted with the others of its handler.
LEMMA CreatedStep ==
  ASSUME PayrollInv, PayrollTypeOK', NEW c \in Clerks, clerk[c].at = "write",
         NEW s \in clerk[c].due, payslip[clerk[c].period][s.emp] = NoSlip,
         payslip' = [payslip EXCEPT ![clerk[c].period][s.emp] = s.slip],
         Take(c, NextWrite(clerk[c].period, clerk[c].due \ {s}, clerk[c].done \cup {s})),
         UNCHANGED <<run, begun>>
  PROVE  PayrollInv'
<1>1. PICK p \in Periods, done \in SUBSET Pending : p = clerk[c].period /\ done = clerk[c].done
  BY ClerkLocals DEF PayrollInv, PayrollTypeOK
<1>2. clerk[c].due \subseteq Pending /\ s \in Pending /\ s.emp \in Staff
  BY ClerkLocals DEF PayrollInv, PayrollTypeOK, Pending
<1> DEFINE j == NextWrite(p, clerk[c].due \ {s}, done \cup {s})
<1>3. j \in ClerkJobs /\ j.at \in {"write", "complete"} /\ j.period = p /\ j.done = done \cup {s}
  BY <1>1, <1>2, NextWriteJob
<1>4. clerk'[c] = j /\ \A d \in Clerks : d # c => clerk'[d] = clerk[d]
  BY <1>1, <1>3, ClerkMoves DEF PayrollInv
<1>5. Works(c, p) /\ \A d \in Clerks, q \in Periods : Works(d, q)' <=> Works(d, q)
  BY <1>1, <1>3, <1>4 DEF Works
<1>6. /\ payslip'[p][s.emp] = s.slip
      /\ \A q \in Periods, e \in Staff : payslip[q][e] # NoSlip => payslip'[q][e] = payslip[q][e]
      /\ Filed(p)' = Filed(p) \cup {s.emp}
      /\ \A q \in Periods : q # p => Filed(q)' = Filed(q)
  BY <1>1, <1>2, PayslipInserted DEF PayrollInv
<1>7. \A t \in Pending, q \in Periods :
        payslip[q][t.emp] = t.slip => payslip'[q][t.emp] = t.slip
  BY <1>6, SlipIsARow DEF Pending
<1>8. run[p].status \notin {"none", "DRAFT"}
  BY <1>1, <1>5 DEF PayrollInv, Fresh
<1>9. Registered'
  BY <1>5 DEF PayrollInv, Registered
<1>10. Fresh'
  <2> SUFFICES ASSUME NEW q \in Periods, run[q].status \in {"none", "DRAFT"}
               PROVE  Filed(q)' = {} /\ \A d \in Clerks : Works(d, q) => clerk'[d].at = "mark"
    BY <1>5 DEF Fresh
  <2>1. q # p /\ ~ Works(c, q)
    BY <1>1, <1>8 DEF Works
  <2> QED BY <1>4, <1>6, <2>1 DEF PayrollInv, Fresh
<1>11. DoneFiled'
  <2> SUFFICES ASSUME NEW d \in Clerks, clerk'[d].at \in {"write", "complete"},
                      NEW t \in clerk'[d].done
               PROVE  payslip'[clerk'[d].period][t.emp] = t.slip
    BY DEF DoneFiled
  <2>1. CASE d = c
    <3>1. clerk'[d].period = p /\ t \in done \cup {s}
      BY <1>3, <1>4, <2>1
    <3>2. \A u \in done : payslip[p][u.emp] = u.slip
      BY <1>1 DEF PayrollInv, DoneFiled
    <3> QED BY <1>1, <1>6, <1>7, <3>1, <3>2
  <2>2. CASE d # c
    <3>1. clerk'[d] = clerk[d]
      BY <1>4, <2>2
    <3>2. t \in Pending /\ clerk[d].period \in Periods
      BY <3>1, ClerkLocals DEF PayrollInv, PayrollTypeOK
    <3>3. payslip[clerk[d].period][t.emp] = t.slip
      BY <3>1 DEF PayrollInv, DoneFiled
    <3> QED BY <1>7, <3>1, <3>2, <3>3
  <2> QED BY <2>1, <2>2
<1> HIDE DEF j
<1>12. SoleHandler'
  <2> SUFFICES ASSUME NEW q \in Periods, NEW d \in Clerks, begun[q] = {d}, Works(d, q)
               PROVE  /\ run[q].status # "COMPLETED"
                      /\ clerk'[d].at \in {"mark", "collect"} => Filed(q)' = {}
                      /\ clerk'[d].at \in {"write", "complete"} =>
                           Employees(clerk'[d].done) = Filed(q)'
    BY <1>5 DEF SoleHandler, Employees
  <2>1. CASE q = p
    <3>1. d = c
      BY <1>1, <1>5, <2>1, OnlyWorker
    <3>2. run[q].status # "COMPLETED" /\ Employees(done) = Filed(p)
      BY <1>1, <2>1, <3>1 DEF PayrollInv, SoleHandler
    <3>3. Employees(done \cup {s}) = Employees(done) \cup {s.emp}
      BY DEF Employees
    <3> QED BY <1>3, <1>4, <1>6, <2>1, <3>1, <3>2, <3>3
  <2>2. CASE q # p
    <3>1. d # c
      BY <1>1, <2>2 DEF Works
    <3> QED BY <1>4, <1>6, <2>2, <3>1 DEF PayrollInv, SoleHandler
  <2> QED BY <2>1, <2>2
<1>13. CountedPayslipsExist'
  <2>1. \A q \in Periods : run[q].counted \subseteq Pending
    BY DEF PayrollInv, PayrollTypeOK, Runs
  <2> QED BY <1>7, <2>1 DEF PayrollInv, CountedPayslipsExist
<1>14. CompletedRunAddsUp'
  <2> SUFFICES ASSUME NEW q \in Periods, run[q].status = "COMPLETED", Alone(q)
               PROVE  {t.emp : t \in run[q].counted} = Filed(q)'
    BY DEF CompletedRunAddsUp, Alone
  <2>1. PICK d \in Clerks : begun[q] = {d}
    BY DEF Alone
  <2>2. q # p
    BY <1>1, <1>5, <2>1, OnlyWorker DEF PayrollInv, SoleHandler
  <2> QED BY <1>6, <2>2 DEF PayrollInv, CompletedRunAddsUp
<1> QED BY <1>9, <1>10, <1>11, <1>12, <1>13, <1>14 DEF PayrollInv

LEMMA CreatePayslipStep ==
  ASSUME PayrollInv, PayrollTypeOK', NEW c \in Clerks, CreatePayslip(c)
  PROVE  PayrollInv'
<1>1. PICK s \in clerk[c].due :
        IF payslip[clerk[c].period][s.emp] = NoSlip
        THEN /\ payslip' = [payslip EXCEPT ![clerk[c].period][s.emp] = s.slip]
             /\ Take(c, NextWrite(clerk[c].period, clerk[c].due \ {s}, clerk[c].done \cup {s}))
        ELSE Take(c, AtDesk) /\ UNCHANGED payslip
  BY DEF CreatePayslip
<1>2. UNCHANGED <<run, begun>> /\ clerk[c].at = "write"
  BY DEF CreatePayslip
<1>3. CASE payslip[clerk[c].period][s.emp] = NoSlip
  BY <1>1, <1>2, <1>3, CreatedStep
<1>4. CASE payslip[clerk[c].period][s.emp] # NoSlip
  BY <1>1, <1>2, <1>4, AtDeskJob, Released
<1> QED BY <1>3, <1>4

LEMMA CompleteRunStep ==
  ASSUME PayrollInv, PayrollTypeOK', NEW c \in Clerks, CompleteRun(c)
  PROVE  PayrollInv'
<1>1. PICK p \in Periods, done \in SUBSET Pending : p = clerk[c].period /\ done = clerk[c].done
  BY ClerkLocals DEF CompleteRun, PayrollInv, PayrollTypeOK
<1>2. clerk[c].at = "complete" /\ Take(c, AtDesk) /\ UNCHANGED <<payslip, begun>>
  BY DEF CompleteRun
<1>3. /\ run'[p].status = "COMPLETED" /\ run'[p].counted = done
      /\ \A q \in Periods : q # p => run'[q] = run[q]
  BY <1>1 DEF CompleteRun, Settled, PayrollInv, PayrollTypeOK
<1>4. clerk'[c].at = "idle" /\ \A d \in Clerks : d # c => clerk'[d] = clerk[d]
  BY <1>2, AtDeskJob, ClerkMoves DEF PayrollInv
<1>5. Works(c, p)
  BY <1>1, <1>2 DEF Works
<1>6. \A d \in Clerks, q \in Periods : Works(d, q)' => d # c /\ Works(d, q)
  BY <1>4 DEF Works
<1>7. \A q \in Periods : Filed(q)' = Filed(q) /\ (Alone(q)' <=> Alone(q))
  BY <1>2 DEF Filed, Alone
<1>8. Registered'
  BY <1>2, <1>6 DEF PayrollInv, Registered
<1>9. Fresh'
  BY <1>3, <1>4, <1>6, <1>7 DEF PayrollInv, Fresh
<1>10. DoneFiled'
  BY <1>2, <1>4 DEF PayrollInv, DoneFiled
<1>11. SoleHandler'
  <2> SUFFICES ASSUME NEW q \in Periods, NEW d \in Clerks, begun[q] = {d}, Works(d, q)'
               PROVE  /\ run'[q].status # "COMPLETED"
                      /\ clerk'[d].at \in {"mark", "collect"} => Filed(q) = {}
                      /\ clerk'[d].at \in {"write", "complete"} =>
                           Employees(clerk'[d].done) = Filed(q)
    BY <1>2, <1>7 DEF SoleHandler, Employees
  <2>1. d # c /\ Works(d, q) /\ q # p
    BY <1>5, <1>6, OnlyWorker
  <2> QED BY <1>3, <1>4, <2>1 DEF PayrollInv, SoleHandler
<1>12. CountedPayslipsExist'
  <2>1. \A s \in done : payslip[p][s.emp] = s.slip
    BY <1>1, <1>2 DEF PayrollInv, DoneFiled
  <2> QED BY <1>2, <1>3, <2>1 DEF PayrollInv, CountedPayslipsExist
<1>13. CompletedRunAddsUp'
  <2> SUFFICES ASSUME NEW q \in Periods, run'[q].status = "COMPLETED", Alone(q)
               PROVE  {s.emp : s \in run'[q].counted} = Filed(q)
    BY <1>7 DEF CompletedRunAddsUp
  <2>1. CASE q = p
    <3>1. PICK d \in Clerks : begun[p] = {d}
      BY <2>1 DEF Alone
    <3>2. d = c
      BY <1>5, <3>1, OnlyWorker
    <3>3. Employees(done) = Filed(p)
      BY <1>1, <1>2, <1>5, <3>1, <3>2 DEF PayrollInv, SoleHandler
    <3> QED BY <1>3, <2>1, <3>3 DEF Employees
  <2>2. CASE q # p
    BY <1>3, <2>2 DEF PayrollInv, CompletedRunAddsUp
  <2> QED BY <2>1, <2>2
<1> QED BY <1>8, <1>9, <1>10, <1>11, <1>12, <1>13 DEF PayrollInv

\* A step that leaves the runs, the payslips and the handlers alone, or creates a run.
LEMMA QuietStep ==
  ASSUME PayrollInv, PayrollTypeOK', UNCHANGED <<payslip, clerk, begun>>,
         run' = run \/ \E p \in Periods : CreateRun(p)
  PROVE  PayrollInv'
<1>1. \A q \in Periods : /\ run'[q].status \in {"none", "DRAFT"} <=> run[q].status \in {"none", "DRAFT"}
                         /\ run'[q].status = "COMPLETED" <=> run[q].status = "COMPLETED"
                         /\ run'[q].counted = run[q].counted
  <2>1. CASE run' = run
    BY <2>1
  <2>2. CASE \E p \in Periods : CreateRun(p)
    <3>1. PICK p \in Periods : run[p] = NoRun /\ run' = [run EXCEPT ![p].status = "DRAFT"]
      BY <2>2 DEF CreateRun
    <3>2. run[p].status = "none" /\ run'[p].status = "DRAFT" /\ run'[p].counted = run[p].counted
      BY <3>1 DEF NoRun, PayrollInv, PayrollTypeOK, Runs
    <3>3. \A q \in Periods : q # p => run'[q] = run[q]
      BY <3>1 DEF PayrollInv, PayrollTypeOK
    <3> QED BY <3>2, <3>3
  <2> QED BY <2>1, <2>2
<1>2. \A q \in Periods : Filed(q)' = Filed(q) /\ (Alone(q)' <=> Alone(q))
  BY DEF Filed, Alone
<1>3. \A d \in Clerks, q \in Periods : Works(d, q)' <=> Works(d, q)
  BY DEF Works
<1>4. Registered' /\ DoneFiled'
  BY <1>3 DEF PayrollInv, Registered, DoneFiled
<1>5. Fresh'
  BY <1>1, <1>2, <1>3 DEF PayrollInv, Fresh
<1>6. SoleHandler'
  BY <1>1, <1>2, <1>3 DEF PayrollInv, SoleHandler
<1>7. CountedPayslipsExist' /\ CompletedRunAddsUp'
  BY <1>1, <1>2 DEF PayrollInv, CountedPayslipsExist, CompletedRunAddsUp
<1> QED BY <1>4, <1>5, <1>6, <1>7 DEF PayrollInv

LEMMA PayrollStep ==
  ASSUME PayrollInv, [NextPayroll]_payrollVars
  PROVE  PayrollInv'
<1>1. PayrollTypeOK'
  BY TypeStep DEF PayrollInv
<1>2. ASSUME NEW e \in Staff, ChangeStatus(e) PROVE PayrollInv'
  BY <1>1, <1>2, QuietStep DEF ChangeStatus
<1>3. ASSUME NEW p \in Periods, CreateRun(p) PROVE PayrollInv'
  BY <1>1, <1>3, QuietStep DEF CreateRun
<1>4. ASSUME NEW c \in Clerks, NEW e \in Staff, NEW pay \in Pays, DeactivateSalary(c, e, pay)
      PROVE PayrollInv'
  <2>1. [at |-> "replace", emp |-> e, pay |-> pay] \in ClerkJobs
    BY DEF ClerkJobs
  <2> QED BY <1>1, <1>4, <2>1, Released DEF DeactivateSalary
<1>5. ASSUME NEW c \in Clerks, InsertSalary(c) PROVE PayrollInv'
  BY <1>1, <1>5, AtDeskJob, Released DEF InsertSalary
<1>6. ASSUME NEW c \in Clerks, ClerkFault(c) PROVE PayrollInv'
  BY <1>1, <1>6, AtDeskJob, Released DEF ClerkFault
<1>7. ASSUME NEW c \in Clerks, Processing(c) PROVE PayrollInv'
  BY <1>1, <1>7, MarkProcessingStep, CollectEmployeesStep, CreatePayslipStep, CompleteRunStep
     DEF Processing
<1>8. CASE UNCHANGED payrollVars
  BY <1>1, <1>8, QuietStep DEF payrollVars
<1> QED BY <1>1, <1>2, <1>3, <1>4, <1>5, <1>6, <1>7, <1>8, ProcessRunStep DEF NextPayroll

LEMMA PayrollStart ==
  ASSUME InitPayroll
  PROVE  PayrollInv
<1>1. PayrollTypeOK
  BY AtDeskJob, ClerkBound DEF InitPayroll, PayrollTypeOK, NoRun, Runs
<1>2. \A c \in Clerks : clerk[c].at = "idle"
  BY AtDeskJob DEF InitPayroll
<1>3. \A p \in Periods : run[p].status = "none" /\ run[p].counted = {} /\ Filed(p) = {}
  BY DEF InitPayroll, NoRun, Filed
<1> QED BY <1>1, <1>2, <1>3
        DEF PayrollInv, Registered, Works, Fresh, DoneFiled, SoleHandler,
            CountedPayslipsExist, CompletedRunAddsUp

LEMMA PayrollInvariant == SpecPayroll => []PayrollInv
  BY PayrollStart, PayrollStep, PTL DEF SpecPayroll

\* What a run has counted was paid out, however handlers race for the run and wherever
\* they stop (payroll.service.ts:231 to :236).
THEOREM CountedIsPaid == SpecPayroll => []CountedPayslipsExist
<1>1. PayrollInv => CountedPayslipsExist
  BY DEF PayrollInv
<1> QED BY <1>1, PayrollInvariant, PTL

\* A completed run that one handler began counts all the payslips it has, also when the
\* handler began it again after a failure before the mark (payroll.service.ts:162 to :254).
THEOREM CompletedRunsAddUp == SpecPayroll => []CompletedRunAddsUp
<1>1. PayrollInv => CompletedRunAddsUp
  BY DEF PayrollInv
<1> QED BY <1>1, PayrollInvariant, PTL

----------------------------------------------------------------------------
(***************************************************************************)
(* How far the limit on the tabs of a user can be passed, for any limit    *)
(* and any number of handlers.                                             *)
(*                                                                         *)
(* A handler on its way to create a tab counts as a tab already.  It comes *)
(* on its way only while the tabs that exist are below the limit, and the  *)
(* other handlers on their way are fewer than the handlers there are; from *)
(* then on it becomes a tab or nothing.                                    *)
(***************************************************************************)

\* Tables and handlers are functions, and every handler is somewhere.
Shaped ==
  /\ tab = [t \in TabIds |-> tab[t]]
  /\ handler = [h \in Handlers |-> handler[h]]
  /\ \A h \in Handlers : "at" \in DOMAIN handler[h]
  /\ made \in Nat

\* A handler on its way keeps an id for its tab.
MadeFits == made + Cardinality(Creating) <= MaxMade

LimitInv == Shaped /\ TabLimit /\ MadeFits

LEMMA Finite == IsFiniteSet(Open) /\ IsFiniteSet(Creating)
<1>1. IsFiniteSet(TabIds)
  BY FS_Interval, TabsAssumption DEF TabIds
<1>2. Open \subseteq TabIds /\ Creating \subseteq Handlers
  BY DEF Open, Creating
<1> QED BY <1>1, <1>2, FS_Subset, TabsAssumption

LEMMA Sizes ==
  /\ Cardinality(Open) \in Nat
  /\ Cardinality(Creating) \in Nat
  /\ Cardinality(Handlers) \in Nat
  /\ Cardinality(Creating) <= Cardinality(Handlers)
<1>1. Creating \subseteq Handlers
  BY DEF Creating
<1> QED BY <1>1, Finite, FS_CardinalityType, FS_Subset, TabsAssumption

\* A step that adds no tab and no handler on its way to one.
LEMMA FewerKeep ==
  ASSUME LimitInv, Open' \subseteq Open, Creating' \subseteq Creating, made' = made
  PROVE  TabLimit' /\ MadeFits'
<1>1. Cardinality(Open') <= Cardinality(Open) /\ Cardinality(Creating') <= Cardinality(Creating)
  BY Finite, FS_Subset
<1>2. Cardinality(Open') \in Nat /\ Cardinality(Creating') \in Nat
  BY Finite, FS_Subset, FS_CardinalityType
<1>3. made \in Nat  BY DEF LimitInv, Shaped
<1> QED BY <1>1, <1>2, <1>3, Sizes, TabsAssumption DEF LimitInv, TabLimit, MadeFits

LEMMA FreePlace == "at" \in DOMAIN Free /\ Free.at \notin {"max", "clear", "create"}
BY DEF Free

\* Where a handler goes, when the others stay where they are.
LEMMA OneGoes ==
  ASSUME Shaped, NEW h \in Handlers, NEW j, handler' = [handler EXCEPT ![h] = j]
  PROVE  /\ handler'[h] = j
         /\ \A g \in Handlers \ {h} : handler'[g] = handler[g]
         /\ handler' = [g \in Handlers |-> handler'[g]]
         /\ j.at \in {"max", "clear", "create"} => Creating' = Creating \cup {h}
         /\ j.at \notin {"max", "clear", "create"} => Creating' = Creating \ {h}
<1>1. /\ handler'[h] = j
      /\ \A g \in Handlers \ {h} : handler'[g] = handler[g]
      /\ handler' = [g \in Handlers |-> handler'[g]]
  BY DEF Shaped
<1> QED BY <1>1 DEF Creating

\* The write of one row of a tab that exists.
LEMMA RowKeeps ==
  ASSUME Shaped, NEW t \in Open, NEW row, tab' = [tab EXCEPT ![t] = row]
  PROVE  Open' \subseteq Open /\ tab' = [u \in TabIds |-> tab'[u]]
BY DEF Shaped, Open

LEMMA InitHolds == ASSUME InitTabs PROVE LimitInv
<1>1. Open = {} /\ Creating = {}
  BY DEF InitTabs, Open, Creating, Free
<1>2. TabLimit
  BY <1>1, FS_EmptySet, Sizes, TabsAssumption DEF TabLimit
<1>3. MadeFits
  BY <1>1, FS_EmptySet, TabsAssumption DEF MadeFits, InitTabs
<1> QED BY <1>2, <1>3 DEF InitTabs, LimitInv, Shaped, Free

----------------------------------------------------------------------------
(* createTab.                                                              *)

LEMMA CountKeeps == ASSUME LimitInv, NEW h \in Handlers, CountTabs(h) PROVE LimitInv'
<1>1. handler' = [handler EXCEPT ![h] = [at |-> "max"]] /\ UNCHANGED <<tab, made>>
  BY DEF CountTabs, Begin
<1>2. Shaped'
  BY <1>1, OneGoes DEF LimitInv, Shaped
<1>3. Open' = Open /\ Creating' \subseteq Handlers
  BY <1>1 DEF Open, Creating
<1>4. Cardinality(Open') < MaxTabs /\ Cardinality(Open') \in Nat
  BY <1>3, Sizes DEF CountTabs, BelowLimit
<1>5. Cardinality(Creating') <= Cardinality(Handlers) /\ Cardinality(Creating') \in Nat
  BY <1>3, FS_Subset, FS_CardinalityType, TabsAssumption
<1>6. TabLimit'
  BY <1>4, <1>5, Sizes, TabsAssumption DEF TabLimit
<1>7. MadeFits'
  <2>1. Creating' = Creating \cup {h}
    BY <1>1, OneGoes DEF LimitInv
  <2>2. Cardinality(Creating') <= Cardinality(Creating) + 1
    <3>1. Cardinality(Creating \cup {h}) = IF h \in Creating THEN Cardinality(Creating) ELSE Cardinality(Creating) + 1
      BY Finite, FS_AddElement, Zenon
    <3> QED BY <2>1, <3>1, Sizes
  <2>3. made + Cardinality(Creating) < MaxMade /\ made' = made /\ made \in Nat
    BY <1>1 DEF CountTabs, LimitInv, Shaped
  <2> QED BY <1>5, <2>2, <2>3, Sizes, TabsAssumption DEF MadeFits
<1> QED BY <1>2, <1>6, <1>7 DEF LimitInv

LEMMA CreateKeeps == ASSUME LimitInv, NEW h \in Handlers, CreateTab(h) PROVE LimitInv'
<1> USE DEF LimitInv
<1>1. handler' = [handler EXCEPT ![h] = Free] /\ h \in Creating
  BY DEF CreateTab, Go, Creating
<1>2. Creating' = Creating \ {h}
  BY <1>1, OneGoes, FreePlace
<1>3. tab' = [t \in TabIds |-> tab'[t]] /\ Open' \subseteq Open \cup {made + 1} /\ made' \in Nat
  BY DEF CreateTab, Shaped, Open
<1>4. Shaped'
  BY <1>1, <1>3, OneGoes, FreePlace DEF Shaped
<1>5. Cardinality(Creating') = Cardinality(Creating) - 1
  BY <1>1, <1>2, Finite, FS_RemoveElement
<1>6. Cardinality(Open \cup {made + 1}) <= Cardinality(Open) + 1 /\ IsFiniteSet(Open \cup {made + 1})
  <2>1. /\ IsFiniteSet(Open \cup {made + 1})
        /\ Cardinality(Open \cup {made + 1}) = IF made + 1 \in Open THEN Cardinality(Open) ELSE Cardinality(Open) + 1
    BY Finite, FS_AddElement, Zenon
  <2> QED BY <2>1, Sizes
<1>7. Cardinality(Open') <= Cardinality(Open \cup {made + 1}) /\ Cardinality(Open') \in Nat
      /\ Cardinality(Open \cup {made + 1}) \in Nat
  BY <1>3, <1>6, FS_Subset, FS_CardinalityType
<1>8. TabLimit'
  BY <1>5, <1>6, <1>7, Sizes, TabsAssumption DEF TabLimit
<1>9. MadeFits'
  <2>1. made' \in {made, made + 1} /\ made \in Nat
    BY DEF CreateTab, Shaped
  <2> QED BY <1>5, <2>1, Sizes, TabsAssumption DEF MadeFits
<1> QED BY <1>4, <1>8, <1>9

----------------------------------------------------------------------------
(* The other steps open no tab.                                            *)

\* A handler goes on to some place, and the tabs stay or are updated.
LEMMA GoingKeeps ==
  ASSUME LimitInv, NEW h \in Handlers, NEW j, handler' = [handler EXCEPT ![h] = j],
         "at" \in DOMAIN j, j.at \in {"max", "clear", "create"} => h \in Creating,
         Open' \subseteq Open, tab' = [t \in TabIds |-> tab'[t]], made' = made
  PROVE  LimitInv'
<1>1. Shaped'
  BY OneGoes DEF LimitInv, Shaped
<1>2. Creating' \subseteq Creating
  BY OneGoes DEF LimitInv
<1> QED BY <1>1, <1>2, FewerKeep DEF LimitInv

LEMMA WriteKeeps ==
  ASSUME LimitInv, NEW h \in Handlers, NEW t, NEW columns, NEW j, Write(h, t, columns, j),
         "at" \in DOMAIN j, j.at \notin {"max", "clear", "create"}, made' = made
  PROVE  LimitInv'
<1>1. CASE t \in Open /\ tab' = [tab EXCEPT ![t] = Updated(@, columns)] /\ Go(h, j)
  <2>1. Open' \subseteq Open /\ tab' = [u \in TabIds |-> tab'[u]]
    BY <1>1, RowKeeps DEF LimitInv
  <2> QED BY <1>1, <2>1, GoingKeeps DEF Go
<1>2. CASE UNCHANGED tab /\ Go(h, Free)
  <2>1. Open' = Open /\ tab' = [u \in TabIds |-> tab'[u]]
    BY <1>2 DEF Open, LimitInv, Shaped
  <2> QED BY <1>2, <2>1, FreePlace, GoingKeeps DEF Go
<1> QED BY <1>1, <1>2 DEF Write

LEMMA DeactivatedKeeps ==
  ASSUME NEW but, tab' = Deactivated(but)
  PROVE  Open' \subseteq Open /\ tab' = [t \in TabIds |-> tab'[t]]
BY DEF Deactivated, Open

\* Nothing but the handler moves.
LEMMA QuietKeeps ==
  ASSUME LimitInv, NEW h \in Handlers, NEW j, handler' = [handler EXCEPT ![h] = j],
         "at" \in DOMAIN j, j.at \in {"max", "clear", "create"} => h \in Creating,
         UNCHANGED <<tab, made>>
  PROVE  LimitInv'
<1>1. Open' = Open /\ tab' = [t \in TabIds |-> tab'[t]]
  BY DEF Open, LimitInv, Shaped
<1> QED BY <1>1, GoingKeeps

LEMMA StepKeeps == ASSUME LimitInv, NextTabs PROVE LimitInv'
<1> PICK h \in Handlers :
      \/ CountTabs(h) \/ FindLast(h) \/ DeactivateAll(h) \/ CreateTab(h)
      \/ \E t \in TabIds : (\E c \in Edits : FindTab(h, t, c)) \/ FindDoomed(h, t)
      \/ DeactivateOthers(h) \/ ReadOrder(h) \/ Shift(h) \/ UpdateTab(h)
      \/ ReadTabs(h) \/ DeleteTab(h) \/ ActivateHeir(h) \/ TabFault(h)
  BY DEF NextTabs
<1> DEFINE j == handler[h]
<1>0. "at" \in DOMAIN j
  BY DEF LimitInv, Shaped
<1>1. CASE CountTabs(h) \/ CreateTab(h)
  BY <1>1, CountKeeps, CreateKeeps
<1>2. CASE FindLast(h)
  <2> DEFINE n == [at |-> "clear", position |-> NextPosition({tab[t].position : t \in Open})]
  <2>1. handler' = [handler EXCEPT ![h] = n] /\ UNCHANGED <<tab, made>> /\ h \in Creating
    BY <1>2 DEF FindLast, Go, Creating
  <2>2. "at" \in DOMAIN n
    OBVIOUS
  <2> HIDE DEF n
  <2> QED BY <2>1, <2>2, QuietKeeps
<1>3. CASE DeactivateAll(h)
  <2> DEFINE n == [j EXCEPT !.at = "create"]
  <2>1. handler' = [handler EXCEPT ![h] = n] /\ h \in Creating
    BY <1>3 DEF DeactivateAll, Go, Creating
  <2>2. "at" \in DOMAIN n
    BY <1>0
  <2>3. tab' = Deactivated(Nothing) /\ made' = made
    BY <1>3 DEF DeactivateAll
  <2>4. Open' \subseteq Open /\ tab' = [t \in TabIds |-> tab'[t]]
    BY <2>3, DeactivatedKeeps
  <2> HIDE DEF n
  <2> QED BY <2>1, <2>2, <2>3, <2>4, GoingKeeps
<1>4. CASE \E t \in TabIds : (\E c \in Edits : FindTab(h, t, c)) \/ FindDoomed(h, t)
  <2>1. PICK t \in TabIds : (\E c \in Edits : FindTab(h, t, c)) \/ FindDoomed(h, t)
    BY <1>4
  <2>2. UNCHANGED <<tab, made>>
    BY <2>1 DEF FindTab, FindDoomed
  <2>3. CASE \E c \in Edits : FindTab(h, t, c)
    <3>1. PICK c \in Edits : FindTab(h, t, c)
      BY <2>3
    <3> DEFINE n == [at |-> IF c.active = TRUE THEN "activate" ELSE "order",
                     id |-> t, old |-> tab[t].position, change |-> c]
    <3>2. handler' = [handler EXCEPT ![h] = n]
      BY <3>1 DEF FindTab, Begin
    <3>3. "at" \in DOMAIN n /\ n.at \in {"activate", "order"}
      OBVIOUS
    <3> HIDE DEF n
    <3> QED BY <2>2, <3>2, <3>3, QuietKeeps
  <2>4. CASE FindDoomed(h, t)
    <3> DEFINE n == [at |-> "list", id |-> t, row |-> tab[t]]
    <3>1. handler' = [handler EXCEPT ![h] = n]
      BY <2>4 DEF FindDoomed, Begin
    <3>2. "at" \in DOMAIN n /\ n.at = "list"
      OBVIOUS
    <3> HIDE DEF n
    <3> QED BY <2>2, <3>1, <3>2, QuietKeeps
  <2> QED BY <2>1, <2>3, <2>4
<1>5. CASE DeactivateOthers(h)
  <2>1. handler' = [handler EXCEPT ![h] = [j EXCEPT !.at = "order"]]
    BY <1>5 DEF DeactivateOthers, Go
  <2>2. "at" \in DOMAIN [j EXCEPT !.at = "order"] /\ [j EXCEPT !.at = "order"].at = "order"
    BY <1>0
  <2> QED BY <1>5, <2>1, <2>2, DeactivatedKeeps, GoingKeeps DEF DeactivateOthers
<1>6. CASE ReadOrder(h)
  <2> DEFINE todo == IF j.change.position \in {Nothing, j.old} THEN <<>>
                     ELSE Loop(Between(j.old, j.change.position), IF j.change.position > j.old THEN -1 ELSE 1)
  <2> DEFINE n == [at |-> "shift", id |-> j.id, change |-> j.change, todo |-> todo]
  <2>1. handler' = [handler EXCEPT ![h] = n] /\ UNCHANGED <<tab, made>>
    BY <1>6 DEF ReadOrder, Go
  <2> HIDE DEF todo
  <2>2. "at" \in DOMAIN n /\ n.at = "shift"
    OBVIOUS
  <2> HIDE DEF n
  <2> QED BY <2>1, <2>2, QuietKeeps
<1>7. CASE Shift(h)
  <2> DEFINE n == [j EXCEPT !.todo = Tail(@)]
  <2>1. "at" \in DOMAIN n /\ n.at = "shift"
    BY <1>0, <1>7 DEF Shift
  <2> QED BY <1>7, <2>1, WriteKeeps DEF Shift
<1>8. CASE UpdateTab(h)
  BY <1>8, FreePlace, WriteKeeps DEF UpdateTab
<1>9. CASE ReadTabs(h)
  <2> DEFINE heir == IF j.row.active THEN Neighbour(j.id) ELSE Nothing
  <2> DEFINE todo == Loop({t \in Open : tab[t].position > j.row.position}, -1)
  <2> DEFINE n == [at |-> "delete", id |-> j.id, change |-> Nothing, heir |-> heir, todo |-> todo]
  <2>1. /\ \/ handler' = [handler EXCEPT ![h] = Free]
           \/ handler' = [handler EXCEPT ![h] = n]
        /\ UNCHANGED <<tab, made>>
    BY <1>9 DEF ReadTabs, Go
  <2> HIDE DEF heir, todo
  <2>2. "at" \in DOMAIN n /\ n.at = "delete"
    OBVIOUS
  <2> HIDE DEF n
  <2> QED BY <2>1, <2>2, FreePlace, QuietKeeps
<1>10. CASE DeleteTab(h)
  <2>1. CASE j.id \in Open
    <3> DEFINE n == [j EXCEPT !.at = "shift"]
    <3>1. tab' = [tab EXCEPT ![j.id] = Nothing] /\ handler' = [handler EXCEPT ![h] = n] /\ made' = made
      BY <1>10, <2>1 DEF DeleteTab, Go
    <3>2. "at" \in DOMAIN n /\ n.at = "shift"
      BY <1>0
    <3>3. Open' \subseteq Open /\ tab' = [t \in TabIds |-> tab'[t]]
      BY <2>1, <3>1, RowKeeps DEF LimitInv
    <3> QED BY <3>1, <3>2, <3>3, GoingKeeps
  <2>2. CASE j.id \notin Open
    <3>1. handler' = [handler EXCEPT ![h] = Free] /\ UNCHANGED <<tab, made>>
      BY <1>10, <2>2 DEF DeleteTab, Go
    <3> QED BY <3>1, FreePlace, QuietKeeps
  <2> QED BY <2>1, <2>2
<1>11. CASE ActivateHeir(h)
  <2>1. CASE j.heir = Nothing
    <3>1. handler' = [handler EXCEPT ![h] = Free] /\ UNCHANGED <<tab, made>>
      BY <1>11, <2>1 DEF ActivateHeir, Go
    <3> QED BY <3>1, FreePlace, QuietKeeps
  <2>2. CASE j.heir # Nothing
    BY <1>11, <2>2, FreePlace, WriteKeeps DEF ActivateHeir
  <2> QED BY <2>1, <2>2
<1>12. CASE TabFault(h)
  <2>1. handler' = [handler EXCEPT ![h] = Free] /\ UNCHANGED <<tab, made>>
    BY <1>12 DEF TabFault
  <2> QED BY <2>1, FreePlace, QuietKeeps
<1> QED BY <1>1, <1>2, <1>3, <1>4, <1>5, <1>6, <1>7, <1>8, <1>9, <1>10, <1>11, <1>12

\* The limit on a user's tabs is passed only by handlers that had counted before another
\* created, however requests interleave and wherever they stop (tabs.service.ts:26).
THEOREM LimitPassedByHandlersOnly == SpecTabs => []TabLimit
<1>1. InitTabs => LimitInv
  BY InitHolds
<1>2. LimitInv /\ [NextTabs]_tabsVars => LimitInv'
  <2>1. CASE UNCHANGED tabsVars
    BY <2>1 DEF tabsVars, LimitInv, Shaped, TabLimit, MadeFits, Open, Creating
  <2> QED BY <2>1, StepKeeps
<1>3. LimitInv => TabLimit
  BY DEF LimitInv
<1> QED BY <1>1, <1>2, <1>3, PTL DEF SpecTabs

(***************************************************************************)
(* Requests about the tabs that come one after the other leave them in     *)
(* order, for any number of tabs and wherever a request stops.             *)
(*                                                                         *)
(* Positions differ whatever happens: that is the unique index.  While     *)
(* handlers have not overlapped, the invariant says for the one that is    *)
(* busy what its next calls rely on: the place it read is free, the other  *)
(* tabs are hidden, and the moves that are left go upwards through all     *)
(* tabs above the gap, each to the place that the one before it left.      *)
(***************************************************************************)

\* A row of the table.
Row == [position : Nat, active : BOOLEAN]

\* A round of a loop: the tab and where it goes.
Moves == [id : TabIds, to : Nat]

\* The table, also while handlers overlap.
RowsTyped == /\ tab = [t \in TabIds |-> tab[t]]
             /\ \A t \in Open : tab[t] \in Row
             /\ made \in Nat /\ Open \subseteq 1..made

\* What a handler knows where it is.
JobTyped(j) ==
  /\ "at" \in DOMAIN j
  /\ j.at \in {"free", "max", "clear", "create", "activate", "order", "shift", "list", "delete"}
  /\ j.at \in {"clear", "create"} => "position" \in DOMAIN j /\ j.position \in Nat
  /\ j.at \in {"activate", "order"} =>
       {"id", "old", "change"} \subseteq DOMAIN j /\ j.id \in TabIds /\ j.old \in Nat /\ j.change \in Edits
  /\ j.at = "list" => j.row \in Row /\ j.id \in TabIds
  /\ j.at = "delete" => {"id", "change", "heir", "todo"} \subseteq DOMAIN j /\ j.id \in TabIds /\ j.change = Nothing
  /\ j.at = "shift" => /\ {"id", "change", "todo"} \subseteq DOMAIN j /\ j.id \in TabIds
                       /\ j.change \in Edits \cup {Nothing}
                       /\ j.change = Nothing => "heir" \in DOMAIN j
  /\ j.at \in {"delete", "shift"} => j.todo \in Seq(Moves)

\* The unique index.
Apart == \A t, u \in Open : tab[t].position = tab[u].position => t = u

\* One handler at a time.
Sole == \A g, h \in Handlers : handler[g] # Free /\ handler[h] # Free => g = h

\* No tab is shown but t.
Only(t) == \A u \in Open : tab[u].active => u = t

\* No tab is shown ...
NoneShown == \A u \in Open : ~tab[u].active

\* ... or one at most.
AtMostOne == \A t, u \in Open : tab[t].active /\ tab[u].active => t = u

\* The moves that are left close the gap below the tabs of S.
Closes(todo, S) ==
  /\ \A i \in DOMAIN todo : todo[i].id \in S /\ tab[todo[i].id].position = todo[i].to + 1
  /\ \A i, k \in DOMAIN todo : i < k => todo[i].to < todo[k].to
  /\ \A t \in S : \/ \E i \in DOMAIN todo : todo[i].id = t
                  \/ \A i \in DOMAIN todo : tab[t].position < todo[i].to

\* What the next calls of the only busy handler rely on.
JobOrderly(j) ==
  /\ j.at \in {"clear", "create"} => Fits(Nothing, j.position)
  /\ j.at = "create" => NoneShown
  /\ j.at \in {"order", "shift"} /\ j.change # Nothing /\ j.change.active = TRUE => Only(j.id)
  /\ j.at = "list" => j.id \in Open /\ j.row = tab[j.id]
  /\ j.at = "delete" => j.id \in Open /\ Closes(j.todo, Open \ {j.id}) /\ (j.heir # Nothing => Only(j.id))
  /\ j.at = "shift" /\ j.change = Nothing => Closes(j.todo, Open) /\ (j.heir # Nothing => NoneShown)

OrderInv ==
  /\ RowsTyped
  /\ \A h \in Handlers : JobTyped(handler[h])
  /\ handler = [h \in Handlers |-> handler[h]]
  /\ Apart
  /\ ~mixed => Sole /\ AtMostOne /\ \A h \in Handlers : JobOrderly(handler[h])

----------------------------------------------------------------------------
(* Tabs in the order of their positions.                                   *)

LEMMA OpenFinite ==
  ASSUME NEW S \in SUBSET Open
  PROVE  IsFiniteSet(S) /\ Cardinality(S) \in Nat /\ S \subseteq TabIds
<1>1. IsFiniteSet(TabIds)  BY FS_Interval, TabsAssumption DEF TabIds
<1>2. S \subseteq TabIds  BY DEF Open
<1> QED BY <1>1, <1>2, FS_Subset, FS_CardinalityType

\* Positions differ, so every tab of a set has a rank of its own and every rank is taken.
LEMMA SortedIs ==
  ASSUME RowsTyped, Apart, NEW S \in SUBSET Open
  PROVE  /\ \A i \in 1..Cardinality(S) : Sorted(S)[i] \in S
         /\ \A i, k \in 1..Cardinality(S) :
              i < k => tab[Sorted(S)[i]].position < tab[Sorted(S)[k]].position
         /\ \A t \in S : \E i \in 1..Cardinality(S) : Sorted(S)[i] = t
<1> DEFINE n == Cardinality(S)
           Below(t) == {u \in S : tab[u].position <= tab[t].position}
           Rank(t) == Cardinality(Below(t))
<1>1. IsFiniteSet(S) /\ n \in Nat  BY OpenFinite
<1>2. \A t \in S : tab[t].position \in Nat  BY DEF RowsTyped, Row
<1>3. ASSUME NEW t \in S PROVE Rank(t) \in 1..n /\ IsFiniteSet(Below(t))
  <2>1. Below(t) \subseteq S /\ t \in Below(t)  BY <1>2
  <2>2. IsFiniteSet(Below(t)) /\ Rank(t) \in Nat /\ Rank(t) <= n  BY <1>1, <2>1, FS_Subset, FS_CardinalityType
  <2>3. Rank(t) # 0  BY <2>1, <2>2, FS_EmptySet
  <2> QED BY <1>1, <2>2, <2>3
<1>4. ASSUME NEW t \in S, NEW u \in S, tab[t].position < tab[u].position PROVE Rank(t) < Rank(u)
  <2>1. Below(t) \subseteq Below(u) /\ u \in Below(u) /\ u \notin Below(t)  BY <1>2, <1>4
  <2>2. Rank(t) <= Rank(u) /\ Rank(t) # Rank(u)  BY <1>3, <2>1, FS_Subset
  <2>3. Rank(t) \in Int /\ Rank(u) \in Int  BY <1>3, <1>1
  <2> QED BY <2>2, <2>3
<1>5. ASSUME NEW t \in S, NEW u \in S, Rank(t) = Rank(u) PROVE t = u
  <2>1. Rank(t) \in Int /\ Rank(u) \in Int  BY <1>3, <1>1
  <2>2. ~(tab[t].position < tab[u].position) /\ ~(tab[u].position < tab[t].position)
    <3> HIDE DEF Rank
    <3>1. ~(Rank(t) < Rank(u)) /\ ~(Rank(u) < Rank(t))  BY <1>5, <2>1
    <3> QED BY <1>4, <3>1
  <2>3. tab[t].position = tab[u].position  BY <1>2, <2>2
  <2> QED BY <2>3 DEF Apart
<1> DEFINE rank == [t \in S |-> Rank(t)]
<1>6. rank \in Surjection(S, 1..n)
  <2> HIDE DEF Rank
  <2>1. rank \in Injection(S, 1..n)  BY <1>3, <1>5 DEF Injection, IsInjective
  <2>2. IsFiniteSet(1..n) /\ Cardinality(1..n) = n  BY <1>1, FS_Interval
  <2> HIDE DEF rank
  <2> QED BY <1>1, <2>1, <2>2, FS_Injection
<1>7. ASSUME NEW i \in 1..n PROVE Sorted(S)[i] \in S /\ Rank(Sorted(S)[i]) = i
  <2>1. \E t \in S : Rank(t) = i  
    <3> HIDE DEF Rank
    <3> QED BY <1>6 DEF Surjection
  <2>2. Sorted(S)[i] = CHOOSE t \in S : Rank(t) = i  BY DEF Sorted
  <2> HIDE DEF Rank
  <2> QED BY <2>1, <2>2
<1>8. ASSUME NEW i \in 1..n, NEW k \in 1..n, i < k
      PROVE  tab[Sorted(S)[i]].position < tab[Sorted(S)[k]].position
  <2> DEFINE t == Sorted(S)[i]  u == Sorted(S)[k]
  <2>1. t \in S /\ u \in S /\ Rank(t) = i /\ Rank(u) = k  BY <1>7
  <2> HIDE DEF t, u, Rank
  <2>2. ~(tab[u].position < tab[t].position)  BY <1>4, <1>8, <2>1
  <2>3. tab[u].position # tab[t].position  BY <1>8, <2>1 DEF Apart
  <2>4. tab[t].position < tab[u].position  BY <1>2, <2>1, <2>2, <2>3
  <2> QED BY <2>4 DEF t, u
<1>9. ASSUME NEW t \in S PROVE \E i \in 1..n : Sorted(S)[i] = t
  <2> HIDE DEF Rank
  <2>1. Rank(t) \in 1..n  BY <1>3
  <2>2. Sorted(S)[Rank(t)] = t  BY <1>5, <1>7, <2>1
  <2> QED BY <2>1, <2>2
<1> QED BY <1>7, <1>8, <1>9

\* A loop moves tabs to places.
LEMMA LoopTyped ==
  ASSUME RowsTyped, Apart, NEW S \in SUBSET Open, NEW by \in {-1, 1},
         by = -1 => \A t \in S : tab[t].position > 0
  PROVE  Loop(S, by) \in Seq(Moves)
<1> DEFINE n == Cardinality(S)
<1>1. n \in Nat  BY OpenFinite
<1>2. ASSUME NEW i \in 1..n PROVE [id |-> Sorted(S)[i], to |-> tab[Sorted(S)[i]].position + by] \in Moves
  <2>1. PICK t \in S : t = Sorted(S)[i]  BY <1>2, SortedIs
  <2>2. t \in TabIds /\ tab[t].position \in Nat  BY DEF RowsTyped, Row, Open
  <2>3. tab[t].position + by \in Nat  BY <2>2
  <2> QED BY <2>1, <2>2, <2>3 DEF Moves
<1>3. Loop(S, by) = [i \in 1..n |-> [id |-> Sorted(S)[i], to |-> tab[Sorted(S)[i]].position + by]]
  BY DEF Loop
<1> HIDE DEF n
<1>4. Loop(S, by) \in [1..n -> Moves]  BY <1>2, <1>3
<1> HIDE DEF Loop
<1> QED BY <1>1, <1>4 DEF Seq

\* The loop after a deletion closes the gap that the tab leaves.
LEMMA LoopCloses ==
  ASSUME RowsTyped, Apart, NEW doomed \in Open
  PROVE  LET S == {t \in Open : tab[t].position > tab[doomed].position}
         IN  Loop(S, -1) \in Seq(Moves) /\ Closes(Loop(S, -1), Open \ {doomed})
<1> DEFINE S == {t \in Open : tab[t].position > tab[doomed].position}
           n == Cardinality(S)
           todo == Loop(S, -1)
<1>1. \A t \in Open : tab[t].position \in Nat  BY DEF RowsTyped, Row
<1>2. S \in SUBSET Open /\ \A t \in S : tab[t].position > 0  BY <1>1
<1>3. n \in Nat /\ \A i \in 1..n : Sorted(S)[i] \in S  BY <1>2, OpenFinite, SortedIs
<1>4. /\ DOMAIN todo = 1..n
      /\ \A i \in 1..n : todo[i].id = Sorted(S)[i] /\ todo[i].to = tab[Sorted(S)[i]].position - 1
  <2> HIDE DEF S
  <2> QED BY <1>3 DEF Loop
<1>5. \A i, k \in 1..n : i < k => tab[Sorted(S)[i]].position < tab[Sorted(S)[k]].position
  <2> HIDE DEF S
  <2> QED BY <1>2, SortedIs
<1>6. \A t \in S : \E i \in 1..n : Sorted(S)[i] = t
  <2> HIDE DEF S
  <2> QED BY <1>2, SortedIs
<1> HIDE DEF todo, n
<1>7. \A i \in DOMAIN todo : todo[i].id \in Open \ {doomed} /\ tab[todo[i].id].position = todo[i].to + 1
  <2>1. doomed \notin S  BY <1>1
  <2>2. \A i \in 1..n : Sorted(S)[i] \in Open \ {doomed} /\ tab[Sorted(S)[i]].position \in Int
    BY <1>1, <1>2, <1>3, <2>1
  <2> HIDE DEF S
  <2> QED BY <1>4, <2>2
<1>8. \A i, k \in DOMAIN todo : i < k => todo[i].to < todo[k].to
  <2>1. \A i \in 1..n : tab[Sorted(S)[i]].position \in Int  BY <1>1, <1>3
  <2> HIDE DEF S
  <2> QED BY <1>4, <1>5, <2>1
<1>9. ASSUME NEW t \in Open \ {doomed}, \A i \in DOMAIN todo : todo[i].id # t, NEW i \in DOMAIN todo
      PROVE  tab[t].position < todo[i].to
  <2>1. t \notin S  BY <1>4, <1>6, <1>9
  <2>2. tab[t].position < tab[doomed].position  BY <1>1, <1>9, <2>1 DEF Apart
  <2>3. tab[Sorted(S)[i]].position > tab[doomed].position /\ tab[Sorted(S)[i]].position \in Nat  BY <1>1, <1>3, <1>4
  <2> QED BY <1>1, <1>4, <2>2, <2>3
<1>10. Closes(todo, Open \ {doomed})  BY <1>7, <1>8, <1>9 DEF Closes
<1>11. Loop(S, -1) \in Seq(Moves)
  <2> HIDE DEF S
  <2> QED BY <1>2, LoopTyped
<1> QED BY <1>10, <1>11 DEF todo

----------------------------------------------------------------------------
(* What a step may do to the handlers and to the table.                    *)

LEMMA NothingIsNoRow == Nothing \notin Nat /\ Nothing \notin Row /\ Nothing \notin TabIds /\ Nothing \notin Open
  BY TabsAssumption DEF Row, TabIds, Open

LEMMA FreeIsOrderly == JobTyped(Free) /\ JobOrderly(Free) /\ JobOrderly(Free)'
<1>1. "at" \in DOMAIN Free /\ Free.at = "free"  BY DEF Free
<1> HIDE DEF Free
<1> QED BY <1>1 DEF JobTyped, JobOrderly

\* A request comes in: the tabs stay.
LEMMA Begins ==
  ASSUME OrderInv, NEW h \in Handlers, NEW j, Begin(h, j), UNCHANGED <<tab, made>>,
         JobTyped(j), ~mixed => JobOrderly(j)
  PROVE  OrderInv'
<1>1. handler' = [handler EXCEPT ![h] = j] /\ handler[h] = Free  BY DEF Begin
<1>2. /\ handler' = [g \in Handlers |-> handler'[g]]
      /\ handler'[h] = j /\ \A g \in Handlers \ {h} : handler'[g] = handler[g]
  BY <1>1 DEF OrderInv
<1>3. Open' = Open  BY DEF Open
<1>4. RowsTyped' /\ Apart'  BY <1>3 DEF OrderInv, RowsTyped, Apart
<1>5. \A g \in Handlers : JobTyped(handler'[g])  BY <1>2 DEF OrderInv
<1>6. ASSUME ~mixed' PROVE Sole' /\ AtMostOne' /\ \A g \in Handlers : JobOrderly(handler[g])'
  <2>1. ~mixed /\ \A g \in Handlers \ {h} : handler[g] = Free
    BY <1>6 DEF Begin
  <2>2. Sole'  BY <1>2, <2>1 DEF Sole
  <2>3. AtMostOne'  BY <1>3, <2>1 DEF OrderInv, AtMostOne
  <2>4. ASSUME NEW k, JobOrderly(k) PROVE JobOrderly(k)'
    BY <1>3, <2>4 DEF JobOrderly, Fits, NoneShown, Only, Closes
  <2>5. ASSUME NEW g \in Handlers PROVE JobOrderly(handler[g])'
    <3>1. JobOrderly(handler'[g])  BY <1>2, <2>1, FreeIsOrderly
    <3>2. PICK k : k = handler'[g]  OBVIOUS
    <3>3. JobOrderly(k)'  BY <2>4, <3>1, <3>2
    <3> QED BY <3>2, <3>3 DEF JobOrderly
  <2> QED BY <2>2, <2>3, <2>5
<1> QED BY <1>2, <1>4, <1>5, <1>6 DEF OrderInv

\* A handler that is somewhere goes on.
LEMMA GoesOn ==
  ASSUME OrderInv, NEW h \in Handlers, handler[h] # Free, NEW j, handler' = [handler EXCEPT ![h] = j], mixed' = mixed,
         JobTyped(j), RowsTyped', Apart', ~mixed => AtMostOne' /\ JobOrderly(j)'
  PROVE  OrderInv'
<1>1. handler' = [handler EXCEPT ![h] = j] /\ mixed' = mixed  OBVIOUS
<1>2. /\ handler' = [g \in Handlers |-> handler'[g]]
      /\ handler'[h] = j /\ \A g \in Handlers \ {h} : handler'[g] = handler[g]
  BY <1>1 DEF OrderInv
<1>3. \A g \in Handlers : JobTyped(handler'[g])  BY <1>2 DEF OrderInv
<1>4. ASSUME ~mixed' PROVE Sole' /\ AtMostOne' /\ \A g \in Handlers : JobOrderly(handler[g])'
  <2>1. \A g \in Handlers \ {h} : handler[g] = Free  BY <1>1, <1>4 DEF OrderInv, Sole
  <2>2. Sole'  BY <1>2, <2>1 DEF Sole
  <2>3. AtMostOne' /\ JobOrderly(j)'  BY <1>1, <1>4
  <2>4. ASSUME NEW g \in Handlers PROVE JobOrderly(handler[g])'
    <3>1. handler'[g] = j \/ handler'[g] = Free  BY <1>2, <2>1
    <3> QED BY <2>3, <3>1, FreeIsOrderly DEF JobOrderly
  <2> QED BY <2>2, <2>3, <2>4
<1> QED BY <1>2, <1>3, <1>4 DEF OrderInv

\* ... or stops.
LEMMA Stops ==
  ASSUME OrderInv, NEW h \in Handlers, handler[h] # Free, handler' = [handler EXCEPT ![h] = Free], mixed' = mixed,
         RowsTyped', Apart', ~mixed => AtMostOne'
  PROVE  OrderInv'
BY GoesOn, FreeIsOrderly

\* The tabs stay.
LEMMA TabsStay ==
  ASSUME OrderInv, UNCHANGED <<tab, made>>
  PROVE  /\ Open' = Open /\ RowsTyped' /\ Apart' /\ (~mixed => AtMostOne')
         /\ \A j : JobOrderly(j) => JobOrderly(j)'
<1>1. Open' = Open  BY DEF Open
<1>2. RowsTyped' /\ Apart' /\ (~mixed => AtMostOne')
  BY <1>1 DEF OrderInv, RowsTyped, Apart, AtMostOne
<1>3. ASSUME NEW k, JobOrderly(k) PROVE JobOrderly(k)'
  BY <1>1, <1>3 DEF JobOrderly, Fits, NoneShown, Only, Closes
<1> QED BY <1>1, <1>2, <1>3

\* Some tabs are not shown any more.
LEMMA Hidden ==
  ASSUME OrderInv, NEW but, tab' = Deactivated(but), UNCHANGED made
  PROVE  /\ Open' = Open /\ RowsTyped' /\ Apart' /\ AtMostOne' /\ Only(but)'
         /\ \A t \in Open : tab'[t].position = tab[t].position
<1>1. tab' = [t \in TabIds |-> tab'[t]] /\ \A t \in TabIds : tab'[t] = IF t \in Open \ {but} THEN [tab[t] EXCEPT !.active = FALSE] ELSE tab[t]
  BY Zenon DEF Deactivated
<1>2. ASSUME NEW t \in Open \ {but}
      PROVE  tab'[t] \in Row /\ tab'[t].position = tab[t].position /\ tab'[t].active = FALSE
  <2>1. tab[t] \in Row /\ t \in TabIds  BY DEF OrderInv, RowsTyped, Open
  <2>2. tab'[t] = [tab[t] EXCEPT !.active = FALSE]  BY <1>1, <2>1
  <2> QED BY <2>1, <2>2 DEF Row
<1>3. \A t \in Open : tab[t] \in Row /\ t \in TabIds  BY DEF OrderInv, RowsTyped, Open
<1>4. \A t \in TabIds \ Open : tab'[t] = Nothing  BY <1>1 DEF Open
<1>5. \A t \in Open : tab'[t].position = tab[t].position /\ tab'[t] \in Row
  <2>1. \A t \in Open : t = but => tab'[t] = tab[t]  BY <1>1, <1>3
  <2> QED BY <1>2, <1>3, <2>1
<1>6. Open' = Open
  <2>1. \A t \in TabIds : tab'[t] # Nothing <=> t \in Open  BY <1>4, <1>5, NothingIsNoRow
  <2> QED BY <2>1, <1>3 DEF Open
<1>7. RowsTyped' /\ Apart'
  <2>1. tab' = [t \in TabIds |-> tab'[t]]  BY <1>1
  <2>2. RowsTyped'  BY <1>5, <1>6, <2>1 DEF OrderInv, RowsTyped
  <2>3. Apart'  BY <1>5, <1>6 DEF OrderInv, Apart
  <2> QED BY <2>2, <2>3
<1>8. Only(but)'  BY <1>2, <1>6 DEF Only
<1>9. AtMostOne'  BY <1>8 DEF AtMostOne, Only
<1> QED BY <1>5, <1>6, <1>7, <1>8, <1>9

\* What an update names.
Columns == [position : Nat \cup {Nothing}, active : BOOLEAN \cup {Nothing}]

\* A row is updated, and the handler goes on; or it stops.
LEMMA Writes ==
  ASSUME OrderInv, NEW h \in Handlers, handler[h] # Free, NEW t, NEW c \in Columns, NEW j,
         Write(h, t, c, j), UNCHANGED made
  PROVE  \/ OrderInv'
         \/ /\ t \in Open /\ (c.position # Nothing => Fits(t, c.position)) /\ Go(h, j)
            /\ Open' = Open /\ RowsTyped' /\ Apart'
            /\ \A u \in Open \ {t} : tab'[u] = tab[u]
            /\ tab'[t] = Updated(tab[t], c)
<1>1. CASE UNCHANGED tab /\ Go(h, Free)  BY <1>1, TabsStay, Stops DEF Go
<1>2. CASE /\ t \in Open /\ (c.position # Nothing => Fits(t, c.position))
           /\ tab' = [tab EXCEPT ![t] = Updated(@, c)] /\ Go(h, j)
  <2>0. tab[t] \in Row /\ t \in TabIds  BY <1>2 DEF OrderInv, RowsTyped, Open
  <2>1. /\ tab' = [u \in TabIds |-> tab'[u]] /\ tab'[t] = Updated(tab[t], c)
        /\ \A u \in TabIds \ {t} : tab'[u] = tab[u]
    BY <1>2, <2>0 DEF OrderInv, RowsTyped
  <2>2. Updated(tab[t], c) \in Row  BY <2>0 DEF Columns, Row, Updated
  <2>3. Open' = Open  BY <1>2, <2>1, <2>2, NothingIsNoRow DEF Open
  <2>4. \A u \in Open \ {t} : tab'[u] = tab[u]  BY <2>1 DEF Open
  <2>5. RowsTyped'  BY <2>1, <2>2, <2>3, <2>4 DEF OrderInv, RowsTyped
  <2>6. Updated(tab[t], c).position = IF c.position = Nothing THEN tab[t].position ELSE c.position
    BY DEF Updated
  <2>7. ASSUME NEW u \in Open \ {t} PROVE tab[u].position # tab'[t].position
    <3>1. CASE c.position = Nothing  BY <1>2, <2>1, <2>6, <3>1 DEF OrderInv, Apart
    <3>2. CASE c.position # Nothing  BY <1>2, <2>1, <2>6, <3>2 DEF Fits
    <3> QED BY <3>1, <3>2
  <2>8. Apart'  BY <2>3, <2>4, <2>7 DEF OrderInv, Apart
  <2> QED BY <1>2, <2>1, <2>3, <2>4, <2>5, <2>8
<1> QED BY <1>1, <1>2 DEF Write

----------------------------------------------------------------------------
(* createTab.                                                              *)

LEMMA Busy ==
  ASSUME NEW h \in Handlers, handler[h].at # "free"
  PROVE  handler[h] # Free
BY DEF Free

\* The place after the last tab is free.
LEMMA NextPositionIs ==
  ASSUME RowsTyped, Apart
  PROVE  LET p == NextPosition({tab[t].position : t \in Open}) IN p \in Nat /\ Fits(Nothing, p)
<1> DEFINE P == {tab[t].position : t \in Open}  n == Cardinality(Open)
<1>1. \A t \in Open : tab[t].position \in Nat  BY DEF RowsTyped, Row
<1>2. CASE P = {}
  <2>1. Open = {} /\ NextPosition(P) = 0  BY <1>2 DEF NextPosition
  <2> QED BY <2>1 DEF Fits
<1>3. CASE P # {}
  <2>1. n \in Nat /\ n # 0
    <3>1. Open # {}  BY <1>3
    <3> QED BY <3>1, OpenFinite, FS_EmptySet
  <2>2. PICK last \in Open : last = Sorted(Open)[n]  BY <2>1, SortedIs
  <2>3. ASSUME NEW t \in Open PROVE tab[t].position <= tab[last].position
    <3>1. PICK i \in 1..n : Sorted(Open)[i] = t  BY SortedIs
    <3>2. CASE i = n  BY <1>1, <2>2, <3>1, <3>2
    <3>3. CASE i < n
      <4>1. n \in 1..n  BY <2>1
      <4>2. tab[Sorted(Open)[i]].position < tab[Sorted(Open)[n]].position  BY <3>3, <4>1, SortedIs
      <4> HIDE DEF n
      <4> QED BY <1>1, <2>2, <3>1, <4>2
    <3> HIDE DEF n
    <3> QED BY <2>1, <3>2, <3>3
  <2>4. PICK m : m = CHOOSE p \in P : \A q \in P : q <= p  OBVIOUS
  <2>5. \E p \in P : \A q \in P : q <= p  BY <2>3
  <2>6. m \in P /\ \A q \in P : q <= m  BY <2>4, <2>5
  <2>7. NextPosition(P) = m + 1  BY <1>3, <2>4 DEF NextPosition
  <2>8. m \in Nat  BY <1>1, <2>6
  <2>9. ASSUME NEW t \in Open PROVE tab[t].position # m + 1
    <3>1. tab[t].position <= m  BY <2>6
    <3>2. tab[t].position \in Nat  BY <1>1
    <3> QED BY <2>8, <3>1, <3>2
  <2> HIDE DEF P
  <2> QED BY <2>7, <2>8, <2>9 DEF Fits, P
<1> QED BY <1>2, <1>3

LEMMA CountOrderly == ASSUME OrderInv, NEW h \in Handlers, CountTabs(h) PROVE OrderInv'
<1>1. PICK j : j = [at |-> "max"]  OBVIOUS
<1>2. JobTyped(j) /\ JobOrderly(j)  BY <1>1 DEF JobTyped, JobOrderly
<1>3. Begin(h, j) /\ UNCHANGED <<tab, made>>  BY <1>1 DEF CountTabs
<1> QED BY <1>2, <1>3, Begins

LEMMA FindLastOrderly == ASSUME OrderInv, NEW h \in Handlers, FindLast(h) PROVE OrderInv'
<1>1. PICK p : p = NextPosition({tab[t].position : t \in Open})  OBVIOUS
<1>2. p \in Nat /\ Fits(Nothing, p)  BY <1>1, NextPositionIs DEF OrderInv
<1>3. PICK j : j = [at |-> "clear", position |-> p]  OBVIOUS
<1>4. JobTyped(j) /\ JobOrderly(j)  BY <1>2, <1>3 DEF JobTyped, JobOrderly
<1>5. Go(h, j) /\ UNCHANGED <<tab, made>>  BY <1>1, <1>3 DEF FindLast
<1>6. handler[h] # Free  BY Busy DEF FindLast
<1> QED BY <1>4, <1>5, <1>6, TabsStay, GoesOn DEF Go

LEMMA DeactivateAllOrderly == ASSUME OrderInv, NEW h \in Handlers, DeactivateAll(h) PROVE OrderInv'
<1>1. PICK i : i = handler[h]  OBVIOUS
<1>2. JobTyped(i) /\ i.at = "clear"  BY <1>1 DEF DeactivateAll, OrderInv
<1>3. PICK j : j = [i EXCEPT !.at = "create"]  OBVIOUS
<1>4. "at" \in DOMAIN j /\ j.at = "create" /\ "position" \in DOMAIN j /\ j.position = i.position /\ i.position \in Nat
  BY <1>2, <1>3 DEF JobTyped
<1>5. Go(h, j) /\ tab' = Deactivated(Nothing) /\ made' = made  BY <1>1, <1>3 DEF DeactivateAll
<1>6. handler[h] # Free  BY Busy DEF DeactivateAll
<1>7. /\ Open' = Open /\ RowsTyped' /\ Apart' /\ AtMostOne' /\ Only(Nothing)'
      /\ \A t \in Open : tab'[t].position = tab[t].position
  BY <1>5, Hidden
<1>8. ASSUME ~mixed PROVE JobOrderly(j)'
  <2>1. Fits(Nothing, i.position)  BY <1>1, <1>2, <1>8 DEF OrderInv, JobOrderly
  <2>2. Fits(Nothing, j.position)'  BY <1>4, <1>7, <2>1 DEF Fits
  <2>3. NoneShown'  BY <1>7, NothingIsNoRow DEF Only, NoneShown
  <2> QED BY <1>4, <2>2, <2>3 DEF JobOrderly
<1>9. JobTyped(j)  BY <1>4 DEF JobTyped
<1> QED BY <1>5, <1>6, <1>7, <1>8, <1>9, GoesOn DEF Go

LEMMA CreateOrderly == ASSUME OrderInv, NEW h \in Handlers, CreateTab(h) PROVE OrderInv'
<1>1. PICK i : i = handler[h]  OBVIOUS
<1>2. JobTyped(i) /\ i.at = "create" /\ i.position \in Nat  BY <1>1 DEF CreateTab, OrderInv, JobTyped
<1>3. Go(h, Free) /\ handler[h] # Free  BY Busy DEF CreateTab
<1>4. CASE UNCHANGED <<tab, made>>  BY <1>3, <1>4, TabsStay, Stops DEF Go
<1>5. CASE /\ Fits(made + 1, i.position) /\ made' = made + 1
           /\ tab' = [tab EXCEPT ![made + 1] = [position |-> i.position, active |-> TRUE]]
  <2>1. PICK row : row = [position |-> i.position, active |-> TRUE]  OBVIOUS
  <2>2. row \in Row /\ row.position = i.position  BY <1>2, <2>1 DEF Row
  <2>3. tab' = [tab EXCEPT ![made + 1] = row]  BY <1>5, <2>1
  <2>4. made \in Nat /\ Open \subseteq 1..made /\ tab = [t \in TabIds |-> tab[t]] /\ \A t \in Open : tab[t] \in Row
    BY DEF OrderInv, RowsTyped
  <2>5. made + 1 \notin Open  BY <2>4
  <2>6. CASE made + 1 \notin TabIds
    <3>1. tab' = tab  BY <2>3, <2>4, <2>6
    <3>2. Open' = Open /\ 1..made \subseteq 1..made' /\ made' \in Nat  BY <1>5, <2>4, <3>1 DEF Open
    <3>3. RowsTyped' /\ Apart' /\ (~mixed => AtMostOne')
      BY <2>4, <3>1, <3>2 DEF RowsTyped, OrderInv, Apart, AtMostOne
    <3> QED BY <1>3, <3>3, Stops DEF Go
  <2>7. CASE made + 1 \in TabIds
    <3>1. tab' = [t \in TabIds |-> tab'[t]] /\ tab'[made + 1] = row /\ \A t \in TabIds \ {made + 1} : tab'[t] = tab[t]
      BY <2>3, <2>4, <2>7
    <3>2. Open' = Open \cup {made + 1}
      <4>1. \A t \in TabIds : tab'[t] # Nothing <=> t \in Open \cup {made + 1}
        BY <3>1, <2>2, NothingIsNoRow DEF Open
      <4>2. Open \subseteq TabIds  BY DEF Open
      <4> QED BY <2>7, <4>1, <4>2 DEF Open
    <3>3. made' \in Nat /\ Open' \subseteq 1..made'  BY <1>5, <2>4, <3>2
    <3>4. \A t \in Open : tab'[t] = tab[t]  BY <2>5, <3>1 DEF Open
    <3>5. RowsTyped'  BY <2>2, <2>4, <3>1, <3>2, <3>3, <3>4 DEF RowsTyped
    <3>6. \A u \in Open : tab[u].position # i.position  BY <1>5, <2>5 DEF Fits
    <3>7. Apart'  BY <2>2, <3>1, <3>2, <3>4, <3>6 DEF OrderInv, Apart
    <3>8. ASSUME ~mixed PROVE AtMostOne'
      <4>1. NoneShown  BY <1>1, <1>2, <3>8 DEF OrderInv, JobOrderly
      <4> QED BY <3>2, <3>4, <4>1 DEF AtMostOne, NoneShown
    <3> QED BY <1>3, <3>5, <3>7, <3>8, Stops DEF Go
  <2> QED BY <2>6, <2>7
<1> QED BY <1>1, <1>4, <1>5 DEF CreateTab

----------------------------------------------------------------------------
(* updateTab.                                                              *)

LEMMA FindTabOrderly ==
  ASSUME OrderInv, NEW h \in Handlers, NEW t \in TabIds, NEW c \in Edits, FindTab(h, t, c)
  PROVE  OrderInv'
<1>1. PICK a : a = IF c.active = TRUE THEN "activate" ELSE "order"  OBVIOUS
<1>2. PICK j : j = [at |-> a, id |-> t, old |-> tab[t].position, change |-> c]  OBVIOUS
<1>3. Begin(h, j) /\ UNCHANGED <<tab, made>> /\ t \in Open  BY Zenon, <1>1, <1>2 DEF FindTab
<1>4. tab[t].position \in Nat  BY <1>3 DEF OrderInv, RowsTyped, Row
<1>5. a \in {"activate", "order"} /\ (a = "order" => ~(c.active = TRUE))  BY <1>1
<1>6. JobTyped(j)  BY <1>2, <1>4, <1>5 DEF JobTyped
<1>7. JobOrderly(j)  BY <1>2, <1>5 DEF JobOrderly
<1> QED BY <1>3, <1>6, <1>7, Begins

LEMMA DeactivateOthersOrderly == ASSUME OrderInv, NEW h \in Handlers, DeactivateOthers(h) PROVE OrderInv'
<1>1. PICK i : i = handler[h]  OBVIOUS
<1>2. JobTyped(i) /\ i.at = "activate"  BY <1>1 DEF DeactivateOthers, OrderInv
<1>3. PICK j : j = [i EXCEPT !.at = "order"]  OBVIOUS
<1>4. /\ {"at", "id", "old", "change"} \subseteq DOMAIN j /\ j.at = "order"
      /\ j.id = i.id /\ j.old = i.old /\ j.change = i.change
      /\ i.id \in TabIds /\ i.old \in Nat /\ i.change \in Edits
  BY <1>2, <1>3 DEF JobTyped
<1>5. PICK but : but = i.id  OBVIOUS
<1>6. Go(h, j) /\ tab' = Deactivated(but) /\ made' = made  BY <1>1, <1>3, <1>5 DEF DeactivateOthers
<1>7. handler[h] # Free  BY Busy DEF DeactivateOthers
<1>8. RowsTyped' /\ Apart' /\ AtMostOne' /\ Only(but)'  BY <1>6, Hidden
<1>9. JobTyped(j) /\ JobOrderly(j)'
  <2>1. JobTyped(j)  BY <1>4 DEF JobTyped
  <2>2. Only(j.id)'  BY <1>4, <1>5, <1>8 DEF Only
  <2>3. i.change # Nothing  BY <1>4, EditsAssumption
  <2> QED BY <1>4, <2>1, <2>2 DEF JobOrderly
<1> QED BY <1>6, <1>7, <1>8, <1>9, GoesOn DEF Go

\* The moves that make room for a tab.
LEMMA RoomTyped ==
  ASSUME RowsTyped, Apart, NEW old \in Nat, NEW new \in Nat
  PROVE  Loop(Between(old, new), IF new > old THEN -1 ELSE 1) \in Seq(Moves)
<1>1. \A t \in Open : tab[t].position \in Nat  BY DEF RowsTyped, Row
<1>2. Between(old, new) \in SUBSET Open  BY DEF Between
<1>3. new > old => \A t \in Between(old, new) : tab[t].position > 0  BY <1>1 DEF Between
<1> HIDE DEF Between
<1>4. CASE new > old
  <2>1. Loop(Between(old, new), -1) \in Seq(Moves)  BY <1>2, <1>3, <1>4, LoopTyped
  <2> QED BY <1>4, <2>1
<1>5. CASE ~(new > old)
  <2>1. Loop(Between(old, new), 1) \in Seq(Moves)  BY <1>2, LoopTyped
  <2> QED BY <1>5, <2>1
<1> QED BY <1>4, <1>5

LEMMA ReadOrderOrderly == ASSUME OrderInv, NEW h \in Handlers, ReadOrder(h) PROVE OrderInv'
<1>1. PICK i : i = handler[h]  OBVIOUS
<1>2. /\ JobTyped(i) /\ i.at = "order" /\ i.id \in TabIds /\ i.old \in Nat /\ i.change \in Edits
  BY <1>1 DEF ReadOrder, OrderInv, JobTyped
<1>3. PICK old, new : old = i.old /\ new = i.change.position  OBVIOUS
<1>4. PICK todo : todo = IF new \in {Nothing, old} THEN <<>>
                         ELSE Loop(Between(old, new), IF new > old THEN -1 ELSE 1)
  OBVIOUS
<1>5. todo \in Seq(Moves)
  <2>1. CASE new \in {Nothing, old}  BY <1>4, <2>1
  <2>2. CASE new \notin {Nothing, old}
    <3>1. old \in Nat /\ new \in Nat  BY <1>2, <1>3, <2>2, EditsAssumption
    <3> QED BY <1>4, <2>2, <3>1, RoomTyped DEF OrderInv
  <2> QED BY <2>1, <2>2
<1>6. PICK j : j = [at |-> "shift", id |-> i.id, change |-> i.change, todo |-> todo]  OBVIOUS
<1>7. Go(h, j) /\ UNCHANGED <<tab, made>>  BY <1>1, <1>3, <1>4, <1>6 DEF ReadOrder
<1>8. i.change # Nothing  BY <1>2, EditsAssumption
<1>9. JobTyped(j)  BY <1>2, <1>5, <1>6, <1>8 DEF JobTyped
<1>10. ASSUME ~mixed PROVE JobOrderly(j)
  <2>1. i.change.active = TRUE => Only(i.id)  BY <1>1, <1>2, <1>8, <1>10 DEF OrderInv, JobOrderly
  <2> QED BY <1>6, <1>8, <2>1 DEF JobOrderly
<1>11. handler[h] # Free  BY Busy DEF ReadOrder
<1> QED BY <1>7, <1>9, <1>10, <1>11, TabsStay, GoesOn DEF Go

LEMMA UpdateOrderly == ASSUME OrderInv, NEW h \in Handlers, UpdateTab(h) PROVE OrderInv'
<1>1. PICK i : i = handler[h]  OBVIOUS
<1>2. JobTyped(i) /\ i.at = "shift" /\ i.change \in Edits /\ i.change # Nothing
  BY <1>1 DEF UpdateTab, OrderInv, JobTyped
<1>3. PICK t, c : t = i.id /\ c = i.change  OBVIOUS
<1>4. c \in Columns  BY <1>2, <1>3, EditsAssumption DEF Columns
<1>5. Write(h, t, c, Free) /\ made' = made  BY <1>1, <1>3 DEF UpdateTab
<1>6. handler[h] # Free  BY Busy DEF UpdateTab
<1> SUFFICES ASSUME t \in Open, Go(h, Free), Open' = Open, RowsTyped', Apart',
                    \A u \in Open \ {t} : tab'[u] = tab[u], tab'[t] = Updated(tab[t], c)
             PROVE  OrderInv'
  BY <1>4, <1>5, <1>6, Writes
<1>7. ASSUME ~mixed PROVE AtMostOne'
  <2>1. AtMostOne /\ (c.active = TRUE => Only(t))
    BY <1>1, <1>2, <1>3, <1>7 DEF OrderInv, JobOrderly
  <2>2. tab'[t].active = IF c.active = Nothing THEN tab[t].active ELSE c.active  BY DEF Updated
  <2>3. CASE c.active = TRUE  BY <2>1, <2>3 DEF AtMostOne, Only
  <2>4. CASE c.active # TRUE
    <3>1. tab'[t].active => tab[t].active  BY <1>4, <2>2, <2>4 DEF Columns
    <3>2. \A u \in Open : tab'[u].active => tab[u].active  BY <3>1
    <3> QED BY <2>1, <3>2 DEF AtMostOne
  <2> QED BY <2>3, <2>4
<1> QED BY <1>6, <1>7, Stops DEF Go

\* One round closes the gap below the first tab and opens one below the next.
LEMMA RoundCloses ==
  ASSUME RowsTyped, NEW todo \in Seq(Moves), todo # <<>>, Closes(todo, Open), Open' = Open,
         \A u \in Open \ {todo[1].id} : tab'[u] = tab[u],
         tab'[todo[1].id].position = todo[1].to
  PROVE  Closes(Tail(todo), Open)'
<1> DEFINE rest == Tail(todo)  n == Len(todo)
<1>1. n \in Nat /\ n # 0 /\ DOMAIN todo = 1..n  OBVIOUS
<1>2. Len(rest) = n - 1 /\ DOMAIN rest = 1..(n-1) /\ \A i \in 1..(n-1) : rest[i] = todo[i+1]  BY <1>1
<1>3. \A i \in 1..n : todo[i].to \in Nat
  <2>1. \A i \in 1..n : todo[i] \in Moves  BY <1>1
  <2> QED BY <2>1 DEF Moves
<1> HIDE DEF rest, n
<1>4. ASSUME NEW i \in 1..(n-1)
      PROVE  /\ i + 1 \in 1..n /\ rest[i] = todo[i+1] /\ todo[1].to < rest[i].to
             /\ rest[i].id \in Open /\ tab'[rest[i].id].position = rest[i].to + 1
  <2>1. i + 1 \in 1..n /\ 1 \in 1..n /\ 1 < i + 1 /\ rest[i] = todo[i+1]  BY <1>1, <1>2
  <2>2. todo[1].to < todo[i+1].to  BY <1>1, <2>1 DEF Closes
  <2>3. todo[i+1].id \in Open /\ tab[todo[i+1].id].position = todo[i+1].to + 1
        /\ tab[todo[1].id].position = todo[1].to + 1
    BY <1>1, <2>1 DEF Closes
  <2>4. todo[i+1].id # todo[1].id
    <3>1. todo[i+1].to \in Nat /\ todo[1].to \in Nat  BY <1>3, <2>1
    <3>2. ASSUME todo[i+1].id = todo[1].id PROVE FALSE
      <4>1. todo[i+1].to + 1 = todo[1].to + 1  BY <2>3, <3>2
      <4>2. \A x, y \in Nat : x < y => y + 1 # x + 1  OBVIOUS
      <4> QED BY <2>2, <3>1, <4>1, <4>2
    <3> QED BY <3>2
  <2>5. tab'[todo[i+1].id] = tab[todo[i+1].id]  BY <2>3, <2>4
  <2> QED BY <2>1, <2>2, <2>3, <2>5
<1>5. ASSUME NEW i \in DOMAIN rest, NEW k \in DOMAIN rest, i < k PROVE rest[i].to < rest[k].to
  <2>1. i + 1 \in 1..n /\ k + 1 \in 1..n /\ i + 1 < k + 1  BY <1>1, <1>2, <1>5
  <2>2. todo[i+1].to < todo[k+1].to  BY <1>1, <2>1 DEF Closes
  <2> QED BY <1>2, <2>2
<1>6. ASSUME NEW t \in Open, \A i \in DOMAIN rest : rest[i].id # t, NEW k \in DOMAIN rest
      PROVE  tab'[t].position < rest[k].to
  <2>1. todo[1].to < rest[k].to /\ k + 1 \in 1..n /\ rest[k] = todo[k+1]  BY <1>2, <1>4
  <2>2. CASE t = todo[1].id  BY <2>1, <2>2
  <2>3. CASE t # todo[1].id
    <3>1. ASSUME NEW i \in DOMAIN todo PROVE todo[i].id # t
      <4>1. CASE i = 1  BY <2>3, <4>1
      <4>2. CASE i # 1
        <5>1. i - 1 \in 1..(n-1) /\ (i - 1) + 1 = i  BY <1>1, <4>2
        <5>2. rest[i-1] = todo[i]  BY <1>2, <5>1
        <5> QED BY <1>2, <1>6, <5>1, <5>2
      <4> QED BY <4>1, <4>2
    <3>2. tab[t].position < todo[k+1].to  BY <1>1, <2>1, <3>1 DEF Closes
    <3> QED BY <2>1, <2>3, <3>2
  <2> QED BY <2>2, <2>3
<1>7. Closes(rest, Open)'  
  <2>1. \A i \in DOMAIN rest : rest[i].id \in Open' /\ tab'[rest[i].id].position = rest[i].to + 1  BY <1>2, <1>4
  <2>2. \A t \in Open' : \/ \E i \in DOMAIN rest : rest[i].id = t
                         \/ \A i \in DOMAIN rest : tab'[t].position < rest[i].to
    BY <1>6
  <2> QED BY <1>5, <2>1, <2>2 DEF Closes
<1> QED BY <1>7 DEF rest

LEMMA ShiftOrderly == ASSUME OrderInv, NEW h \in Handlers, Shift(h) PROVE OrderInv'
<1>1. PICK i : i = handler[h]  OBVIOUS
<1>2. /\ JobTyped(i) /\ i.at = "shift" /\ i.todo \in Seq(Moves) /\ i.todo # <<>>
      /\ {"id", "change", "todo", "at"} \subseteq DOMAIN i
  BY <1>1 DEF Shift, OrderInv, JobTyped
<1>3. PICK todo : todo = i.todo  OBVIOUS
<1>4. PICK t, to : t = todo[1].id /\ to = todo[1].to  OBVIOUS
<1>5. to \in Nat /\ Head(todo) = todo[1] /\ Tail(todo) \in Seq(Moves)
  <2>1. Head(todo) = todo[1] /\ Tail(todo) \in Seq(Moves) /\ todo[1] \in Moves  BY <1>2, <1>3
  <2> QED BY <1>4, <2>1 DEF Moves
<1>6. PICK c : c = [position |-> to, active |-> Nothing]  OBVIOUS
<1>7. c \in Columns /\ c.position = to /\ c.active = Nothing  BY <1>5, <1>6 DEF Columns
<1>8. PICK j : j = [i EXCEPT !.todo = Tail(todo)]  OBVIOUS
<1>9. Write(h, t, c, j) /\ made' = made
  BY <1>1, <1>3, <1>4, <1>5, <1>6, <1>8 DEF Shift
<1>10. handler[h] # Free  BY Busy DEF Shift
<1>11. /\ {"at", "id", "change", "todo"} \subseteq DOMAIN j /\ j.at = "shift" /\ j.todo = Tail(todo)
       /\ j.id = i.id /\ j.change = i.change /\ (i.change = Nothing => j.heir = i.heir /\ "heir" \in DOMAIN j)
  <2>1. DOMAIN j = DOMAIN i /\ \A x \in DOMAIN i : j[x] = IF x = "todo" THEN Tail(todo) ELSE i[x]  BY <1>8
  <2>2. i.change = Nothing => "heir" \in DOMAIN i  BY <1>2 DEF JobTyped
  <2> QED BY <1>2, <2>1, <2>2
<1>12. JobTyped(j)  BY <1>2, <1>5, <1>11 DEF JobTyped
<1> SUFFICES ASSUME t \in Open, Go(h, j), Open' = Open, RowsTyped', Apart',
                    \A u \in Open \ {t} : tab'[u] = tab[u], tab'[t] = Updated(tab[t], c)
             PROVE  OrderInv'
  BY <1>7, <1>9, <1>10, Writes
<1>13. tab'[t].position = to /\ \A u \in Open : tab'[u].active = tab[u].active
  BY <1>5, <1>7, NothingIsNoRow DEF Updated
<1>14. ASSUME ~mixed PROVE AtMostOne' /\ JobOrderly(j)'
  <2>1. JobOrderly(i) /\ AtMostOne  BY <1>1, <1>14 DEF OrderInv
  <2>2. AtMostOne'  BY <1>13, <2>1 DEF AtMostOne
  <2>3. ASSUME i.change # Nothing, i.change.active = TRUE PROVE Only(i.id)'
    <3>1. Only(i.id)  BY <1>2, <2>1, <2>3 DEF JobOrderly
    <3> QED BY <1>13, <3>1 DEF Only
  <2>4. ASSUME i.change = Nothing PROVE Closes(Tail(todo), Open)' /\ (i.heir # Nothing => NoneShown')
    <3>1. Closes(todo, Open) /\ (i.heir # Nothing => NoneShown)  BY <1>2, <1>3, <2>1, <2>4 DEF JobOrderly
    <3>2. Closes(Tail(todo), Open)'  BY <1>2, <1>3, <1>4, <1>13, <3>1, RoundCloses DEF OrderInv
    <3>3. i.heir # Nothing => NoneShown'  BY <1>13, <3>1 DEF NoneShown
    <3> QED BY <3>2, <3>3
  <2>5. JobOrderly(j)'
    <3>1. j.change # Nothing /\ j.change.active = TRUE => Only(j.id)'  BY <1>11, <2>3 DEF Only
    <3>2. j.change = Nothing => Closes(j.todo, Open)' /\ (j.heir # Nothing => NoneShown')  
      BY <1>11, <2>4 DEF Closes
    <3> QED BY <1>11, <3>1, <3>2 DEF JobOrderly
  <2> QED BY <2>2, <2>5
<1> QED BY <1>10, <1>12, <1>14, GoesOn DEF Go

----------------------------------------------------------------------------
(* deleteTab.                                                              *)

LEMMA FindDoomedOrderly ==
  ASSUME OrderInv, NEW h \in Handlers, NEW t \in TabIds, FindDoomed(h, t)
  PROVE  OrderInv'
<1>1. PICK j : j = [at |-> "list", id |-> t, row |-> tab[t]]  OBVIOUS
<1>2. Begin(h, j) /\ UNCHANGED <<tab, made>> /\ t \in Open  BY <1>1 DEF FindDoomed
<1>3. tab[t] \in Row  BY <1>2 DEF OrderInv, RowsTyped
<1>4. JobTyped(j) /\ JobOrderly(j)  BY <1>1, <1>2, <1>3 DEF JobTyped, JobOrderly
<1> QED BY <1>2, <1>4, Begins

LEMMA ReadTabsOrderly == ASSUME OrderInv, NEW h \in Handlers, ReadTabs(h) PROVE OrderInv'
<1>1. PICK i : i = handler[h]  OBVIOUS
<1>2. JobTyped(i) /\ i.at = "list" /\ i.row \in Row /\ i.id \in TabIds
  BY <1>1 DEF ReadTabs, OrderInv, JobTyped
<1>3. handler[h] # Free /\ UNCHANGED <<tab, made>>  BY Busy DEF ReadTabs
<1>4. CASE i.id \notin Open
  <2>1. Go(h, Free)  BY <1>1, <1>4 DEF ReadTabs
  <2> QED BY <1>3, <2>1, TabsStay, Stops DEF Go
<1>5. CASE i.id \in Open
  <2>1. PICK id, p : id = i.id /\ p = i.row.position  OBVIOUS
  <2>2. PICK heir : heir = IF i.row.active THEN Neighbour(i.id) ELSE Nothing  OBVIOUS
  <2>3. PICK todo : todo = Loop({t \in Open : tab[t].position > p}, -1)  OBVIOUS
  <2>4. PICK j : j = [at |-> "delete", id |-> id, change |-> Nothing, heir |-> heir, todo |-> todo]  OBVIOUS
  <2>5. Go(h, j)
    <3>1. j = [at |-> "delete", id |-> i.id, change |-> Nothing,
               heir |-> IF i.row.active THEN Neighbour(i.id) ELSE Nothing,
               todo |-> Loop({t \in Open : tab[t].position > i.row.position}, -1)]
      BY Zenon, <2>1, <2>2, <2>3, <2>4
    <3> QED BY Zenon, <1>1, <1>5, <3>1 DEF ReadTabs
  <2>6. todo \in Seq(Moves)
    <3>1. p \in Nat /\ \A t \in Open : tab[t].position \in Nat  BY <1>2, <2>1 DEF OrderInv, RowsTyped, Row
    <3>2. PICK S : S = {t \in Open : tab[t].position > p}  OBVIOUS
    <3>3. S \in SUBSET Open /\ \A t \in S : tab[t].position > 0  BY <3>1, <3>2
    <3>4. RowsTyped /\ Apart  BY DEF OrderInv
    <3>5. Loop(S, -1) \in Seq(Moves)  BY <3>3, <3>4, LoopTyped
    <3> QED BY <2>3, <3>2, <3>5
  <2>7. JobTyped(j)  BY <1>2, <2>1, <2>4, <2>6 DEF JobTyped
  <2>8. ASSUME ~mixed PROVE JobOrderly(j)
    <3>1. i.row = tab[id] /\ AtMostOne /\ id \in Open
      BY <1>1, <1>2, <1>5, <2>1, <2>8 DEF OrderInv, JobOrderly
    <3>2. Closes(todo, Open \ {id})  BY <2>1, <2>3, <3>1, LoopCloses DEF OrderInv
    <3>3. heir # Nothing => Only(id)  BY <2>1, <2>2, <3>1 DEF AtMostOne, Only
    <3> QED BY <2>4, <3>1, <3>2, <3>3 DEF JobOrderly
  <2> QED BY <1>3, <2>5, <2>7, <2>8, TabsStay, GoesOn DEF Go
<1> QED BY <1>4, <1>5

LEMMA DeleteOrderly == ASSUME OrderInv, NEW h \in Handlers, DeleteTab(h) PROVE OrderInv'
<1>1. PICK i : i = handler[h]  OBVIOUS
<1>2. /\ JobTyped(i) /\ i.at = "delete" /\ i.id \in TabIds /\ i.change = Nothing /\ i.todo \in Seq(Moves)
      /\ {"at", "id", "change", "heir", "todo"} \subseteq DOMAIN i
  BY <1>1 DEF DeleteTab, OrderInv, JobTyped
<1>3. handler[h] # Free /\ made' = made  BY Busy DEF DeleteTab
<1>4. CASE i.id \notin Open
  <2>1. Go(h, Free) /\ UNCHANGED <<tab, made>>  BY <1>1, <1>4 DEF DeleteTab
  <2> QED BY <1>3, <2>1, TabsStay, Stops DEF Go
<1>5. CASE i.id \in Open
  <2>1. PICK id : id = i.id  OBVIOUS
  <2>2. PICK j : j = [i EXCEPT !.at = "shift"]  OBVIOUS
  <2>3. Go(h, j) /\ tab' = [tab EXCEPT ![id] = Nothing]  BY <1>1, <1>5, <2>1, <2>2 DEF DeleteTab
  <2>4. /\ {"at", "id", "change", "heir", "todo"} \subseteq DOMAIN j /\ j.at = "shift" /\ j.id = id
        /\ j.change = Nothing /\ j.heir = i.heir /\ j.todo = i.todo
    <3>1. DOMAIN j = DOMAIN i /\ \A x \in DOMAIN i : j[x] = IF x = "at" THEN "shift" ELSE i[x]  BY <2>2
    <3> QED BY <1>2, <2>1, <3>1
  <2>5. JobTyped(j)  BY <1>2, <2>1, <2>4 DEF JobTyped
  <2>6. /\ tab' = [t \in TabIds |-> tab'[t]] /\ tab'[id] = Nothing
        /\ \A t \in TabIds \ {id} : tab'[t] = tab[t]
    BY <1>2, <2>1, <2>3 DEF OrderInv, RowsTyped
  <2>7. Open' = Open \ {id}  BY <2>6 DEF Open
  <2>8. \A t \in Open' : tab'[t] = tab[t] /\ t \in Open /\ t # id  BY <2>6, <2>7 DEF Open
  <2>9. RowsTyped' /\ Apart'  BY <1>3, <2>6, <2>8 DEF OrderInv, RowsTyped, Apart
  <2>10. ASSUME ~mixed PROVE AtMostOne' /\ JobOrderly(j)'
    <3>1. AtMostOne /\ Closes(j.todo, Open \ {id}) /\ (j.heir # Nothing => Only(id))
      BY <1>1, <1>2, <2>1, <2>4, <2>10 DEF OrderInv, JobOrderly
    <3>2. AtMostOne'  BY <2>8, <3>1 DEF AtMostOne
    <3>3. Closes(j.todo, Open)'  BY <2>7, <2>8, <3>1 DEF Closes
    <3>4. j.heir # Nothing => NoneShown'  BY <2>8, <3>1 DEF Only, NoneShown
    <3> QED BY <2>4, <3>2, <3>3, <3>4 DEF JobOrderly
  <2> QED BY <1>3, <2>3, <2>5, <2>9, <2>10, GoesOn DEF Go
<1> QED BY <1>4, <1>5

LEMMA ActivateHeirOrderly == ASSUME OrderInv, NEW h \in Handlers, ActivateHeir(h) PROVE OrderInv'
<1>1. PICK i : i = handler[h]  OBVIOUS
<1>2. i.at = "shift" /\ i.change = Nothing /\ handler[h] # Free /\ made' = made
  BY <1>1, Busy DEF ActivateHeir
<1>3. CASE i.heir = Nothing
  <2>1. Go(h, Free) /\ UNCHANGED <<tab, made>>  BY <1>1, <1>3 DEF ActivateHeir
  <2> QED BY <1>2, <2>1, TabsStay, Stops DEF Go
<1>4. CASE i.heir # Nothing
  <2>1. PICK t : t = i.heir  OBVIOUS
  <2>2. PICK c : c = [position |-> Nothing, active |-> TRUE]  OBVIOUS
  <2>3. c \in Columns  BY <2>2 DEF Columns
  <2>4. Write(h, t, c, Free)  BY <1>1, <1>4, <2>1, <2>2 DEF ActivateHeir
  <2> SUFFICES ASSUME t \in Open, Go(h, Free), Open' = Open, RowsTyped', Apart',
                      \A u \in Open \ {t} : tab'[u] = tab[u], tab'[t] = Updated(tab[t], c)
               PROVE  OrderInv'
    BY <1>2, <2>3, <2>4, Writes
  <2>5. ASSUME ~mixed PROVE AtMostOne'
    <3>1. NoneShown  BY <1>1, <1>2, <1>4, <2>5 DEF OrderInv, JobOrderly
    <3> QED BY <3>1 DEF NoneShown, AtMostOne
  <2> QED BY <1>2, <2>5, Stops DEF Go
<1> QED BY <1>3, <1>4

----------------------------------------------------------------------------
LEMMA TabFaultOrderly == ASSUME OrderInv, NEW h \in Handlers, TabFault(h) PROVE OrderInv'
<1>1. handler[h] # Free /\ handler' = [handler EXCEPT ![h] = Free] /\ UNCHANGED <<tab, made, mixed>>
  BY DEF TabFault
<1> QED BY <1>1, TabsStay, Stops

LEMMA OrderStart == ASSUME InitTabs PROVE OrderInv
<1>1. tab = [t \in TabIds |-> Nothing] /\ made = 0 /\ handler = [h \in Handlers |-> Free]
  BY DEF InitTabs
<1>2. Open = {}  BY <1>1 DEF Open
<1>3. RowsTyped  BY <1>1, <1>2 DEF RowsTyped
<1>4. \A h \in Handlers : JobTyped(handler[h]) /\ JobOrderly(handler[h])  BY <1>1, FreeIsOrderly
<1>5. handler = [h \in Handlers |-> handler[h]] /\ Sole  BY <1>1 DEF Sole
<1> QED BY <1>2, <1>3, <1>4, <1>5 DEF OrderInv, Apart, AtMostOne

LEMMA OrderStep == ASSUME OrderInv, [NextTabs]_tabsVars PROVE OrderInv'
<1>1. CASE UNCHANGED tabsVars
  <2>1. Open' = Open /\ tab' = tab /\ made' = made /\ handler' = handler /\ mixed' = mixed
    BY <1>1 DEF tabsVars, Open
  <2>2. \A j : JobOrderly(j) => JobOrderly(j)'  BY <2>1, TabsStay
  <2>3. RowsTyped' /\ Apart' /\ (~mixed' => Sole' /\ AtMostOne')
    BY <2>1 DEF OrderInv, RowsTyped, Apart, AtMostOne, Sole
  <2>4. ~mixed' => \A h \in Handlers : JobOrderly(handler[h])'
    BY <2>1, <2>2 DEF OrderInv, JobOrderly, Fits, Only, NoneShown, Closes
  <2> QED BY <2>1, <2>3, <2>4 DEF OrderInv, JobTyped
<1>2. CASE NextTabs
  <2>1. PICK h \in Handlers :
          \/ CountTabs(h) \/ FindLast(h) \/ DeactivateAll(h) \/ CreateTab(h)
          \/ \E t \in TabIds : (\E c \in Edits : FindTab(h, t, c)) \/ FindDoomed(h, t)
          \/ DeactivateOthers(h) \/ ReadOrder(h) \/ Shift(h) \/ UpdateTab(h)
          \/ ReadTabs(h) \/ DeleteTab(h) \/ ActivateHeir(h) \/ TabFault(h)
    BY Zenon, <1>2 DEF NextTabs
  <2> QED BY <2>1, CountOrderly, FindLastOrderly, DeactivateAllOrderly, CreateOrderly, FindTabOrderly,
             FindDoomedOrderly, DeactivateOthersOrderly, ReadOrderOrderly, ShiftOrderly, UpdateOrderly,
             ReadTabsOrderly, DeleteOrderly, ActivateHeirOrderly, TabFaultOrderly
<1> QED BY <1>1, <1>2

\* What requests that come one after the other rely on.
LEMMA OrderlyFollows == ASSUME OrderInv PROVE OrderlyAlone
<1> SUFFICES ASSUME ~mixed PROVE OneActive /\ CreationFits /\ DeletionFits
  BY DEF OrderlyAlone
<1>1. AtMostOne /\ \A h \in Handlers : JobOrderly(handler[h])  BY DEF OrderInv
<1>2. OneActive
  <2> DEFINE A == {t \in Open : tab[t].active}
  <2>1. A = {} \/ \E t : A = {t}  BY <1>1 DEF AtMostOne
  <2> HIDE DEF A
  <2>2. Cardinality(A) \in {0, 1}
    <3>1. CASE A = {}  BY <3>1, FS_EmptySet
    <3>2. CASE \E t : A = {t}  BY <3>2, FS_Singleton
    <3> QED BY <2>1, <3>1, <3>2
  <2> QED BY <2>2 DEF OneActive, A
<1>3. CreationFits  BY <1>1 DEF CreationFits, JobOrderly
<1>4. ASSUME NEW h \in Handlers, handler[h].at = "shift", handler[h].change = Nothing
      PROVE  LET j == handler[h] IN
             /\ \A i \in DOMAIN j.todo : j.todo[i].id \in Open /\ tab[j.todo[i].id].position = j.todo[i].to + 1
             /\ j.todo # <<>> => Fits(j.todo[1].id, j.todo[1].to)
  <2>1. PICK todo : todo = handler[h].todo  OBVIOUS
  <2>2. Closes(todo, Open) /\ todo \in Seq(Moves)
    BY <1>1, <1>4, <2>1 DEF JobOrderly, OrderInv, JobTyped
  <2>3. ASSUME todo # <<>> PROVE Fits(todo[1].id, todo[1].to)
    <3>1. 1 \in DOMAIN todo /\ DOMAIN todo = 1..Len(todo) /\ Len(todo) \in Nat  BY <2>2, <2>3
    <3>2. \A i \in DOMAIN todo : todo[i].to \in Nat
      <4>1. \A i \in DOMAIN todo : todo[i] \in Moves  BY <2>2
      <4> QED BY <4>1 DEF Moves
    <3>3. ASSUME NEW u \in Open \ {todo[1].id} PROVE tab[u].position # todo[1].to
      <4>0. tab[u].position \in Nat  BY DEF OrderInv, RowsTyped, Row
      <4>1. CASE \E i \in DOMAIN todo : todo[i].id = u
        <5>1. PICK i \in DOMAIN todo : todo[i].id = u  BY <4>1
        <5>2. i # 1 /\ 1 < i  BY <3>1, <5>1
        <5>3. todo[1].to < todo[i].to /\ tab[u].position = todo[i].to + 1  BY <2>2, <3>1, <5>1, <5>2 DEF Closes
        <5> QED BY <3>1, <3>2, <5>3
      <4>2. CASE ~ \E i \in DOMAIN todo : todo[i].id = u
        <5>1. tab[u].position < todo[1].to  BY <2>2, <3>1, <4>2 DEF Closes
        <5> QED BY <3>1, <3>2, <4>0, <5>1
      <4> QED BY <4>1, <4>2
    <3> QED BY <3>3 DEF Fits
  <2>4. \A i \in DOMAIN todo : todo[i].id \in Open /\ tab[todo[i].id].position = todo[i].to + 1
    BY <2>2 DEF Closes
  <2> QED BY <2>1, <2>3, <2>4
<1>5. DeletionFits  BY <1>4 DEF DeletionFits
<1> QED BY <1>2, <1>3, <1>5

\* Requests that come one after the other, and of which any may stop half way, leave the tabs of
\* a user in order: at most one is shown, a new one finds its place free, and the loop after a
\* deletion finds every tab where it read it and the place before it free
\* (tabs.service.ts:45, :97 and :176).
THEOREM TabsOrderlyAlone == SpecTabs => []OrderlyAlone
<1>1. InitTabs => OrderInv  BY OrderStart
<1>2. OrderInv /\ [NextTabs]_tabsVars => OrderInv'  BY OrderStep
<1>3. OrderInv => OrderlyAlone  BY OrderlyFollows
<1> QED BY <1>1, <1>2, <1>3, PTL DEF SpecTabs

----------------------------------------------------------------------------
(* Types.                                                                  *)

\* The counters stay within their bounds.
Counted == mixed \in BOOLEAN /\ changes \in 0..MaxChanges /\ tabFaults \in 0..MaxTabFaults

LEMMA CountedStep == ASSUME Counted, NextTabs PROVE Counted'
<1> USE TabsAssumption DEF Counted
<1>1. PICK h \in Handlers :
      \/ CountTabs(h) \/ FindLast(h) \/ DeactivateAll(h) \/ CreateTab(h)
      \/ \E t \in TabIds : (\E c \in Edits : FindTab(h, t, c)) \/ FindDoomed(h, t)
      \/ DeactivateOthers(h) \/ ReadOrder(h) \/ Shift(h) \/ UpdateTab(h)
      \/ ReadTabs(h) \/ DeleteTab(h) \/ ActivateHeir(h) \/ TabFault(h)
  BY Zenon DEF NextTabs
<1>2. CASE TabFault(h)  BY <1>2 DEF TabFault
<1>3. CASE \E t \in TabIds : (\E c \in Edits : FindTab(h, t, c)) \/ FindDoomed(h, t)
  <2>1. UNCHANGED tabFaults /\ mixed' \in BOOLEAN /\ changes < MaxChanges /\ changes' = changes + 1
    BY <1>3 DEF FindTab, FindDoomed, Begin
  <2> QED BY <2>1
<1>4. CASE CountTabs(h)  BY <1>4 DEF CountTabs, Begin
<1>5. ASSUME UNCHANGED <<mixed, changes, tabFaults>> PROVE Counted'  BY <1>5
<1>6. CASE FindLast(h) \/ DeactivateAll(h) \/ CreateTab(h) \/ DeactivateOthers(h) \/ ReadOrder(h)
           \/ ReadTabs(h) \/ DeleteTab(h)
  BY <1>5, <1>6 DEF FindLast, DeactivateAll, CreateTab, DeactivateOthers, ReadOrder, ReadTabs, DeleteTab, Go
<1>7. CASE Shift(h) \/ UpdateTab(h) \/ ActivateHeir(h)
  BY <1>5, <1>7 DEF Shift, UpdateTab, ActivateHeir, Write, Go
<1> QED BY <1>1, <1>2, <1>3, <1>4, <1>6, <1>7

\* The table holds rows with a place each, and every handler is in one of its places
\* (tabs.service.ts:21-209).
THEOREM TabsTypeCorrect == SpecTabs => []TabsTypeOK
<1> DEFINE TypeInv == OrderInv /\ LimitInv /\ Counted
<1>1. InitTabs => TypeInv  
  <2>1. ASSUME InitTabs PROVE Counted
    <3>1. mixed = FALSE /\ changes = 0 /\ tabFaults = 0  BY <2>1 DEF InitTabs
    <3>2. 0 \in 0..MaxChanges /\ 0 \in 0..MaxTabFaults  BY TabsAssumption
    <3>3. mixed \in BOOLEAN  BY Zenon, <3>1
    <3> QED BY <3>1, <3>2, <3>3 DEF Counted
  <2> QED BY <2>1, OrderStart, InitHolds
<1>2. TypeInv /\ [NextTabs]_tabsVars => TypeInv'
  <2>1. CASE UNCHANGED tabsVars
    <3>1. LimitInv => LimitInv'
      BY <2>1 DEF tabsVars, LimitInv, Shaped, TabLimit, MadeFits, Open, Creating
    <3>2. Counted => Counted'  BY <2>1 DEF tabsVars, Counted
    <3> QED BY <2>1, <3>1, <3>2, OrderStep
  <2>2. CASE NextTabs  BY <2>2, OrderStep, StepKeeps, CountedStep
  <2> QED BY <2>1, <2>2
<1>3. TypeInv => TabsTypeOK
  <2> SUFFICES ASSUME TypeInv PROVE TabsTypeOK  OBVIOUS
  <2>1. tab \in [TabIds -> Row \cup {Nothing}]
    <3>1. tab = [t \in TabIds |-> tab[t]] /\ \A t \in TabIds : tab[t] \in Row \cup {Nothing}
      BY DEF OrderInv, RowsTyped, Open
    <3> QED BY <3>1
  <2>2. made \in 0..MaxMade
    BY Sizes, TabsAssumption DEF OrderInv, RowsTyped, LimitInv, MadeFits
  <2>3. \A h \in Handlers : handler[h].at \in {"free", "max", "clear", "create", "activate", "order",
                                               "shift", "list", "delete"}
    BY DEF OrderInv, JobTyped
  <2> QED BY <2>1, <2>2, <2>3 DEF TabsTypeOK, Row, OrderInv, RowsTyped, Counted
<1> QED BY <1>1, <1>2, <1>3, PTL DEF SpecTabs

----------------------------------------------------------------------------
(***************************************************************************)
(* Attendance, for any calendar, number of employees, handlers and         *)
(* failures: every row has its type, a day shows the hours between its     *)
(* times, and the reports of a month agree with each other.                *)
(***************************************************************************)

DayRow == Record \cup {NoRecord}

\* What a handler that has come to a place has with it.
DeskHolds(j) ==
  /\ j.at \in {"idle", "in", "out", "sum", "upsert"}
  /\ j.at \in {"in", "out"} => j.emp \in People /\ j.day \in DaySet
  /\ j.at = "out" => j.out \in Int /\ j.hours \in Int /\ j.status \in Statuses
  /\ j.at \in {"sum", "upsert"} => j.emp \in People /\ j.month \in Months
  /\ j.at = "upsert" => j.seen \in [DaySet -> DayRow]

AttendanceTyped ==
  /\ now \in Times
  /\ record \in [People -> [DaySet -> DayRow]]
  /\ summary \in [People -> [Months -> Summaries \cup {NoRecord}]]
  /\ DOMAIN desk = Desks
  /\ \A k \in Desks : DeskHolds(desk[k])
  /\ outdated \subseteq People \X Months
  /\ deskFaults \in 0 .. MaxDeskFaults

\* A day has the hours between its times, and a check-out that is about to be written will
\* still be right: the arrival it was computed from changes only when HR corrects the day.
HoursHold(r) == r # NoRecord /\ ~r.regularized =>
  r.hours = IF r.out = NoTime THEN NoTime ELSE r.out - r.in

CheckOutHolds(j, r) == r # NoRecord /\ (~r.regularized => j.hours = j.out - r.in)

HoursInv ==
  /\ \A e \in People, d \in DaySet : HoursHold(record[e][d])
  /\ \A k \in Desks : desk[k].at = "out" => CheckOutHolds(desk[k], record[desk[k].emp][desk[k].day])

\* The summary of a month is as good as its days are closed, unless a handler is at it.
Covered(e, m) ==
  \/ Refreshing(e, m)
  \/ <<e, m>> \in outdated
  \/ ClosedDays(e, m) = {} /\ summary[e][m] = NoRecord
  \/ \E open \in SUBSET (Stored(record[e], m) \ ClosedDays(e, m)) :
       summary[e][m] = Tally(record[e], ClosedDays(e, m) \cup open)

AttendanceInv ==
  /\ AttendanceTyped
  /\ HoursInv
  /\ deskFaults = 0 => \A e \in People, m \in Months : Covered(e, m)

----------------------------------------------------------------------------
(* The calendar, and what is computed from a row.                          *)

LEMMA Divided ==
  ASSUME NEW t \in Nat, NEW n \in Nat \ {0}
  PROVE  t \div n \in Nat /\ n * (t \div n) <= t /\ t < n * (t \div n) + n
  OBVIOUS

LEMMA DaysAreDays ==
  /\ DaySet \subseteq Nat /\ IsFiniteSet(DaySet)
  /\ \A t \in Times : DayOf(t) \in DaySet
  /\ \A d \in DaySet : MonthOf(d) \in Months
<1>1. DayOf(MaxHour) \in Nat  BY ClockAssumption, Divided DEF DayOf
<1>2. DaySet \subseteq Nat /\ IsFiniteSet(DaySet)  BY <1>1, FS_Interval DEF DaySet
<1>3. ASSUME NEW t \in Times PROVE DayOf(t) \in DaySet
  <2>1. t \in Nat /\ t <= MaxHour  BY ClockAssumption DEF Times
  <2>2. t \div DayLength \in Nat /\ DayLength * (t \div DayLength) <= t
    BY <2>1, ClockAssumption, Divided
  <2>3. MaxHour < DayLength * (MaxHour \div DayLength) + DayLength /\ MaxHour \div DayLength \in Nat
    BY ClockAssumption, Divided
  <2>4. PICK a, b \in Nat : a = t \div DayLength /\ b = MaxHour \div DayLength  BY <2>2, <2>3
  <2>5. DayLength * a < DayLength * b + DayLength  BY <2>1, <2>2, <2>3, <2>4, ClockAssumption
  <2>6. DayLength * a < DayLength * (b + 1)  BY <2>5, ClockAssumption
  <2>7. a < b + 1  BY <2>6, ClockAssumption
  <2> QED BY <2>4, <2>7 DEF DaySet, DayOf
<1>4. \A d \in DaySet : MonthOf(d) \in Months  BY DEF Months
<1> QED BY <1>2, <1>3, <1>4

LEMMA RowValues ==
  ASSUME NEW r \in Record
  PROVE  Worked(r) \in Int /\ Overtime(r) \in Nat /\ r.status \in Statuses
<1>1. r.hours \in Int \cup {NoTime} /\ r.status \in Statuses  BY DEF Record
<1>2. Worked(r) \in Int  BY <1>1 DEF Worked
<1>3. Overtime(r) \in Nat  BY <1>1, HoursAssumption DEF Overtime, Larger
<1> QED BY <1>1, <1>2, <1>3

\* The forms a row takes.
LEMMA ArrivalIsRow ==
  now \in Times => Arrival \in Record /\ Arrival.out = NoTime /\ ~Arrival.regularized /\ HoursHold(Arrival)
  BY ClockAssumption DEF Arrival, Record, Times, Statuses, HoursHold

LEMMA DepartureIsRow ==
  ASSUME NEW r \in Record, NEW j, j.out \in Int, j.hours \in Int, j.status \in Statuses
  PROVE  /\ Departure(r, j) \in Record
         /\ Departure(r, j).out = j.out /\ Departure(r, j).hours = j.hours /\ Departure(r, j).in = r.in
         /\ Departure(r, j).regularized = r.regularized
         /\ CheckOutHolds(j, r) => HoursHold(Departure(r, j))
<1>1. PICK q : q = [in |-> r.in, out |-> j.out, status |-> j.status, hours |-> j.hours, regularized |-> r.regularized]
  OBVIOUS
<1>2. r = [in |-> r.in, out |-> r.out, status |-> r.status, hours |-> r.hours, regularized |-> r.regularized]
  BY DEF Record
<1>3. Departure(r, j) = q
  <2>1. [[in |-> r.in, out |-> r.out, status |-> r.status, hours |-> r.hours, regularized |-> r.regularized] EXCEPT !.out = j.out]
          = [in |-> r.in, out |-> j.out, status |-> r.status, hours |-> r.hours, regularized |-> r.regularized]
    BY ONLY TRUE
  <2>2. [[in |-> r.in, out |-> j.out, status |-> r.status, hours |-> r.hours, regularized |-> r.regularized] EXCEPT !.hours = j.hours]
          = [in |-> r.in, out |-> j.out, status |-> r.status, hours |-> j.hours, regularized |-> r.regularized]
    BY ONLY TRUE
  <2>3. [[in |-> r.in, out |-> j.out, status |-> r.status, hours |-> j.hours, regularized |-> r.regularized] EXCEPT !.status = j.status] = q
    BY ONLY <1>1
  <2>4. [r EXCEPT !.out = j.out] = [[in |-> r.in, out |-> r.out, status |-> r.status, hours |-> r.hours, regularized |-> r.regularized] EXCEPT !.out = j.out]
    BY ONLY <1>2, Zenon
  <2>5. [[[r EXCEPT !.out = j.out] EXCEPT !.hours = j.hours] EXCEPT !.status = j.status] = q
    BY ONLY <2>1, <2>2, <2>3, <2>4, Zenon
  <2> QED BY <2>5 DEF Departure
<1>4. q \in Record  BY <1>1 DEF Record
<1>5. q.out = j.out /\ q.hours = j.hours /\ q.in = r.in /\ q.regularized = r.regularized  BY <1>1
<1>6. CheckOutHolds(j, r) => HoursHold(q)
  BY <1>5, ClockAssumption DEF CheckOutHolds, HoursHold
<1> QED BY <1>3, <1>4, <1>5, <1>6

LEMMA CorrectedIsRow ==
  ASSUME NEW r \in DayRow, NEW day \in DaySet, NEW c \in Corrections
  PROVE  /\ Corrected(r, day, c) \in Record
         /\ Corrected(r, day, c).regularized
<1>1. c.status \in Statuses /\ c.in \in Nat \cup {NoTime} /\ c.out \in Nat \cup {NoTime}
  BY CorrectionsAssumption
<1>2. Span(c) \in Int \cup {NoTime}  BY <1>1 DEF Span
<1>3. day * DayLength \in Int  BY DaysAreDays, ClockAssumption
<1>4. r # NoRecord => r.in \in Int /\ r.out \in Int \cup {NoTime} /\ r.hours \in Int \cup {NoTime}
  BY DEF DayRow, Record
<1>5. PICK i \in Int, o, h \in Int \cup {NoTime} :
        Corrected(r, day, c) = [in |-> i, out |-> o, status |-> c.status, hours |-> h, regularized |-> TRUE]
  <2>1. CASE r = NoRecord
    <3>1. PICK i \in Int : i = IF c.in = NoTime THEN day * DayLength ELSE c.in  BY <1>1, <1>3
    <3>2. Corrected(r, day, c)
            = [in |-> i, out |-> c.out, status |-> c.status, hours |-> Span(c), regularized |-> TRUE]
      BY <2>1, <3>1, Zenon DEF Corrected
    <3>3. c.out \in Int \cup {NoTime}  BY <1>1
    <3> QED BY <1>2, <3>2, <3>3, Zenon
  <2>2. CASE r # NoRecord
    <3>1. PICK i \in Int : i = IF c.in = NoTime THEN r.in ELSE c.in  BY <1>1, <1>4, <2>2
    <3>2. PICK o \in Int \cup {NoTime} : o = IF c.out = NoTime THEN r.out ELSE c.out
      <4>1. c.out \in Int \cup {NoTime} /\ r.out \in Int \cup {NoTime}  BY <1>1, <1>4, <2>2
      <4> QED BY <4>1, Zenon
    <3>3. PICK h \in Int \cup {NoTime} : h = IF Span(c) = NoTime THEN r.hours ELSE Span(c)  BY <1>2, <1>4, <2>2
    <3>4. Corrected(r, day, c) = [in |-> i, out |-> o, status |-> c.status, hours |-> h, regularized |-> TRUE]
      BY <2>2, <3>1, <3>2, <3>3, Zenon DEF Corrected
    <3> QED BY <3>4, Zenon
  <2> QED BY <2>1, <2>2
<1>6. [in |-> i, out |-> o, status |-> c.status, hours |-> h, regularized |-> TRUE] \in Record
  BY <1>1 DEF Record
<1> QED BY <1>5, <1>6

\* A summary depends on the rows of its days only.
LEMMA TallySame ==
  ASSUME NEW q, NEW p, NEW days, \A d \in days : q[d] = p[d]
  PROVE  Tally(q, days) = Tally(p, days)
<1>1. [d \in days |-> Worked(q[d])] = [d \in days |-> Worked(p[d])]  OBVIOUS
<1>2. [d \in days |-> Overtime(q[d])] = [d \in days |-> Overtime(p[d])]  OBVIOUS
<1>3. \A s : {d \in days : q[d].status = s} = {d \in days : p[d].status = s}  OBVIOUS
<1> QED BY ONLY <1>1, <1>2, <1>3, Zenon DEF Tally

----------------------------------------------------------------------------
(* The steps.                                                              *)

\* What Sit does.
LEMMA Sits ==
  ASSUME AttendanceTyped, NEW k \in Desks, NEW j, Sit(k, j)
  PROVE  DOMAIN desk' = Desks /\ desk'[k] = j /\ \A o \in Desks : o # k => desk'[o] = desk[o]
  BY DEF AttendanceTyped, Sit

\* A month whose rows and summary stay is covered as before.
LEMMA CoveredStays ==
  ASSUME NEW e \in People, NEW m \in Months, Covered(e, m),
         \A d \in DaySet : MonthOf(d) = m => record'[e][d] = record[e][d],
         summary'[e][m] = summary[e][m],
         <<e, m>> \in outdated => <<e, m>> \in outdated',
         Refreshing(e, m) => Refreshing(e, m)'
  PROVE  Covered(e, m)'
<1>1. Stored(record[e], m)' = Stored(record[e], m)  BY DEF Stored
<1>2. ClosedDays(e, m)' = ClosedDays(e, m)  BY <1>1 DEF ClosedDays, Stored
<1>3. ASSUME NEW open \in SUBSET (Stored(record[e], m) \ ClosedDays(e, m))
      PROVE  Tally(record[e], ClosedDays(e, m) \cup open)' = Tally(record[e], ClosedDays(e, m) \cup open)
  <2>1. PICK days : days = ClosedDays(e, m) \cup open  OBVIOUS
  <2>2. \A d \in days : record'[e][d] = record[e][d]  BY <2>1 DEF ClosedDays, Stored
  <2>3. PICK q, r : q = record'[e] /\ r = record[e]  OBVIOUS
  <2>4. \A d \in days : q[d] = r[d]  BY <2>2, <2>3
  <2>5. Tally(q, days) = Tally(r, days)  BY <2>4, TallySame
  <2> QED BY <1>2, <2>1, <2>3, <2>5, Zenon DEF Tally, Worked, Overtime
<1> QED BY <1>1, <1>2, <1>3 DEF Covered

\* A handler goes on and no row changes.
LEMMA DeskGoesOn ==
  ASSUME AttendanceInv, NEW k \in Desks, NEW j, Sit(k, j), DeskHolds(j),
         now' \in Times, deskFaults' \in 0 .. MaxDeskFaults,
         UNCHANGED <<record, summary, outdated>>,
         j.at = "out" => CheckOutHolds(j, record[j.emp][j.day]),
         deskFaults' = 0 =>
           /\ deskFaults = 0
           /\ desk[k].at \in {"sum", "upsert"} =>
                j.at \in {"sum", "upsert"} /\ j.emp = desk[k].emp /\ j.month = desk[k].month
  PROVE  AttendanceInv'
<1>1. DOMAIN desk' = Desks /\ desk'[k] = j /\ \A o \in Desks : o # k => desk'[o] = desk[o]
  BY Sits DEF AttendanceInv
<1>2. AttendanceTyped'  BY <1>1 DEF AttendanceInv, AttendanceTyped
<1>3. HoursInv'
  <2>1. \A e \in People, d \in DaySet : HoursHold(record'[e][d])  BY DEF AttendanceInv, HoursInv
  <2>2. \A o \in Desks : desk'[o].at = "out" => CheckOutHolds(desk'[o], record'[desk'[o].emp][desk'[o].day])
    BY <1>1 DEF AttendanceInv, HoursInv
  <2> QED BY <2>1, <2>2 DEF HoursInv
<1>4. ASSUME deskFaults' = 0, NEW e \in People, NEW m \in Months PROVE Covered(e, m)'
  <2>1. Covered(e, m)  BY <1>4 DEF AttendanceInv
  <2>2. Refreshing(e, m) => Refreshing(e, m)'  BY <1>1, <1>4 DEF Refreshing
  <2> QED BY <2>1, <2>2, CoveredStays
<1> QED BY <1>2, <1>3, <1>4 DEF AttendanceInv

\* A row is written.
LEMMA RowWritten ==
  ASSUME AttendanceTyped, NEW e \in People, NEW d \in DaySet, NEW r \in Record,
         record' = [record EXCEPT ![e][d] = r]
  PROVE  /\ record' \in [People -> [DaySet -> DayRow]]
         /\ record'[e][d] = r
         /\ \A f \in People, g \in DaySet : f # e \/ g # d => record'[f][g] = record[f][g]
  BY DEF AttendanceTyped, DayRow

\* A check-out or a correction: the handler goes on to rebuild the month of the row.
LEMMA RowThenRebuild ==
  ASSUME AttendanceInv, NEW k \in Desks, NEW e \in People, NEW d \in DaySet, NEW r \in Record,
         record' = [record EXCEPT ![e][d] = r], Sit(k, Rebuild(e, d)),
         desk[k].at \notin {"sum", "upsert"}, HoursHold(r),
         r.regularized \/ (r.regularized = record[e][d].regularized /\ r.in = record[e][d].in),
         UNCHANGED <<now, summary, outdated, deskFaults>>
  PROVE  AttendanceInv'
<1> DEFINE j == Rebuild(e, d)
<1>1. DOMAIN desk' = Desks /\ desk'[k] = j /\ \A o \in Desks : o # k => desk'[o] = desk[o]
  BY Sits DEF AttendanceInv
<1>2. j.at = "sum" /\ j.emp = e /\ j.month = MonthOf(d) /\ MonthOf(d) \in Months
  BY DaysAreDays DEF Rebuild
<1> HIDE DEF j
<1>3. /\ record' \in [People -> [DaySet -> DayRow]]
      /\ record'[e][d] = r
      /\ \A f \in People, g \in DaySet : f # e \/ g # d => record'[f][g] = record[f][g]
  <2>1. AttendanceTyped  BY DEF AttendanceInv
  <2>2. record' \in [People -> [DaySet -> DayRow]]  BY <2>1, RowWritten
  <2>3. record'[e][d] = r  BY <2>1, RowWritten
  <2>4. \A f \in People, g \in DaySet : f # e \/ g # d => record'[f][g] = record[f][g]  BY <2>1, RowWritten
  <2> QED BY <2>2, <2>3, <2>4
<1>4. AttendanceTyped'
  <2>1. DeskHolds(j)  BY <1>2 DEF DeskHolds
  <2> QED BY <1>1, <1>3, <2>1 DEF AttendanceInv, AttendanceTyped
<1>5. r # NoRecord  BY RowsAssumption
<1>6. HoursInv'
  <2>1. \A f \in People, g \in DaySet : HoursHold(record'[f][g])
    BY <1>3 DEF AttendanceInv, HoursInv
  <2>2. ASSUME NEW o \in Desks, desk'[o].at = "out"
        PROVE  CheckOutHolds(desk'[o], record'[desk'[o].emp][desk'[o].day])
    <3>1. o # k /\ desk'[o] = desk[o]  BY <1>1, <1>2, <2>2
    <3>2. CheckOutHolds(desk[o], record[desk[o].emp][desk[o].day])
      BY <2>2, <3>1 DEF AttendanceInv, HoursInv
    <3>3. desk[o].emp \in People /\ desk[o].day \in DaySet
      BY <2>2, <3>1 DEF AttendanceInv, AttendanceTyped, DeskHolds
    <3>4. CASE desk[o].emp = e /\ desk[o].day = d
      BY <1>3, <1>5, <3>1, <3>2, <3>4 DEF CheckOutHolds
    <3>5. CASE ~(desk[o].emp = e /\ desk[o].day = d)
      BY <1>3, <3>1, <3>2, <3>3, <3>5
    <3> QED BY <3>4, <3>5
  <2> QED BY <2>1, <2>2 DEF HoursInv
<1>7. ASSUME deskFaults' = 0, NEW f \in People, NEW m \in Months PROVE Covered(f, m)'
  <2>1. CASE f = e /\ m = MonthOf(d)
    BY <1>1, <1>2, <2>1 DEF Covered, Refreshing
  <2>2. CASE ~(f = e /\ m = MonthOf(d))
    <3>1. Covered(f, m)  BY <1>7 DEF AttendanceInv
    <3>2. Refreshing(f, m) => Refreshing(f, m)'  BY <1>1 DEF Refreshing
    <3>3. \A g \in DaySet : MonthOf(g) = m => record'[f][g] = record[f][g]  BY <1>3, <2>2
    <3> QED BY <3>1, <3>2, <3>3, CoveredStays
  <2> QED BY <2>1, <2>2
<1> QED BY <1>4, <1>6, <1>7 DEF AttendanceInv

\* What is rebuilt from the days of a month is a summary.
LEMMA MonthIsShort ==
  ASSUME NEW m \in Months, NEW days \in SUBSET {d \in DaySet : MonthOf(d) = m}
  PROVE  IsFiniteSet(days) /\ Cardinality(days) \in 0 .. MonthLength
<1>1. m \in Nat
  <2>1. PICK d \in DaySet : m = MonthOf(d)  BY DEF Months
  <2> QED BY <2>1, DaysAreDays, ClockAssumption, Divided DEF MonthOf
<1>2. PICK a, b \in Nat : a = MonthLength * m /\ b = MonthLength * m + MonthLength - 1
  BY <1>1, ClockAssumption
<1>3. ASSUME NEW d \in days PROVE d \in a .. b
  <2>1. d \in Nat /\ d \div MonthLength = m  BY DaysAreDays DEF MonthOf
  <2>2. MonthLength * m <= d /\ d < MonthLength * m + MonthLength  BY <2>1, ClockAssumption, Divided
  <2> QED BY <1>1, <1>2, <2>1, <2>2, ClockAssumption
<1>4. IsFiniteSet(a .. b) /\ Cardinality(a .. b) = IF a > b THEN 0 ELSE b - a + 1  BY FS_Interval
<1>5. Cardinality(a .. b) = MonthLength  BY <1>1, <1>2, <1>4, ClockAssumption
<1>6. days \subseteq a .. b  BY <1>3
<1>7. IsFiniteSet(days) /\ Cardinality(days) <= Cardinality(a .. b)  BY <1>4, <1>6, FS_Subset
<1>8. Cardinality(days) \in Nat  BY <1>7, FS_CardinalityType
<1> QED BY <1>5, <1>7, <1>8, ClockAssumption

LEMMA TallyIsSummary ==
  ASSUME NEW rs \in [DaySet -> DayRow], NEW m \in Months, NEW days \in SUBSET Stored(rs, m)
  PROVE  Tally(rs, days) \in Summaries
<1>1. days \subseteq {d \in DaySet : MonthOf(d) = m} /\ \A d \in days : rs[d] \in Record
  BY DEF Stored, DayRow
<1>2. IsFiniteSet(days)  BY <1>1, MonthIsShort
<1>3. ASSUME NEW s PROVE Cardinality({d \in days : rs[d].status = s}) \in 0 .. MonthLength
  <2>1. PICK part : part = {d \in days : rs[d].status = s}  OBVIOUS
  <2>2. part \in SUBSET {d \in DaySet : MonthOf(d) = m}  BY <1>1, <2>1
  <2> QED BY <2>1, <2>2, MonthIsShort
<1>4. [s \in Statuses \ {"WEEKEND"} |-> Cardinality({d \in days : rs[d].status = s})]
        \in [Statuses \ {"WEEKEND"} -> 0 .. MonthLength]
  BY <1>3
<1>5. SumFunction([d \in days |-> Worked(rs[d])]) \in Int
  <2>1. PICK f : f = [d \in days |-> Worked(rs[d])]  OBVIOUS
  <2>2. DOMAIN f = days /\ \A d \in days : f[d] \in Int  BY <1>1, <2>1, RowValues
  <2> QED BY <1>2, <2>1, <2>2, SumInt DEF SumFunction
<1>6. SumFunction([d \in days |-> Overtime(rs[d])]) \in Nat
  <2>1. PICK f : f = [d \in days |-> Overtime(rs[d])]  OBVIOUS
  <2>2. DOMAIN f = days /\ \A d \in days : f[d] \in Nat  BY <1>1, <2>1, RowValues
  <2> QED BY <1>2, <2>1, <2>2, SumNat DEF SumFunction
<1> QED BY <1>4, <1>5, <1>6 DEF Tally, Summaries

----------------------------------------------------------------------------
LEMMA ArrivalKeeps ==
  ASSUME AttendanceInv, NEW k \in Desks, CreateRecord(k) PROVE AttendanceInv'
<1> DEFINE e == desk[k].emp  d == desk[k].day
<1>1. e \in People /\ d \in DaySet /\ desk[k].at = "in"
  BY DEF AttendanceInv, AttendanceTyped, DeskHolds, CreateRecord
<1>2. Waiting.at = "idle" /\ DeskHolds(Waiting)  BY DEF Waiting, DeskHolds
<1>3. CASE record[e][d] # NoRecord
  BY <1>1, <1>2, <1>3, DeskGoesOn DEF CreateRecord, AttendanceInv, AttendanceTyped
<1>4. CASE record[e][d] = NoRecord
  <2>1. record' = [record EXCEPT ![e][d] = Arrival] /\ Sit(k, Waiting)
        /\ UNCHANGED <<now, summary, outdated, deskFaults>>
    BY <1>4 DEF CreateRecord
  <2>2. PICK r : r = Arrival  OBVIOUS
  <2>3. r \in Record /\ r.out = NoTime /\ ~r.regularized /\ HoursHold(r)
    BY <2>2, ArrivalIsRow DEF AttendanceInv, AttendanceTyped
  <2> HIDE DEF e, d
  <2>4. DOMAIN desk' = Desks /\ desk'[k] = Waiting /\ \A o \in Desks : o # k => desk'[o] = desk[o]
    BY <2>1, Sits DEF AttendanceInv
  <2>5. AttendanceTyped  BY DEF AttendanceInv
  <2>6. record' = [record EXCEPT ![e][d] = r]  BY <2>1, <2>2
  <2>7. record' \in [People -> [DaySet -> DayRow]]  BY <1>1, <2>3, <2>5, <2>6, RowWritten
  <2>8. record'[e][d] = r  BY <1>1, <2>3, <2>5, <2>6, RowWritten
  <2>9. \A f \in People, g \in DaySet : f # e \/ g # d => record'[f][g] = record[f][g]
    BY <1>1, <2>3, <2>5, <2>6, RowWritten
  <2>10. AttendanceTyped'
    BY <1>2, <2>1, <2>4, <2>5, <2>7 DEF AttendanceTyped
  <2>11. HoursInv'
    <3>1. \A f \in People, g \in DaySet : HoursHold(record'[f][g])
      BY <2>3, <2>8, <2>9 DEF AttendanceInv, HoursInv
    <3>2. ASSUME NEW o \in Desks, desk'[o].at = "out"
          PROVE  CheckOutHolds(desk'[o], record'[desk'[o].emp][desk'[o].day])
      <4>1. o # k /\ desk'[o] = desk[o]  BY <1>2, <2>4, <3>2
      <4>2. CheckOutHolds(desk[o], record[desk[o].emp][desk[o].day])
        BY <3>2, <4>1 DEF AttendanceInv, HoursInv
      <4>3. desk[o].emp \in People /\ desk[o].day \in DaySet
        BY <2>5, <3>2, <4>1 DEF AttendanceTyped, DeskHolds
      <4>4. ~(desk[o].emp = e /\ desk[o].day = d)  BY <1>4, <4>2 DEF CheckOutHolds
      <4> QED BY <2>9, <4>1, <4>2, <4>3, <4>4
    <3> QED BY <3>1, <3>2 DEF HoursInv
  <2>12. ASSUME deskFaults' = 0, NEW f \in People, NEW m \in Months PROVE Covered(f, m)'
    <3>1. Covered(f, m)  BY <2>1, <2>12 DEF AttendanceInv
    <3>2. Refreshing(f, m) => Refreshing(f, m)'  BY <1>1, <2>4 DEF Refreshing
    <3>3. CASE f = e /\ m = MonthOf(d)
      <4>1. PICK q, p : q = record'[f] /\ p = record[f]  OBVIOUS
      <4>2. q[d] = r /\ p[d] = NoRecord /\ \A g \in DaySet : g # d => q[g] = p[g]
        BY <1>4, <2>8, <2>9, <3>3, <4>1
      <4>3. r # NoRecord  BY <2>3, RowsAssumption
      <4>4. Stored(q, m) = Stored(p, m) \cup {d} /\ d \notin Stored(p, m)
        BY <1>1, <3>3, <4>2, <4>3 DEF Stored
      <4>5. \A days \in SUBSET Stored(p, m) : Tally(q, days) = Tally(p, days)
        <5> SUFFICES ASSUME NEW days \in SUBSET Stored(p, m) PROVE Tally(q, days) = Tally(p, days)
          OBVIOUS
        <5>1. \A g \in days : q[g] = p[g]  BY <4>2, <4>4 DEF Stored
        <5> QED BY <5>1, TallySame
      <4>6. PICK closed : closed = ClosedDays(f, m)  OBVIOUS
      <4>7. ClosedDays(f, m)' = closed
        <5>1. ClosedDays(f, m) = {g \in Stored(p, m) : p[g].out # NoTime \/ p[g].regularized}
          BY <4>1 DEF ClosedDays
        <5>2. ClosedDays(f, m)' = {g \in Stored(q, m) : q[g].out # NoTime \/ q[g].regularized}
          BY <4>1 DEF ClosedDays, Stored
        <5>3. \A g \in Stored(p, m) : q[g] = p[g]  BY <4>2, <4>4 DEF Stored
        <5> QED BY <2>3, <4>2, <4>4, <4>6, <5>1, <5>2, <5>3
      <4>8. closed \subseteq Stored(p, m)  BY <4>1, <4>6 DEF ClosedDays
      <4>9. CASE Refreshing(f, m) \/ <<f, m>> \in outdated \/ (closed = {} /\ summary[f][m] = NoRecord)
        BY <2>1, <3>2, <4>6, <4>7, <4>9 DEF Covered
      <4>10. CASE \E open \in SUBSET (Stored(p, m) \ closed) : summary[f][m] = Tally(p, closed \cup open)
        <5>1. PICK open \in SUBSET (Stored(p, m) \ closed) : summary[f][m] = Tally(p, closed \cup open)
          BY <4>10
        <5>2. summary'[f][m] = Tally(q, closed \cup open)  BY <2>1, <4>5, <4>8, <5>1
        <5>3. open \in SUBSET (Stored(q, m) \ closed)  BY <4>4, <5>1
        <5>4. \E o \in SUBSET (Stored(q, m) \ closed) : summary'[f][m] = Tally(q, closed \cup o)
          BY <5>2, <5>3
        <5>5. Stored(record[f], m)' = Stored(q, m)  BY <4>1 DEF Stored
        <5>6. \A o : Tally(record[f], ClosedDays(f, m) \cup o)' = Tally(q, closed \cup o)
          BY <4>1, <4>7, Zenon DEF Tally, Worked, Overtime
        <5> QED BY <4>7, <5>4, <5>5, <5>6, Zenon DEF Covered
      <4> QED BY <3>1, <4>1, <4>6, <4>9, <4>10 DEF Covered
    <3>4. CASE ~(f = e /\ m = MonthOf(d))
      <4>1. \A g \in DaySet : MonthOf(g) = m => record'[f][g] = record[f][g]  BY <2>9, <3>4
      <4> QED BY <2>1, <3>1, <3>2, <4>1, CoveredStays
    <3> QED BY <3>3, <3>4
  <2> QED BY <2>10, <2>11, <2>12 DEF AttendanceInv
<1> QED BY <1>3, <1>4

LEMMA SummaryKeeps ==
  ASSUME AttendanceInv, NEW k \in Desks, WriteSummary(k) PROVE AttendanceInv'
<1> DEFINE e == desk[k].emp  m == desk[k].month  rs == desk[k].seen
<1>1. e \in People /\ m \in Months /\ rs \in [DaySet -> DayRow] /\ desk[k].at = "upsert"
  BY DEF AttendanceInv, AttendanceTyped, DeskHolds, WriteSummary
<1>2. /\ summary' = [summary EXCEPT ![e][m] = Tally(rs, Stored(rs, m))]
      /\ outdated' = IF \A d \in {x \in DaySet : MonthOf(x) = m} : rs[d] = record[e][d]
                     THEN outdated \ {<<e, m>>} ELSE outdated \cup {<<e, m>>}
      /\ Sit(k, Waiting) /\ UNCHANGED <<now, record, deskFaults>>
  BY DEF WriteSummary
<1> HIDE DEF e, m, rs
<1>3. Waiting.at = "idle" /\ DeskHolds(Waiting)  BY DEF Waiting, DeskHolds
<1>4. DOMAIN desk' = Desks /\ desk'[k] = Waiting /\ \A o \in Desks : o # k => desk'[o] = desk[o]
  BY <1>2, Sits DEF AttendanceInv
<1>5. PICK new : new = Tally(rs, Stored(rs, m))  OBVIOUS
<1>6. new \in Summaries  BY <1>1, <1>5, TallyIsSummary
<1>7. /\ summary' \in [People -> [Months -> Summaries \cup {NoRecord}]]
      /\ summary'[e][m] = new
      /\ \A f \in People, n \in Months : f # e \/ n # m => summary'[f][n] = summary[f][n]
  <2>1. summary \in [People -> [Months -> Summaries \cup {NoRecord}]]
    BY DEF AttendanceInv, AttendanceTyped
  <2>2. summary' = [summary EXCEPT ![e][m] = new]  BY <1>2, <1>5
  <2> QED BY <1>1, <1>6, <2>1, <2>2
<1>8. AttendanceTyped'
  <2>1. outdated' \subseteq People \X Months
    <3>1. outdated \subseteq People \X Months  BY DEF AttendanceInv, AttendanceTyped
    <3> QED BY <1>1, <1>2, <3>1
  <2> QED BY <1>2, <1>3, <1>4, <1>7, <2>1 DEF AttendanceInv, AttendanceTyped
<1>9. HoursInv'
  <2>1. \A f \in People, g \in DaySet : HoursHold(record'[f][g])
    BY <1>2 DEF AttendanceInv, HoursInv
  <2>2. \A o \in Desks : desk'[o].at = "out" => CheckOutHolds(desk'[o], record'[desk'[o].emp][desk'[o].day])
    BY <1>2, <1>3, <1>4 DEF AttendanceInv, HoursInv
  <2> QED BY <2>1, <2>2 DEF HoursInv
<1>10. ASSUME deskFaults' = 0, NEW f \in People, NEW n \in Months PROVE Covered(f, n)'
  <2>1. CASE f = e /\ n = m
    <3>1. CASE \A d \in {x \in DaySet : MonthOf(x) = m} : rs[d] = record[e][d]
      <4>1. PICK p : p = record[f]  OBVIOUS
      <4>2. \A d \in DaySet : MonthOf(d) = n => rs[d] = p[d]  BY <2>1, <3>1, <4>1
      <4>3. Stored(rs, n) = Stored(p, n)  BY <4>2 DEF Stored
      <4>4. \A d \in Stored(p, n) : rs[d] = p[d]  BY <4>2 DEF Stored
      <4>5. Tally(rs, Stored(p, n)) = Tally(p, Stored(p, n))  BY <4>4, TallySame
      <4>6. summary'[f][n] = Tally(p, Stored(p, n))  BY <1>5, <1>7, <2>1, <4>3, <4>5
      <4>7. PICK closed : closed = ClosedDays(f, n)  OBVIOUS
      <4>8. closed \subseteq Stored(p, n)  BY <4>1, <4>7 DEF ClosedDays
      <4>9. ClosedDays(f, n)' = closed  BY <1>2, <4>7 DEF ClosedDays, Stored
      <4>10. Stored(record[f], n)' = Stored(p, n)  BY <1>2, <4>1 DEF Stored
      <4>11. \A o : Tally(record[f], ClosedDays(f, n) \cup o)' = Tally(p, closed \cup o)
        BY <1>2, <4>1, <4>9, Zenon DEF Tally, Worked, Overtime
      <4>12. PICK open : open = Stored(p, n) \ closed  OBVIOUS
      <4>13. open \in SUBSET (Stored(p, n) \ closed) /\ closed \cup open = Stored(p, n)  BY <4>8, <4>12
      <4>14. \E o \in SUBSET (Stored(p, n) \ closed) : summary'[f][n] = Tally(p, closed \cup o)
        BY <4>6, <4>13
      <4> QED BY <4>9, <4>10, <4>11, <4>14, Zenon DEF Covered
    <3>2. CASE ~ \A d \in {x \in DaySet : MonthOf(x) = m} : rs[d] = record[e][d]
      <4>1. <<f, n>> \in outdated'  BY <1>2, <2>1, <3>2
      <4> QED BY <4>1 DEF Covered
    <3> QED BY <3>1, <3>2
  <2>2. CASE ~(f = e /\ n = m)
    <3>1. Covered(f, n)  BY <1>2, <1>10 DEF AttendanceInv
    <3>2. Refreshing(f, n) => Refreshing(f, n)'  BY <1>4, <2>2 DEF Refreshing, e, m
    <3>3. <<f, n>> \in outdated => <<f, n>> \in outdated'  BY <1>2, <2>2
    <3> QED BY <1>2, <1>7, <2>2, <3>1, <3>2, <3>3, CoveredStays
  <2> QED BY <2>1, <2>2
<1> QED BY <1>8, <1>9, <1>10 DEF AttendanceInv

LEMMA AttendanceInit == InitAttendance => AttendanceInv
<1> SUFFICES ASSUME InitAttendance PROVE AttendanceInv  OBVIOUS
<1>1. Waiting.at = "idle" /\ DeskHolds(Waiting)  BY DEF Waiting, DeskHolds
<1>2. /\ \A e \in People, d \in DaySet : record[e][d] = NoRecord
      /\ \A e \in People, m \in Months : summary[e][m] = NoRecord
      /\ \A k \in Desks : desk[k] = Waiting
  BY DEF InitAttendance
<1>3. AttendanceTyped
  BY <1>1, ClockAssumption DEF InitAttendance, AttendanceTyped, Times, DayRow
<1>4. HoursInv  BY <1>1, <1>2 DEF HoursInv, HoursHold
<1>5. ASSUME NEW e \in People, NEW m \in Months PROVE Covered(e, m)
  <2>1. ClosedDays(e, m) = {}  BY <1>2 DEF ClosedDays, Stored
  <2> QED BY <1>2, <2>1 DEF Covered
<1> QED BY <1>3, <1>4, <1>5 DEF AttendanceInv

LEMMA AttendanceNext == AttendanceInv /\ [NextAttendance]_attendanceVars => AttendanceInv'
<1> SUFFICES ASSUME AttendanceInv, [NextAttendance]_attendanceVars PROVE AttendanceInv'  OBVIOUS
<1> USE DEF AttendanceInv
<1>0. /\ Waiting.at = "idle" /\ DeskHolds(Waiting)
      /\ now \in Times /\ deskFaults \in 0 .. MaxDeskFaults
  BY DEF Waiting, DeskHolds, AttendanceTyped
<1>1. CASE Tick
  <2>1. now' \in Times  BY <1>0, <1>1, ClockAssumption DEF Tick, Times
  <2>2. UNCHANGED <<record, summary, desk, outdated, deskFaults>>  BY <1>1 DEF Tick
  <2>3. AttendanceTyped'  BY <2>1, <2>2 DEF AttendanceTyped
  <2>4. HoursInv'  BY <2>2 DEF HoursInv
  <2>5. ASSUME deskFaults' = 0, NEW e \in People, NEW m \in Months PROVE Covered(e, m)'
    <3>1. Covered(e, m) /\ (Refreshing(e, m) => Refreshing(e, m)')  BY <2>2, <2>5 DEF Refreshing
    <3> QED BY <2>2, <3>1, CoveredStays
  <2> QED BY <2>3, <2>4, <2>5
<1>2. ASSUME NEW k \in Desks, NEW e \in People, CheckIn(k, e) PROVE AttendanceInv'
  <2> DEFINE j == [at |-> "in", emp |-> e, day |-> DayOf(now)]
  <2>1. DeskHolds(j) /\ j.at = "in"  BY <1>0, DaysAreDays DEF DeskHolds
  <2>2. Sit(k, j) /\ desk[k].at = "idle" /\ UNCHANGED <<now, record, summary, outdated, deskFaults>>
    BY <1>0, <1>2 DEF CheckIn
  <2> HIDE DEF j
  <2> QED BY <1>0, <2>1, <2>2, DeskGoesOn
<1>3. ASSUME NEW k \in Desks, NEW e \in People, CheckOut(k, e) PROVE AttendanceInv'
  <2> DEFINE d == DayOf(now)  r == record[e][d]
             j == [at |-> "out", emp |-> e, day |-> d, out |-> now, hours |-> now - r.in,
                   status |-> IF now - r.in < HALF_DAY_THRESHOLD THEN "HALF_DAY" ELSE r.status]
  <2>1. d \in DaySet  BY <1>0, DaysAreDays
  <2>2. r \in Record /\ r # NoRecord  BY <1>3, <2>1 DEF CheckOut, AttendanceTyped, DayRow
  <2>3. r.in \in Int /\ r.status \in Statuses /\ now \in Int /\ now - r.in \in Int
    BY <1>0, <2>2, ClockAssumption DEF Record, Times
  <2>4. Sit(k, j) /\ desk[k].at = "idle" /\ UNCHANGED <<now, record, summary, outdated, deskFaults>>
    BY <1>0, <1>3 DEF CheckOut
  <2>5. j.at = "out" /\ j.emp = e /\ j.day = d /\ j.out = now /\ j.hours = now - r.in /\ j.status \in Statuses
    BY <2>3 DEF Statuses
  <2> HIDE DEF j, r, d
  <2>6. DeskHolds(j)  BY <2>1, <2>3, <2>5 DEF DeskHolds
  <2>7. CheckOutHolds(j, record[j.emp][j.day])  BY <2>2, <2>5 DEF CheckOutHolds, r
  <2> QED BY <1>0, <2>4, <2>5, <2>6, <2>7, DeskGoesOn
<1>4. ASSUME NEW k \in Desks, NEW e \in People, NEW d \in DaySet, NEW c \in Corrections,
             regularizeAttendance(k, e, d, c)
      PROVE  AttendanceInv'
  <2>1. PICK r : r = Corrected(record[e][d], d, c)  OBVIOUS
  <2>2. record[e][d] \in DayRow  BY DEF AttendanceTyped
  <2>3. r \in Record /\ r.regularized  BY <2>1, <2>2, CorrectedIsRow
  <2>4. record' = [record EXCEPT ![e][d] = r]
    BY <2>1, <1>4 DEF regularizeAttendance, AttendanceTyped
  <2>5. Sit(k, Rebuild(e, d)) /\ desk[k].at = "idle" /\ UNCHANGED <<now, summary, outdated, deskFaults>>
    BY <1>0, <1>4 DEF regularizeAttendance, AfterCorrection
  <2>6. HoursHold(r)  BY <2>3 DEF HoursHold
  <2> QED BY <2>3, <2>4, <2>5, <2>6, RowThenRebuild
<1>5. ASSUME NEW k \in Desks, CreateRecord(k) PROVE AttendanceInv'
  BY <1>5, ArrivalKeeps
<1>6. ASSUME NEW k \in Desks, WriteCheckOut(k) PROVE AttendanceInv'
  <2> DEFINE j == desk[k]  e == desk[k].emp  d == desk[k].day
  <2>1. j.at = "out" /\ e \in People /\ d \in DaySet /\ j.out \in Int /\ j.hours \in Int /\ j.status \in Statuses
    BY <1>6 DEF WriteCheckOut, AttendanceTyped, DeskHolds
  <2>2. CheckOutHolds(j, record[e][d])  BY <2>1 DEF HoursInv
  <2>3. record[e][d] \in Record  BY <2>1, <2>2 DEF CheckOutHolds, AttendanceTyped, DayRow
  <2>4. PICK r : r = Departure(record[e][d], j)  OBVIOUS
  <2>5. record' = [record EXCEPT ![e][d] = r] /\ Sit(k, Rebuild(e, d))
        /\ UNCHANGED <<now, summary, outdated, deskFaults>>
    BY <2>1, <2>4, <1>6 DEF WriteCheckOut, AttendanceTyped
  <2> HIDE DEF j, e, d
  <2>6. r \in Record /\ HoursHold(r) /\ r.regularized = record[e][d].regularized /\ r.in = record[e][d].in
    BY <2>1, <2>2, <2>3, <2>4, DepartureIsRow
  <2>7. desk[k].at \notin {"sum", "upsert"}  BY <2>1 DEF j
  <2> QED BY <2>1, <2>5, <2>6, <2>7, RowThenRebuild
<1>7. ASSUME NEW k \in Desks, ReadMonth(k) PROVE AttendanceInv'
  <2> DEFINE j == [at |-> "upsert", emp |-> desk[k].emp, month |-> desk[k].month, seen |-> record[desk[k].emp]]
  <2>1. desk[k].emp \in People /\ desk[k].month \in Months /\ desk[k].at = "sum"
    BY <1>7 DEF ReadMonth, AttendanceTyped, DeskHolds
  <2>2. Sit(k, j) /\ UNCHANGED <<now, record, summary, outdated, deskFaults>>  BY <1>7 DEF ReadMonth
  <2>3. record[desk[k].emp] \in [DaySet -> DayRow]  BY <2>1 DEF AttendanceTyped
  <2>4. DeskHolds(j) /\ j.at = "upsert" /\ j.emp = desk[k].emp /\ j.month = desk[k].month
    BY <2>1, <2>3 DEF DeskHolds
  <2> HIDE DEF j
  <2> QED BY <1>0, <2>2, <2>4, DeskGoesOn
<1>8. ASSUME NEW k \in Desks, WriteSummary(k) PROVE AttendanceInv'
  BY <1>8, SummaryKeeps
<1>9. ASSUME NEW k \in Desks, DeskFault(k) PROVE AttendanceInv'
  <2>1. Sit(k, Waiting) /\ UNCHANGED <<now, record, summary, outdated>>
        /\ deskFaults' = deskFaults + 1 /\ deskFaults < MaxDeskFaults
    BY <1>9 DEF DeskFault
  <2>2. deskFaults' \in 0 .. MaxDeskFaults /\ deskFaults' # 0  BY <1>0, <2>1, ClockAssumption
  <2> QED BY <1>0, <2>1, <2>2, DeskGoesOn
<1>10. CASE UNCHANGED attendanceVars
  <2>1. UNCHANGED <<now, record, summary, desk, outdated, deskFaults>>  BY <1>10 DEF attendanceVars
  <2>2. AttendanceTyped' /\ HoursInv'  BY <2>1 DEF AttendanceTyped, HoursInv
  <2>3. ASSUME deskFaults' = 0, NEW e \in People, NEW m \in Months PROVE Covered(e, m)'
    <3>1. Covered(e, m) /\ (Refreshing(e, m) => Refreshing(e, m)')  BY <2>1, <2>3 DEF Refreshing
    <3> QED BY <2>1, <3>1, CoveredStays
  <2> QED BY <2>2, <2>3
<1> QED BY <1>1, <1>2, <1>3, <1>4, <1>5, <1>6, <1>7, <1>8, <1>9, <1>10 DEF NextAttendance

----------------------------------------------------------------------------
(* The reports.                                                            *)

\* The employees and days that the report of the day shows with a status.
Shown(staff, days, s) == {p \in staff \X days : DailyStatus(p[1], p[2]) = s}

LEMMA ShownDayByDay ==
  ASSUME NEW staff, IsFiniteSet(staff), NEW days, IsFiniteSet(days), NEW s \in Statuses
  PROVE  /\ SumFunction([d \in days |-> getDailyReport(staff, d)[s]]) = Cardinality(Shown(staff, days, s))
         /\ IsFiniteSet(Shown(staff, days, s))
<1>1. PICK h : h = [d \in days |-> getDailyReport(staff, d)[s]]  OBVIOUS
<1>2. PICK S : S = Shown(staff, days, s)  OBVIOUS
<1>3. IsFiniteSet(S)
  <2>1. IsFiniteSet(staff \X days)  BY FS_Product
  <2>2. S \in SUBSET (staff \X days)  BY <1>2 DEF Shown
  <2> QED BY <2>1, <2>2, FS_Subset
<1>4. PICK part : part = [d \in days |-> {p \in S : p[2] = d}]  OBVIOUS
<1>5. \A p \in S : p \in staff \X days /\ p = <<p[1], p[2]>> /\ p[1] \in staff /\ p[2] \in days
                   /\ DailyStatus(p[1], p[2]) = s
  BY <1>2 DEF Shown
<1>6. Divides(part, days, S)  BY <1>4, <1>5 DEF Divides
<1>7. ASSUME NEW d \in days PROVE h[d] = Cardinality(part[d])
  <2>1. PICK A : A = {e \in staff : DailyStatus(e, d) = s}  OBVIOUS
  <2>2. h[d] = Cardinality(A)  BY <1>1, <2>1 DEF getDailyReport
  <2>3. IsFiniteSet(A) /\ IsFiniteSet(part[d])
    <3>1. A \in SUBSET staff /\ part[d] \in SUBSET S  BY <1>4, <2>1
    <3> QED BY <1>3, <3>1, FS_Subset
  <2>4. PICK b : b = [e \in A |-> <<e, d>>]  OBVIOUS
  <2>5. Pairs(b, A, part[d])
    <3>1. \A e \in A : <<e, d>> \in part[d]
      <4> SUFFICES ASSUME NEW e \in A PROVE <<e, d>> \in part[d]  OBVIOUS
      <4>1. e \in staff /\ DailyStatus(e, d) = s  BY <2>1
      <4>2. PICK p : p = <<e, d>>  OBVIOUS
      <4>3. p[1] = e /\ p[2] = d /\ p \in staff \X days  BY <4>1, <4>2
      <4>4. p \in S  BY <1>2, <4>1, <4>3 DEF Shown
      <4> QED BY <1>4, <4>2, <4>3, <4>4
    <3>2. \A p \in part[d] : p[1] \in A /\ p = <<p[1], d>>  BY <1>4, <1>5, <2>1
    <3> QED BY <2>4, <3>1, <3>2 DEF Pairs
  <2> QED BY <2>2, <2>3, <2>5, CountImage
<1>8. Cardinality(S) = SumFunctionOnSet(h, days)  BY <1>3, <1>6, <1>7, CountByGroup
<1>9. DOMAIN h = days  BY <1>1
<1> QED BY <1>1, <1>2, <1>3, <1>8, <1>9 DEF SumFunction

\* The rows there are.
Rows(staff, days) == {p \in staff \X days : record[p[1]][p[2]] # NoRecord}

LEMMA RowsAreFinite ==
  ASSUME NEW staff, IsFiniteSet(staff), NEW days, IsFiniteSet(days), NEW S \in SUBSET (staff \X days)
  PROVE  IsFiniteSet(S)
<1>1. IsFiniteSet(staff \X days)  BY FS_Product
<1> QED BY <1>1, FS_Subset

\* Summaries that count all rows of a month add up to the rows of all its days.
LEMMA MonthAddsUp ==
  ASSUME AttendanceTyped, NEW m \in Months, NEW days, days = {d \in DaySet : MonthOf(d) = m},
         NEW staff \in SUBSET People,
         \A e \in staff : \/ Stored(record[e], m) = {} /\ summary[e][m] = NoRecord
                          \/ summary[e][m] = Tally(record[e], Stored(record[e], m))
  PROVE  getMonthlyReport(staff, m) = getWeeklyReport(staff, days)
<1>1. IsFiniteSet(staff) /\ IsFiniteSet(days)
  <2>1. days \in SUBSET DaySet  OBVIOUS
  <2> QED BY <2>1, RowsAssumption, DaysAreDays, FS_Subset
<1>2. PICK known : known = {e \in staff : summary[e][m] # NoRecord}  OBVIOUS
<1>3. IsFiniteSet(known) /\ known \subseteq staff  BY <1>1, <1>2, FS_Subset
<1>4. PICK S : S = Rows(staff, days)  OBVIOUS
<1>5. /\ \A p \in S : /\ p = <<p[1], p[2]>> /\ p[1] \in staff /\ p[2] \in Stored(record[p[1]], m)
                      /\ p \in staff \X days /\ record[p[1]][p[2]] \in Record
      /\ \A e \in staff : \A d \in Stored(record[e], m) : <<e, d>> \in S
  <2>1. ASSUME NEW p \in S
        PROVE  /\ p = <<p[1], p[2]>> /\ p[1] \in staff /\ p[2] \in Stored(record[p[1]], m)
               /\ p \in staff \X days /\ record[p[1]][p[2]] \in Record
    <3>1. p \in staff \X days /\ record[p[1]][p[2]] # NoRecord  BY <1>4 DEF Rows
    <3>2. p = <<p[1], p[2]>> /\ p[1] \in staff /\ p[2] \in days  BY <3>1
    <3>3. record[p[1]][p[2]] \in DayRow  BY <3>2 DEF AttendanceTyped
    <3> QED BY <3>1, <3>2, <3>3 DEF Stored, DayRow
  <2>2. ASSUME NEW e \in staff, NEW d \in Stored(record[e], m) PROVE <<e, d>> \in S
    <3>1. PICK p : p = <<e, d>>  OBVIOUS
    <3>2. p[1] = e /\ p[2] = d /\ d \in days /\ record[e][d] # NoRecord  BY <3>1 DEF Stored
    <3>3. p \in staff \X days  BY <3>1, <3>2
    <3> QED BY <1>4, <3>1, <3>2, <3>3 DEF Rows
  <2> QED BY <2>1, <2>2
<1>6. IsFiniteSet(S) /\ \A p \in S : p[1] \in known
  <2>1. S \in SUBSET (staff \X days)  BY <1>5
  <2>2. ASSUME NEW p \in S PROVE p[1] \in known
    <3>1. summary[p[1]][m] = Tally(record[p[1]], Stored(record[p[1]], m)) /\ p[1] \in staff  BY <1>5
    <3>2. record[p[1]] \in [DaySet -> DayRow]  BY <3>1 DEF AttendanceTyped
    <3>3. summary[p[1]][m] \in Summaries  BY <3>1, <3>2, TallyIsSummary
    <3> QED BY <1>2, <3>1, <3>3, RowsAssumption
  <2> QED BY <1>1, <2>1, <2>2, RowsAreFinite
<1>7. \A e \in known : e \in staff /\ record[e] \in [DaySet -> DayRow] /\ IsFiniteSet(Stored(record[e], m))
                       /\ (summary[e][m] = Tally(record[e], Stored(record[e], m)))
  <2> SUFFICES ASSUME NEW e \in known
               PROVE  e \in staff /\ record[e] \in [DaySet -> DayRow] /\ IsFiniteSet(Stored(record[e], m))
                       /\ (summary[e][m] = Tally(record[e], Stored(record[e], m)))
    OBVIOUS
  <2>1. e \in staff /\ summary[e][m] # NoRecord  BY <1>2
  <2>2. Stored(record[e], m) \in SUBSET days  BY DEF Stored
  <2>3. IsFiniteSet(Stored(record[e], m))  BY <1>1, <2>2, FS_Subset
  <2> QED BY <2>1, <2>3 DEF AttendanceTyped
<1>8. ASSUME NEW s \in Reported
      PROVE  SumFunction([e \in known |-> summary[e][m].counts[s]])
               = Cardinality({p \in S : record[p[1]][p[2]].status = s})
  <2>1. PICK h : h = [e \in known |-> summary[e][m].counts[s]]  OBVIOUS
  <2>2. PICK T : T = {p \in S : record[p[1]][p[2]].status = s}  OBVIOUS
  <2>3. IsFiniteSet(T)  BY <1>6, <2>2, FS_Subset
  <2>4. PICK part : part = [e \in known |-> {p \in T : p[1] = e}]  OBVIOUS
  <2>5. Divides(part, known, T)  BY <1>6, <2>2, <2>4 DEF Divides
  <2>6. ASSUME NEW e \in known PROVE h[e] = Cardinality(part[e])
    <3>1. PICK A : A = {d \in Stored(record[e], m) : record[e][d].status = s}  OBVIOUS
    <3>2. h[e] = Cardinality(A)
      <4>1. s \in Statuses \ {"WEEKEND"}  BY DEF Reported, Statuses
      <4>2. Tally(record[e], Stored(record[e], m)).counts[s] = Cardinality(A)
        BY <3>1, <4>1 DEF Tally
      <4> QED BY <1>7, <2>1, <4>2
    <3>3. IsFiniteSet(A) /\ IsFiniteSet(part[e])
      <4>1. A \in SUBSET Stored(record[e], m) /\ part[e] \in SUBSET T  BY <2>4, <3>1
      <4> QED BY <1>7, <2>3, <4>1, FS_Subset
    <3>4. PICK b : b = [d \in A |-> <<e, d>>]  OBVIOUS
    <3>5. Pairs(b, A, part[e])
      <4>1. ASSUME NEW d \in A PROVE <<e, d>> \in part[e]
        <5>1. d \in Stored(record[e], m) /\ record[e][d].status = s /\ e \in staff  BY <1>7, <3>1
        <5>2. PICK p : p = <<e, d>>  OBVIOUS
        <5>3. p[1] = e /\ p[2] = d /\ p \in S  BY <1>5, <5>1, <5>2
        <5> QED BY <2>2, <2>4, <5>1, <5>2, <5>3
      <4>2. ASSUME NEW p \in part[e] PROVE p[2] \in A /\ p = <<e, p[2]>>
        <5>1. p \in S /\ p[1] = e /\ record[p[1]][p[2]].status = s  BY <2>2, <2>4
        <5> QED BY <1>5, <3>1, <5>1
      <4> QED BY <3>4, <4>1, <4>2 DEF Pairs
    <3> QED BY <3>2, <3>3, <3>5, CountImage
  <2>7. Cardinality(T) = SumFunctionOnSet(h, known)  BY <1>3, <2>3, <2>5, <2>6, CountByGroup
  <2>8. DOMAIN h = known  BY <2>1
  <2> QED BY <2>1, <2>2, <2>7, <2>8 DEF SumFunction
<1>9. SumFunction([e \in known |-> summary[e][m].hours])
        = SumFunction([p \in S |-> Worked(record[p[1]][p[2]])])
  <2>1. PICK h : h = [e \in known |-> summary[e][m].hours]  OBVIOUS
  <2>2. PICK g : g = [p \in S |-> Worked(record[p[1]][p[2]])]  OBVIOUS
  <2>3. \A p \in S : g[p] \in Int  BY <1>5, <2>2, RowValues
  <2>4. PICK part : part = [e \in known |-> {p \in S : p[1] = e}]  OBVIOUS
  <2>5. Divides(part, known, S)  BY <1>6, <2>4 DEF Divides
  <2>6. ASSUME NEW e \in known PROVE h[e] = SumFunctionOnSet(g, part[e])
    <3>1. PICK A : A = Stored(record[e], m)  OBVIOUS
    <3>2. PICK w : w = [d \in A |-> Worked(record[e][d])]  OBVIOUS
    <3>3. h[e] = SumFunctionOnSet(w, A)
      <4>1. Tally(record[e], Stored(record[e], m)).hours = SumFunction(w)
        BY <3>1, <3>2 DEF Tally
      <4>2. DOMAIN w = A  BY <3>2
      <4> QED BY <1>7, <2>1, <4>1, <4>2 DEF SumFunction
    <3>4. IsFiniteSet(A) /\ IsFiniteSet(part[e])
      <4>1. part[e] \in SUBSET S  BY <2>4
      <4> QED BY <1>6, <1>7, <3>1, <4>1, FS_Subset
    <3>5. PICK b : b = [d \in A |-> <<e, d>>]  OBVIOUS
    <3>6. ASSUME NEW d \in A PROVE <<e, d>> \in part[e] /\ w[d] = g[<<e, d>>]
      <4>1. PICK p : p = <<e, d>>  OBVIOUS
      <4>2. p[1] = e /\ p[2] = d /\ p \in S  BY <1>5, <1>7, <3>1, <4>1
      <4>3. g[p] = Worked(record[e][d])  BY <2>2, <4>2
      <4> QED BY <2>4, <3>2, <4>1, <4>2, <4>3
    <3>7. Pairs(b, A, part[e])
      <4>1. ASSUME NEW p \in part[e] PROVE p[2] \in A /\ p = <<e, p[2]>>
        BY <1>5, <2>4, <3>1
      <4> QED BY <3>5, <3>6, <4>1 DEF Pairs
    <3>8. (\A p \in part[e] : g[p] \in Int) /\ \A d \in A : w[d] = g[b[d]]
      BY <2>3, <2>4, <3>5, <3>6
    <3> QED BY <3>3, <3>4, <3>7, <3>8, SumImage
  <2>7. SumFunctionOnSet(g, S) = SumFunctionOnSet(h, known)
    BY <1>3, <1>6, <2>3, <2>5, <2>6, SumByGroup
  <2>8. DOMAIN h = known /\ DOMAIN g = S  BY <2>1, <2>2
  <2> QED BY <2>1, <2>2, <2>7, <2>8 DEF SumFunction
<1>10. [s \in Reported |-> SumFunction([e \in known |-> summary[e][m].counts[s]])]
         = [s \in Reported |-> Cardinality({p \in S : record[p[1]][p[2]].status = s})]
  BY <1>8
<1>11. getMonthlyReport(staff, m) =
         [counts |-> [s \in Reported |-> SumFunction([e \in known |-> summary[e][m].counts[s]])],
          hours |-> SumFunction([e \in known |-> summary[e][m].hours])]
  BY <1>2, Zenon DEF getMonthlyReport
<1>12. getWeeklyReport(staff, days) =
         [counts |-> [s \in Reported |-> Cardinality({p \in S : record[p[1]][p[2]].status = s})],
          hours |-> SumFunction([p \in S |-> Worked(record[p[1]][p[2]])])]
  BY <1>4, Zenon DEF getWeeklyReport, Rows
<1> QED BY <1>9, <1>10, <1>11, <1>12, Zenon

LEMMA ReportsFollow == AttendanceInv => ReportsAgree
<1> SUFFICES ASSUME AttendanceInv, NEW staff \in SUBSET People, NEW m \in Months,
                    NEW days, days = {d \in DaySet : MonthOf(d) = m}
             PROVE  LET week == getWeeklyReport(staff, days)
                        daily(s) == SumFunction([d \in days |-> getDailyReport(staff, d)[s]])
                        settled == \A e \in staff : /\ ~Refreshing(e, m) /\ <<e, m>> \notin outdated
                                                    /\ ClosedDays(e, m) = Stored(record[e], m) IN
                    /\ daily("PRESENT") = week.counts["PRESENT"] /\ daily("LATE") = week.counts["LATE"]
                    /\ daily("ABSENT") = week.counts["ABSENT"]
                         + Cardinality({p \in staff \X days : record[p[1]][p[2]] = NoRecord})
                    /\ deskFaults = 0 /\ settled => getMonthlyReport(staff, m) = week
  BY Zenon DEF ReportsAgree
<1>1. IsFiniteSet(staff) /\ IsFiniteSet(days) /\ days \subseteq DaySet
  <2>1. days \in SUBSET DaySet  OBVIOUS
  <2> QED BY <2>1, RowsAssumption, DaysAreDays, FS_Subset
<1>2. ASSUME NEW s \in Statuses
      PROVE  /\ SumFunction([d \in days |-> getDailyReport(staff, d)[s]]) = Cardinality(Shown(staff, days, s))
             /\ IsFiniteSet(Shown(staff, days, s))
  BY <1>1, ShownDayByDay
<1> DEFINE With(s) == {p \in Rows(staff, days) : record[p[1]][p[2]].status = s}
<1>3. ASSUME NEW s \in Reported PROVE getWeeklyReport(staff, days).counts[s] = Cardinality(With(s))
  BY <1>3 DEF getWeeklyReport, Rows
<1>4. ASSUME NEW s \in {"PRESENT", "LATE"}
      PROVE  SumFunction([d \in days |-> getDailyReport(staff, d)[s]]) = getWeeklyReport(staff, days).counts[s]
  <2>1. Shown(staff, days, s) = With(s)  BY DEF Shown, Rows, DailyStatus
  <2>2. s \in Statuses /\ s \in Reported  BY DEF Statuses, Reported
  <2> HIDE DEF With
  <2> QED BY <1>2, <1>3, <2>1, <2>2
<1>5. SumFunction([d \in days |-> getDailyReport(staff, d)["ABSENT"]])
        = getWeeklyReport(staff, days).counts["ABSENT"]
            + Cardinality({p \in staff \X days : record[p[1]][p[2]] = NoRecord})
  <2>1. PICK S, T, U : /\ S = Shown(staff, days, "ABSENT") /\ T = With("ABSENT")
                       /\ U = {p \in staff \X days : record[p[1]][p[2]] = NoRecord}
    OBVIOUS
  <2>2. S = T \cup U /\ T \cap U = {}  BY <2>1 DEF Shown, Rows, DailyStatus
  <2> HIDE DEF With
  <2>3. IsFiniteSet(S) /\ IsFiniteSet(T) /\ IsFiniteSet(U)
    <3>1. IsFiniteSet(S)  BY <1>2, <2>1 DEF Statuses
    <3>2. T \in SUBSET S /\ U \in SUBSET S  BY <2>2
    <3> QED BY <3>1, <3>2, FS_Subset
  <2>4. Cardinality(S) = Cardinality(T) + Cardinality(U)
    <3>1. Cardinality(T \cup U) = Cardinality(T) + Cardinality(U) - Cardinality(T \cap U)
      BY <2>3, FS_Union
    <3>2. Cardinality(T \cap U) = 0  BY <2>2, FS_EmptySet
    <3>3. Cardinality(T) \in Nat /\ Cardinality(U) \in Nat  BY <2>3, FS_CardinalityType
    <3> QED BY <2>2, <3>1, <3>2, <3>3
  <2>5. "ABSENT" \in Statuses /\ "ABSENT" \in Reported  BY DEF Statuses, Reported
  <2>6. SumFunction([d \in days |-> getDailyReport(staff, d)["ABSENT"]]) = Cardinality(S)
    BY <1>2, <2>1, <2>5
  <2>7. getWeeklyReport(staff, days).counts["ABSENT"] = Cardinality(T)  BY <1>3, <2>1, <2>5
  <2> QED BY <2>1, <2>4, <2>6, <2>7
<1>6. ASSUME deskFaults = 0,
             \A e \in staff : /\ ~Refreshing(e, m) /\ <<e, m>> \notin outdated
                              /\ ClosedDays(e, m) = Stored(record[e], m)
      PROVE  getMonthlyReport(staff, m) = getWeeklyReport(staff, days)
  <2>1. ASSUME NEW e \in staff
        PROVE  \/ Stored(record[e], m) = {} /\ summary[e][m] = NoRecord
               \/ summary[e][m] = Tally(record[e], Stored(record[e], m))
    <3>1. Covered(e, m)  BY <1>6 DEF AttendanceInv
    <3>2. PICK stored : stored = Stored(record[e], m)  OBVIOUS
    <3>3. ClosedDays(e, m) = stored  BY <1>6, <3>2
    <3>4. \A open \in SUBSET (stored \ stored) : stored \cup open = stored  OBVIOUS
    <3> QED BY <1>6, <3>1, <3>2, <3>3, <3>4 DEF Covered
  <2> QED BY <2>1, MonthAddsUp DEF AttendanceInv
<1> HIDE DEF With
<1>7. PICK d1, d2, d3 : /\ d1 = SumFunction([d \in days |-> getDailyReport(staff, d)["PRESENT"]])
                        /\ d2 = SumFunction([d \in days |-> getDailyReport(staff, d)["LATE"]])
                        /\ d3 = SumFunction([d \in days |-> getDailyReport(staff, d)["ABSENT"]])
  OBVIOUS
<1> QED BY <1>4, <1>5, <1>6, Zenon

\* Every row, every handler and every summary has its type (attendance.service.ts).
THEOREM AttendanceTypeCorrect == SpecAttendance => []AttendanceTypeOK
<1>1. AttendanceInv => AttendanceTypeOK
  <2>1. MaxDeskFaults \in Nat  BY ClockAssumption
  <2> QED BY DEF AttendanceInv, AttendanceTyped, AttendanceTypeOK, DeskHolds, DayRow
<1> QED BY <1>1, AttendanceInit, AttendanceNext, PTL DEF SpecAttendance

\* A day shows the hours between its times, a summary counts the closed days of its month,
\* and the reports of a day, of some days and of a month agree (attendance.service.ts:46-191,
\* attendance-report.service.ts:34-329).
THEOREM AttendanceAlwaysAgrees == SpecAttendance => []AttendanceAgrees
<1>1. AttendanceInv => HoursMatchTimes
  BY DEF AttendanceInv, HoursInv, HoursHold, HoursMatchTimes
<1>2. AttendanceInv => SummaryCoversClosedDays
  BY DEF AttendanceInv, Covered, SummaryCoversClosedDays
<1>3. AttendanceInv => AttendanceAgrees
  BY <1>1, <1>2, ReportsFollow DEF AttendanceAgrees
<1> QED BY <1>3, AttendanceInit, AttendanceNext, PTL DEF SpecAttendance

----------------------------------------------------------------------------
(* The three services together.                                            *)

\* Whatever the services do one beside the other, each does what it does alone.
LEMMA EachOffice == SpecOffices => SpecPayroll /\ SpecAttendance /\ SpecTabs
<1>1. InitOffices => InitPayroll /\ InitAttendance /\ InitTabs  BY DEF InitOffices
<1>2. [NextOffices]_officesVars =>
        [NextPayroll]_payrollVars /\ [NextAttendance]_attendanceVars /\ [NextTabs]_tabsVars
  BY DEF NextOffices, officesVars
<1> QED BY <1>1, <1>2, PTL DEF SpecOffices, SpecPayroll, SpecAttendance, SpecTabs

\* The rows of the three services have their types (payroll, attendance and tab services).
THEOREM OfficesTypeCorrect == SpecOffices => []OfficesTypeOK
<1>1. PayrollTypeOK /\ AttendanceTypeOK /\ TabsTypeOK => OfficesTypeOK  BY DEF OfficesTypeOK
<1> QED BY <1>1, EachOffice, PayrollTypeCorrect, AttendanceTypeCorrect, TabsTypeCorrect, PTL
=============================================================================
