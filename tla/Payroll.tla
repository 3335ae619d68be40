------------------------------ MODULE Payroll ------------------------------
(***************************************************************************)
(* Salary structures, payroll runs and payslips.  A handler is a sequence  *)
(* of awaited database calls without a transaction; several handlers       *)
(* (Clerks) interleave between those calls and may stop there.             *)
(***************************************************************************)
EXTENDS Integers

CONSTANTS
  Staff,          \* employees
  Periods,        \* the (month, year) pairs runs are created for
  Pays,           \* salary structures HR enters: basic pay and total allowances
  Clerks,         \* handlers that may be in flight together
  MaxClerkFaults, \* bound: database calls that fail
  NoPay           \* no row of the table

Amount == [basic : Nat, allowances : Nat]

ASSUME PaysAssumption == Pays \subseteq Amount /\ NoPay \notin Amount
ASSUME ClerkBound == MaxClerkFaults \in Nat

VARIABLES
  employed,    \* employees whose status is ACTIVE
  salary,      \* salary_structures, one row per employee
  run,         \* payroll_runs, keyed by period: status and the payslips it added up
  payslip,     \* payslips, keyed by period and employee
  clerk,       \* what each handler is in the middle of
  begun,       \* history: the handlers that found each run in DRAFT
  clerkFaults

payrollVars == <<employed, salary, run, payslip, clerk, begun, clerkFaults>>

----------------------------------------------------------------------------
(* The arithmetic of a payslip, in rupees; Math.round rounds halves up.    *)

Gross(pay) == pay.basic + pay.allowances

calcPf(basic) == (12 * basic + 50) \div 100

\* The employees' state insurance is due up to a gross pay of 21000.
calcEsi(gross) == IF gross <= 21000 THEN (75 * gross + 5000) \div 10000 ELSE 0

calcProfessionalTax == 200

Deductions(pay) == calcPf(pay.basic) + calcEsi(Gross(pay)) + calcProfessionalTax

Slip(pay) == [gross |-> Gross(pay), deductions |-> Deductions(pay),
              net |-> Gross(pay) - Deductions(pay)]

----------------------------------------------------------------------------
NoSlip    == [gross |-> 0, deductions |-> 0, net |-> 0]
AtDesk    == [at |-> "idle"]
NoRun     == [status |-> "none", counted |-> {}]
Structure == [pay : Pays, active : BOOLEAN]
Slips     == {Slip(pay) : pay \in Pays}
Pending   == [emp : Staff, slip : Slips]
Runs      == [status : {"none", "DRAFT", "PROCESSING", "COMPLETED"}, counted : SUBSET Pending]

ClerkJobs == {AtDesk}
   \cup [at : {"replace"}, emp : Staff, pay : Pays]
   \cup [at : {"mark", "collect"}, period : Periods]
   \cup [at : {"write", "complete"}, period : Periods, due : SUBSET Pending, done : SUBSET Pending]

InitPayroll ==
  /\ employed = Staff
  /\ salary = [e \in Staff |-> NoPay]
  /\ run = [p \in Periods |-> NoRun]
  /\ payslip = [p \in Periods |-> [e \in Staff |-> NoSlip]]
  /\ clerk = [c \in Clerks |-> AtDesk]
  /\ begun = [p \in Periods |-> {}]
  /\ clerkFaults = 0

Take(c, j) == clerk' = [clerk EXCEPT ![c] = j]

\* updateEmployee and deleteEmployee write the status in one update; an employee who has
\* left can be made ACTIVE again.
ChangeStatus(e) ==
  /\ employed' = IF e \in employed THEN employed \ {e} ELSE employed \cup {e}
  /\ UNCHANGED <<salary, run, payslip, clerk, begun, clerkFaults>>

\* createSalaryStructure deactivates the structure the employee has ...
DeactivateSalary(c, e, pay) ==
  /\ clerk[c] = AtDesk
  /\ salary' = IF salary[e] = NoPay THEN salary ELSE [salary EXCEPT ![e].active = FALSE]
  /\ Take(c, [at |-> "replace", emp |-> e, pay |-> pay])
  /\ UNCHANGED <<employed, run, payslip, begun, clerkFaults>>

\* ... and inserts another, which the unique index on the employee refuses if there is one.
InsertSalary(c) ==
  /\ clerk[c].at = "replace"
  /\ LET e == clerk[c].emp IN
       salary' = IF salary[e] # NoPay THEN salary
                 ELSE [salary EXCEPT ![e] = [pay |-> clerk[c].pay, active |-> TRUE]]
  /\ Take(c, AtDesk)
  /\ UNCHANGED <<employed, run, payslip, begun, clerkFaults>>

\* createPayrollRun: the unique index makes the check and the insert one step.
CreateRun(p) ==
  /\ run[p] = NoRun
  /\ run' = [run EXCEPT ![p].status = "DRAFT"]
  /\ UNCHANGED <<employed, salary, payslip, clerk, begun, clerkFaults>>

----------------------------------------------------------------------------
(* processPayrollRun.                                                      *)

\* Mutant: a run that failed half way may be processed again.
MayProcess_AgainToo(p) == run[p].status \in {"DRAFT", "PROCESSING"}

MayProcess(p) == run[p].status = "DRAFT"

ProcessRun(c, p) ==
  /\ clerk[c] = AtDesk
  /\ MayProcess(p)
  /\ begun' = [begun EXCEPT ![p] = @ \cup {c}]
  /\ Take(c, [at |-> "mark", period |-> p])
  /\ UNCHANGED <<employed, salary, run, payslip, clerkFaults>>

\* Unconditional: whatever the status has become meanwhile.
MarkProcessing(c) ==
  /\ clerk[c].at = "mark"
  /\ run' = [run EXCEPT ![clerk[c].period].status = "PROCESSING"]
  /\ Take(c, [clerk[c] EXCEPT !.at = "collect"])
  /\ UNCHANGED <<employed, salary, payslip, begun, clerkFaults>>

Payable == {e \in employed : salary[e] # NoPay /\ salary[e].active}

\* Mutant: the run is updated as if the inserts had been made.
NextWrite_NoInserts(p, due, done) ==
  [at |-> "complete", period |-> p, due |-> {}, done |-> due \cup done]

\* The next call of a handler that has payslips still to insert.
NextWrite(p, due, done) ==
  [at |-> IF due = {} THEN "complete" ELSE "write", period |-> p, due |-> due, done |-> done]

\* One query returns every active employee with an active structure.
CollectEmployees(c) ==
  /\ clerk[c].at = "collect"
  /\ Take(c, NextWrite(clerk[c].period, {[emp |-> e, slip |-> Slip(salary[e].pay)] : e \in Payable}, {}))
  /\ UNCHANGED <<employed, salary, run, payslip, begun, clerkFaults>>

\* The inserts follow the order of the query, which is unspecified.  The unique index
\* refuses a second payslip of an employee, and the error ends the handler.
CreatePayslip(c) ==
  /\ clerk[c].at = "write"
  /\ \E s \in clerk[c].due :
       IF payslip[clerk[c].period][s.emp] = NoSlip
       THEN /\ payslip' = [payslip EXCEPT ![clerk[c].period][s.emp] = s.slip]
            /\ Take(c, NextWrite(clerk[c].period, clerk[c].due \ {s}, clerk[c].done \cup {s}))
       ELSE Take(c, AtDesk) /\ UNCHANGED payslip
  /\ UNCHANGED <<employed, salary, run, begun, clerkFaults>>

\* Mutant: the final status is left out of the update.
Settled_StillProcessing(done) == [status |-> "PROCESSING", counted |-> done]

Settled(done) == [status |-> "COMPLETED", counted |-> done]

CompleteRun(c) ==
  /\ clerk[c].at = "complete"
  /\ run' = [run EXCEPT ![clerk[c].period] = Settled(clerk[c].done)]
  /\ Take(c, AtDesk)
  /\ UNCHANGED <<employed, salary, payslip, begun, clerkFaults>>

\* A database call fails or the process ends: what was written stays.
ClerkFault(c) ==
  /\ clerk[c] # AtDesk
  /\ clerkFaults < MaxClerkFaults
  /\ clerkFaults' = clerkFaults + 1
  /\ Take(c, AtDesk)
  /\ UNCHANGED <<employed, salary, run, payslip, begun>>

Processing(c) == MarkProcessing(c) \/ CollectEmployees(c) \/ CreatePayslip(c) \/ CompleteRun(c)

NextPayroll ==
  \/ \E e \in Staff : ChangeStatus(e)
  \/ \E p \in Periods : CreateRun(p)
  \/ \E c \in Clerks :
       \/ \E e \in Staff, pay \in Pays : DeactivateSalary(c, e, pay)
       \/ \E p \in Periods : ProcessRun(c, p)
       \/ InsertSalary(c) \/ Processing(c) \/ ClerkFault(c)

SpecPayroll == InitPayroll /\ [][NextPayroll]_payrollVars

\* The database answers.
ClerksProceed == \A c \in Clerks : WF_payrollVars(Processing(c))

----------------------------------------------------------------------------
PayrollTypeOK ==
  /\ employed \subseteq Staff
  /\ salary \in [Staff -> Structure \cup {NoPay}]
  /\ run \in [Periods -> Runs]
  /\ payslip \in [Periods -> [Staff -> Slips \cup {NoSlip}]]
  /\ clerk \in [Clerks -> ClerkJobs]
  /\ begun \in [Periods -> SUBSET Clerks]
  /\ clerkFaults \in 0..MaxClerkFaults

Filed(p) == {e \in Staff : payslip[p][e] # NoSlip}

\* What a completed run has added up was paid out: each employee it counts has the very
\* payslip it counted, though handlers race for the run and a later one may overwrite its
\* totals (payroll.service.ts:231 to :236).
CountedPayslipsExist ==
  \A p \in Periods : \A s \in run[p].counted : payslip[p][s.emp] = s.slip

\* One handler began the run, and no other did.
Alone(p) == \E c \in Clerks : begun[p] = {c}

\* A run that one handler processed counts every payslip it has, whatever happens to
\* employees and salaries meanwhile, so its totals are those of its payslips.
CompletedRunAddsUp ==
  \A p \in Periods : run[p].status = "COMPLETED" /\ Alone(p) =>
    {s.emp : s \in run[p].counted} = Filed(p)

\* A run that one handler processes is completed, unless the handler fails: nothing
\* processes a run again (payroll.service.ts:165).
RunsComplete ==
  \A p \in Periods :
    run[p].status = "PROCESSING" ~>
      run[p].status = "COMPLETED" \/ ~Alone(p) \/ clerkFaults > 0
=============================================================================
