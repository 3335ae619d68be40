----------------------------- MODULE OfficesMC -----------------------------
(***************************************************************************)
(* Instances of three components that share no table and no handler:       *)
(* payroll, attendance, and the tabs of the workspace.  A behaviour of     *)
(* several of them is an interleaving of one of each, so a run lets one    *)
(* component move.                                                         *)
(***************************************************************************)
EXTENDS Payroll, Attendance, Tabs

VARIABLE office  \* the component that moves

officesVars == <<office, payrollVars, attendanceVars, tabsVars>>

InitOffices ==
  /\ office \in {"payroll", "attendance", "tabs"}
  /\ InitPayroll /\ InitAttendance /\ InitTabs

NextOffices ==
  \/ office = "payroll" /\ NextPayroll /\ UNCHANGED <<office, attendanceVars, tabsVars>>
  \/ office = "attendance" /\ NextAttendance /\ UNCHANGED <<office, payrollVars, tabsVars>>
  \/ office = "tabs" /\ NextTabs /\ UNCHANGED <<office, payrollVars, attendanceVars>>

SpecOffices == InitOffices /\ [][NextOffices]_officesVars /\ ClerksProceed

\* Every variable of the three components has its type.
OfficesTypeOK == PayrollTypeOK /\ AttendanceTypeOK /\ TabsTypeOK

\* A gross pay at the limit of the state insurance and one above it.
MCPays == {[basic |-> 20000, allowances |-> 1000], [basic |-> 20001, allowances |-> 1000]}

\* A leave entered for a day, and the times of a day that was missed.
MCCorrections ==
  {[status |-> "ON_LEAVE", in |-> NoTime, out |-> NoTime],
   [status |-> "PRESENT", in |-> 0, out |-> 1]}

\* A move to the front, and one far to the right of a tab that is shown as well.
MCEdits == {[position |-> 0, active |-> Nothing], [position |-> 2, active |-> TRUE]}
=============================================================================
