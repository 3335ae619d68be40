SPECIFICATION Spec
CONSTANTS
  e1 = e1
  hr = hr
  boss = boss
  annual = annual
  sick = sick
  Employees = {e1}
  Admins = {hr}
  Managers = {boss}
  ManagerOf <- MCManagerOf
  Types = {annual}
  Policy <- MCPolicy
  Years = {1, 2}
  Days = {1, 2}
  Workdays = {1, 2}
  YearOf <- MCYearOf
  Leaves = {l1, l2}
  Adjustments <- MCAdjustments
  Workers = {w1}
  MaxUnits = 3
  MaxFailures = 0
  None = None
  NoRow = NoRow
  NoLeave = NoLeave
SYMMETRY MCSymmetry
INVARIANT InTurnAllAgrees
PROPERTIES
  DecisionIsFinal
  ImplementsLedger
