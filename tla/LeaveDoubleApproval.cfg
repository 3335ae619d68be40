SPECIFICATION Spec
CONSTANTS
  e1 = e1
  hr = hr
  boss = boss
  annual = annual
  sick = sick
  Employees = {e1}
  Admins = {hr}
  Managers = {boss}
  ManagerOf <- MCManagerOf
  Types = {sick}
  Policy <- MCPolicy
  Years = {1}
  Days = {1}
  Workdays = {1}
  YearOf <- MCOneYear
  Leaves = {l1, l2}
  Adjustments = {}
  Workers = {w1, w2}
  MaxUnits = 3
  MaxFailures = 0
  None = None
  NoRow = NoRow
  NoLeave = NoLeave
SYMMETRY MCSymmetry
INVARIANTS
  UsedIsApproved
