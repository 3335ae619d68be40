SPECIFICATION Spec
CONSTANTS
  e1 = e1
  hr = hr
  boss = boss
  annual = annual
  sick = sick
  Employees = {e1}
  Admins = {hr}
  Managers = {boss}
  ManagerOf <- MCManagerOf
  Types = {annual, sick}
  Policy <- MCPolicy
  Years = {1, 2}
  Days = {1, 2}
  Workdays = {1, 2}
  YearOf <- MCYearOf
  Leaves = {l1}
  Adjustments = {1}
  Workers = {w1, w2}
  MaxUnits = 2
  MaxFailures = 1
  None = None
  NoRow = NoRow
  NoLeave = NoLeave
SYMMETRY MCSymmetry
INVARIANTS
  BooksBalance
  ChargedRowExists
PROPERTY OnlyStaleWritesUnbalance
