SPECIFICATION SpecPersonnel
CONSTANTS
  Officers = {o1, o2}
  Users = {u1}
  UnitNames = {x1}
  MaxUnits = 1
  MaxErrands = 2
  NoOne = NoOne
CHECK_DEADLOCK FALSE
PROPERTY ClosesEmpty
