SPECIFICATION SpecOffices
CONSTANTS
  Staff = {e1, e2}
  Periods = {p1}
  Pays <- MCPays
  Clerks = {c1, c2}
  MaxClerkFaults = 1
  NoPay = NoPay
  People = {e1}
  DayLength = 2
  MonthLength = 2
  MaxHour = 2
  LATE_THRESHOLD_HOUR = 1
  STANDARD_HOURS = 0
  HALF_DAY_THRESHOLD = 1
  Desks = {k1, k2}
  Corrections <- MCCorrections
  MaxDeskFaults = 1
  NoTime = NoTime
  NoRecord = NoRecord
  MaxMade = 5
  MaxChanges = 2
  MaxTabs = 3
  Handlers = {h1, h2}
  Edits <- MCEdits
  MaxTabFaults = 1
  Nothing = Nothing
CHECK_DEADLOCK FALSE
INVARIANTS
  OfficesTypeOK
  CountedPayslipsExist
  CompletedRunAddsUp
  AttendanceAgrees
  TabLimit
  OrderlyAlone
PROPERTY RunsComplete
