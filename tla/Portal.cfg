SPECIFICATION SpecWorkspace
CONSTANTS
  q1 = q1
  q2 = q2
  d1 = d1
  d2 = d2
  w1 = w1
  u1 = u1
  a1 = a1
  a2 = a2
  t1 = t1
  p1 = p1
  p2 = p2
  m2 = m2
  m1 = m1
  Owner = Owner
  Guest = Guest
  Asks = {q1, q2}
  AskedBy <- MCAskedBy
  Callers = {k1, k2}
  Terms <- MCTerms
  MessageCost = 0
  MaxShares = 2
  MaxConversations = 2
  MaxTurns = 2
  None = None
  Talks = {d1, d2}
  Helpers = {b1}
  Stranger = b2
  MaxDelegations <- MCDelegations
  Streams = {1, 2}
  MaxTalkFaults = 1
  Nobody = Nobody
  Jobs = {k1, k2}
  Models = {m1}
  Wanted <- MCWanted
  Crews = {w1}
  Caps = {1, 2}
  SessionCost = 1
  MaxJobs = 4
  Nil = Nil
  Visits = {k1, k2}
  AccessRequests = {r1}
  MaxSecond = 1
  MaxVisits = 4
  NoToken = NoToken
  Officers = {k1, k2}
  Users = {u1, u2}
  UnitNames = {u1, u2}
  MaxUnits = 2
  MaxErrands = 4
  NoOne = NoOne
  Agents = {a1, a2}
  MakerOf <- MCMakerOf
  TeamOf <- MCTeamOf
  ModelOf <- MCModelOf
  People = {p1, p2}
  Uses <- MCUses
  SessionCosts = {1}
  MonthLength = 2
  Periods = {1, 2}
  Ranges <- MCRanges
  Week = 1
  Thirty = 2
  MaxDay = 2
  Ids = {k1, k2}
  MaxPosts = 1
  Absent = Absent
CHECK_DEADLOCK FALSE
SYMMETRY MCWorkspaceSymmetry
INVARIANTS
  WorkspaceTypeOK
  MessagesSettled
  RevocationsLast
  MasterSucceedsLast
  StreamsTellAll
  AgentKeepsUp
  CredentialsEnd
  DecisionsFinal
  StaffInOrder
  MCReportsAgree
