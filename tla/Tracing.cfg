SPECIFICATION SpecTracing
CONSTANTS
  c1 = c1
  c2 = c2
  d1 = d1
  h1 = h1
  h2 = h2
  b1 = b1
  b2 = b2
  i1 = i1
  i2 = i2
  a1 = a1
  a2 = a2
  a3 = a3
  Sockets = {s1, s2}
  Tokens = {t1, t2}
  Clients = {c1, c2}
  Devices = {d1}
  DeviceOf <- MCSharedDevice
  NodeIds = {n1, n2}
  NoSocket = NoSocket
  NoDevice = NoDevice
  NoNode = NoNode
  NoToken = NoToken
  Orderly = {c1}
  MaxFaults = 1
  MaxStalls = 1
  MaxRestarts = 1
  Posts = {p1}
  Price <- MCPrice
  Usages <- MCUsages
  MaxEvents = 3
  Imports = {i1, i2}
  NamesOf <- MCNamesOf
  Registered = {a1}
  MaxProxyFaults = 1
  Sessions = {1, 2}
  Workers = {a1, a2}
  Statuses = {"error", "running"}
  Entries = {s1, s2}
  Contents <- MCContents
  Editors = {k1}
  MaxTime = 3
  MaxPolls = 2
  MaxTraceFaults = 1
  NoSession = NoSession
  Heads = {h1, h2, h3}
  Bots = {b1, b2}
  MakerOf <- MCMakerOf
  Clerks = {k1}
  MaxMoves = 2
  MaxBot = 1
  MaxHops = 4
  Nobody = Nobody
  Names = {a1, a2, a3}
  SlugOf <- MCSlugOf
  File <- MCFile
  Callers = {s1, s2}
  MaxCalls = 2
  MaxRegistryFaults = 1
  NoName = NoName
CHECK_DEADLOCK FALSE
SYMMETRY MCTracingSymmetry
INVARIANTS
  TracingTypeOK
  NodesInOrder
  WrittenAsReported
  TracesAddUp
  StreamShowsOnce
  RollupAddsUp
  SyncsWriteOnce
PROPERTY ClosedSocketsLeaveTheMap
