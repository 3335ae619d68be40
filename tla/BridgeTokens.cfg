SPECIFICATION SpecNodes
CONSTANTS
  c1 = c1
  c2 = c2
  d1 = d1
  Sockets = {s1, s2}
  Tokens = {t1}
  Clients = {c1}
  Devices = {d1}
  DeviceOf <- MCOneDevice
  NodeIds = {n1, n2}
  NoSocket = NoSocket
  NoDevice = NoDevice
  NoNode = NoNode
  NoToken = NoToken
  Orderly = {}
  MaxFaults = 0
  MaxStalls = 0
  MaxRestarts = 0
CHECK_DEADLOCK FALSE
INVARIANT TokenAdmitsOnce
