SPECIFICATION LiveSpec
CONSTANTS
  c1 = c1
  c2 = c2
  Sockets = {s1}
  Tokens = {t1}
  Clients = {c1, c2}
  Runners = {c1}
  Requests = {r1, r2}
  Devices = {}
  DeviceOf <- MCDeviceOf
  NodeIds = {n1}
  NoSocket = NoSocket
  NoDevice = NoDevice
  NoNode = NoNode
  NoToken = NoToken
  Orderly = {}
  MaxFaults = 1
  MaxStalls = 0
  MaxRestarts = 1
CHECK_DEADLOCK FALSE
INVARIANT RelayKeepsBooks
PROPERTIES StreamEnds DisconnectShows
