SPECIFICATION SpecGateway
CONSTANTS
  k1 = k1
  k2 = k2
  a1 = a1
  a2 = a2
  Agents = {a1, a2}
  Order <- MCTwo
  Modes = {"single", "delegate", "parallel", "sequential"}
  Calls = {k1, k2}
  OpsOf <- MCOpsOf
  MaxFaults = 1
  MaxConnections = 3
  Queries = {q1}
  maxReconnectAttempts = 2
  NotSent = NotSent
CHECK_DEADLOCK FALSE
INVARIANTS GatewayTypeOK TracesInOrder OneConnection ReadyMeansAuthenticated
PROPERTIES ExecutionsEnd RequestsSettle
