CONSTANTS
  a = a
  b = b
  c = c
  d = d
  Modules = {a, b, c, d}
  Methods = {"Search", "BreadthFirstSearch", "DepthFirstSearch"}
  Graphs <- MCGraphs
  MaxChanges = 1
  MaxMessages = 2
  Paths = {"direct", "gateway"}
  UserMessages <- MCUserMessages
  GatewayGraphs <- MCGatewayGraphs
  GatewayChanges = 0
SPECIFICATION GatewaySpec
INVARIANTS GatewayTypeOK DiscoveryOrder BreadthFirstComplete TierOrder RelayExact
PROPERTIES SearchReturns GatewayEnds
CHECK_DEADLOCK FALSE
