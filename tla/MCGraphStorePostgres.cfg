CONSTANTS
  ItemTypes = {"node", "edge"}
  a = a
  b = b
  s = s
  x = x
  y = y
  Keys <- MCKeys
  NoKey = NoKey
  Payloads = {x, y}
  Driver = "postgres"
  Trackers = {"rw", "ro"}
  Writers = {"rw"}
  PutRequests <- MCPutRequests
  DeleteRequests <- MCDeleteRequests
SPECIFICATION Spec
INVARIANTS PutVisible
