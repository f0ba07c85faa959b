CONSTANTS
  ItemTypes = {"node", "edge"}
  a = a
  b = b
  c = c
  s = s
  x = x
  Keys <- MCKeys
  NoKey = NoKey
  Payloads = {x}
  Driver = "sqlite"
  Trackers = {"rw", "ro"}
  Writers = {"rw"}
  PutRequests <- MCPutRequests
  DeleteRequests <- MCDeleteRequests
  Apis = {"v1alpha", "v1beta"}
  ListType = "node"
  ListKeys <- MCListKeys
  KeyOrder <- MCKeyOrder
  MinLimit = 1
  MaxLimit = 2
  PageSize = 2
  Bits = 4
SPECIFICATION ListingSpec
INVARIANTS TypeOK PutVisible ListingExact
PROPERTIES ImplementsItemStore ListingEnds
