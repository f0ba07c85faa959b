CONSTANTS
  u1 = u1
  u2 = u2
  u3 = u3
  u4 = u4
  m1 = m1
  m2 = m2
  r0 = r0
  r1 = r1
  Workers = {1, 2}
  Fetches <- MCFetches
  Sources = {u1, u2}
  Modules = {m1, m2}
  Refs = {r0, r1}
  NoRef = NoRef
  NoKey = NoKey
  Driver = "mysql"
  PartialFailures = FALSE
  Requests <- MCRequests
  InitialTables <- MCInitialTables
  MaxTracked = 2
  TrackedFetches <- MCTrackedFetches
  MaxFaults = 1
SPECIFICATION SystemSpec
INVARIANTS WaitGroupExact ReturnsAfterAllWork OneTrackPerSource IndexedExactly
PROPERTY Terminates
CHECK_DEADLOCK FALSE
