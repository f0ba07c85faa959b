CONSTANTS
  s1 = s1
  s2 = s2
  m1 = m1
  m2 = m2
  r1 = r1
  r2 = r2
  Sources = {s1, s2}
  Modules = {m1, m2}
  Refs = {r1, r2}
  NoRef = NoRef
  NoKey = NoKey
  Driver = "sqlite"
  Handlers = {1, 2}
  Requests <- MCRequests
  InitialTables <- MCInitialTables
  Overlap = FALSE
  PartialFailures = FALSE
SPECIFICATION Spec
INVARIANTS TypeOK NoOrphans TrackedExactly EndpointsLive QueriesAgree
