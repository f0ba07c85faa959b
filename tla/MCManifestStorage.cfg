CONSTANTS
  s1 = s1
  s2 = s2
  m1 = m1
  m2 = m2
  m3 = m3
  m4 = m4
  r1 = r1
  r2 = r2
  Handlers = {h1, h2}
  Sources = {s1, s2}
  Overlapping = {s1}
  NoUrl = NoUrl
  Modules = {m1, m2, m3, m4}
  Refs = {r1, r2}
  NoRef = NoRef
  NoKey = NoKey
  Requests <- MCRequests
  Window = 0
SPECIFICATION Spec
SYMMETRY HandlerSymmetry
INVARIANTS TypeOK ResponsesMatch StoredExactly NothingUnreachable NoReaderLeft CallGoesOn
PROPERTY ForeignRowsKept
