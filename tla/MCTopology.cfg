CONSTANTS
  r = r
  a = a
  b = b
  c = c
  Modules = {r, a, b, c}
  Searches <- MCSearches
SPECIFICATION FairSpec
INVARIANTS TierSorted OmittedOnlyBehindCycles
PROPERTY SortEnds
CHECK_DEADLOCK FALSE
