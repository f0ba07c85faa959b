CONSTANTS
  r = r
  a = a
  b = b
  c = c
  Modules = {r, a, b, c}
  Searches <- MCSearches
SPECIFICATION FairSpec
INVARIANT EveryModuleListed
CHECK_DEADLOCK FALSE
