CONSTANTS
  a = a
  b = b
  c = c
  d = d
  Modules = {a, b, c, d}
  Methods = {"DepthFirstSearch"}
  Graphs <- MCGraphs
  MaxChanges = 0
  MaxMessages = 1
SPECIFICATION FairSpec
INVARIANT DepthFirstComplete
CHECK_DEADLOCK FALSE
