SPECIFICATION Spec
CONSTANTS
  c1 = c1
  c2 = c2
  c3 = c3
  x1 = x1
  x2 = x2
  Calls <- MCNoCalls
  MaxDepth = 1
  Stops <- MCNoCalls
  Restarts <- MCNoCalls
  MaxStarts = 2
  MaxSessions = 3
CHECK_DEADLOCK FALSE
INVARIANTS
  NoOrphan
