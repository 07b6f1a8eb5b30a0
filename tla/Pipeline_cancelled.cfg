SPECIFICATION Spec
CONSTANTS
  a = a
  b = b
  c = c
  d = d
  e = e
  Runs = {r1}
  Steps = {a, b, c, d, e}
  Rank <- MCRank
  DependsOn <- MCDependsOn
  Retries <- MCRetries
  Isolated = {a, b, c, d}
  MaxParallel = 2
  MaxMishaps = 0
  None = None
INVARIANTS
  StopsEverything
CHECK_DEADLOCK FALSE
