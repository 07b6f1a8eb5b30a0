SPECIFICATION FairSpec
CONSTANTS
  c1 = c1
  c2 = c2
  c3 = c3
  x1 = x1
  x2 = x2
  Calls <- MCCalls
  MaxDepth = 1
  Stops <- MCStops
  Restarts <- MCRestarts
  MaxStarts = 2
  MaxSessions = 3
CHECK_DEADLOCK FALSE
INVARIANTS
  TypeOK
  OneCallAtATime
  NoLostWaiter
  StatusIsTrue
  StoppedIsGone
PROPERTIES
  EveryCallSettles
  EveryStopReturns
