SPECIFICATION Spec
CONSTANTS
  h1 = h1
  r1 = r1
  r2 = r2
  NoThread = NoThread
  Threads <- MCThreads
  Requests <- MCRequests
  Home <- MCHome
  MaxFaults = 0
  MaxCrashes = 1
CHECK_DEADLOCK FALSE
INVARIANTS
  DeadSessionAsksNothing
