SPECIFICATION FairSpec
CONSTANTS
  Children = {c1, c2, c3}
  Root = root
  Callers = {k1}
  MaxDepth = 2
  MaxConcurrent = 2
  MaxRestarts = 1
  None = None
INVARIANTS
  DelegationTypeOK
  WithinLimits
  ParkedIsOwed
  BannerIsLive
PROPERTIES
  PromiseKept
  EveryoneIsReleased
CHECK_DEADLOCK FALSE
