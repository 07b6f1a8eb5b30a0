SPECIFICATION FairLockSpec
CONSTANTS
  h1 = h1
  t1 = t1
  t2 = t2
  t3 = t3
  Threads <- MCThreads
  Turns <- MCTurns
  Home <- MCHome
  Prompts = {p1}
  SettledMemory = 2
  NoTurn = NoTurn
  NoPrompt = NoPrompt
INVARIANTS
  LockTypeOK
  OnePlace
  WaiterIsBehindHolder
  LaneAgrees
PROPERTIES
  OutcomeStands
  ServesInOrder
  EveryCallerAnswered
