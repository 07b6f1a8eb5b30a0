SPECIFICATION TeamSpec
CONSTANTS
  h1 = h1
  t1 = t1
  t2 = t2
  Threads <- MCThreads
  Turns <- MCTwoTurns
  Home <- MCHome
  Prompts = {p1}
  SettledMemory = 4
  NoTurn = NoTurn
  NoPrompt = NoPrompt
  NoThread = NoThread
  Context = Context
  MaxMishaps = 0
CHECK_DEADLOCK FALSE
INVARIANTS
  AnswerIsOwn
