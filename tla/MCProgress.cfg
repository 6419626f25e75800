SPECIFICATION MCSpec
CONSTANTS
  Workers = {1, 2}
  Callers = {0}
  MaxSteps = 1
  MaxNest = 1
  w = w
  e = e
  mutex = mutex
  Infinite = Infinite
  NoTime = NoTime
  s = s
  NoThread = NoThread
  NoCall = NoCall
  NoEntry = NoEntry
  NoSock = NoSock
INVARIANTS
  GoesOnWhereItStopped
  StacksInUse
PROPERTIES
  ReadyRuns
  FiniteCallsEnd
  SignalReleases
  CloseEndsRecv
