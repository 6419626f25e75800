SPECIFICATION Spec
CONSTANTS
  Workers = {1, 2}
  Callers = {0, 1}
  MaxSteps = 2
  MaxNest = 1
INVARIANTS
  RunsWaitingThreads
