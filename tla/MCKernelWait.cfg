SPECIFICATION Spec
CONSTANTS
  m = m
  w1 = w1
  w2 = w2
  e1 = e1
  e2 = e2
  mutex = mutex
  Main = m
  Workers = {w1, w2}
  Events = {e1, e2}
  Opaque = {mutex}
  WaitCalls <- MCWaitCalls
  Naps = {1}
  MaxTime = 2
  Infinite = Infinite
  NoTime = NoTime
  NoCall = NoCall
INVARIANTS
  IInv
  NoLeftovers
  NoLostWakeup
  SnapshotStaysValid
PROPERTIES
  ImplementsBlockingWait
