SPECIFICATION Spec
CONSTANTS
  Threads = {0}
  frame = frame
  Windows = {frame}
  FirstOwner <- MainOwns
  TimerIds = {timer}
  Positions = {p}
  Never = Never
  MaxTime = 2
  MaxQueue = 1
  MaxInput = 2
INVARIANT EveryMessageWakes
CHECK_DEADLOCK FALSE
