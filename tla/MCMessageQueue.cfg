SPECIFICATION MCSpec
CONSTANTS
  Threads = {0, 2}
  popup = popup
  timer = timer
  Windows = {popup}
  FirstOwner <- WorkerOwns
  TimerIds = {timer}
  Positions = {p}
  Never = Never
  MaxTime = 2
  MaxQueue = 1
  MaxInput = 2
INVARIANTS
  NobodySleepsOnWork
  MessagesAtOwner
  LastWindowQuits
  OneOfEach
CHECK_DEADLOCK FALSE
