SPECIFICATION MCSpec
CONSTANTS
  Places = {0, 1}
  MaxHwnd = 3
  MaxDepth = 1
  MaxCalls = 4
  MaxCmds = 1
  Sizes = {1, 2}
  MaxDcs = 1
  MaxDraws = 2
  MaxMoves = 2
  MaxUpdates = 1
  MaxHandle = 5
  MaxMarks = 2
INVARIANTS
  HostFollows
  LinkedParentLives
  NoCommandStranded
  RestackKeepsOrder
  ShowsWhatWasDrawn
  SelectedExist
  CountsOpenDcs
  NothingUndrawn
CHECK_DEADLOCK FALSE
