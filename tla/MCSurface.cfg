SPECIFICATION Spec
CONSTANTS
  Sizes = {1, 2}
  MaxDcs = 2
  MaxDraws = 2
  MaxMoves = 2
  MaxCmds = 1
INVARIANT UploadFits
CHECK_DEADLOCK FALSE
