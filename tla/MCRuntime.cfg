SPECIFICATION MCSpec
CONSTANTS
  Base = 4
  Limit = 44
  Sizes = {0, 5, 12}
  Strings = {"s", "t"}
  Chars = {1}
  MaxLen = 3
  Literals <- MCLiterals
  Pointers = {1, 2}
  Waves <- MCWaves
  Frequencies = {0, 5}
  Buffers = {3}
  Paths = {"version.dat"}
  VersionDat = "version.dat"
  Contents <- MCContents
  Digits = {4, 5, 6}
  Blanks = {8, 9}
  NewLine = 9
  Zero = 0
  OpenModes <- MCModes
  MaxDigits = 1
  MaxHandle = 2
  Bufs = {"b"}
  AreaSize = 2
  Counts = {1, 3}
  MaxCalls = 4
  Width = 4
  Height = 3
  Dcs <- MCDcs
  Rects <- MCRects
  Ends <- MCEnds
  Source <- MCSource
  Colours = {1, 2}
  MaxDraws = 2
  Columns = 4
  Lines = 2
  RunLengths = {1, 2, 3}
  RunPixels = {3, 5}
  LiteralRuns <- MCLiteralRuns
  Jumps <- MCJumps
  MaxPieces = 3
  RegionHandles = {1, 2}
  WindowWidth = 4
  WindowHeight = 4
  Margin = 1
  DrawnRects <- MCDrawnRects
  Coverings <- MCCoverings
  MaxOps = 3
INVARIANTS
  HeapIntact
  MergeLoopMatches
  RegionsExact
  PictureStays
  DecodesWhatWasEncoded
  GpuRepeats
  HeardThrough
  ReadsGoOn
  StringsAreValues
PROPERTIES
  LiveBlocksStay
  DrawsInsideClip
  TimeIsKept
CHECK_DEADLOCK FALSE
