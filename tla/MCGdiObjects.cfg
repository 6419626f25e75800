SPECIFICATION GdiSpec
CONSTANTS
  MaxHandle = 5
  MaxMarks = 3
INVARIANT BlitsEnd
CHECK_DEADLOCK FALSE
