\* Every list of four tabs, every opener relation, two navigation indexes; the
\* loop ends, and then nothing more happens.
CONSTANTS
  Length = 4
  WebStates = {1, 2, 3, 4}
  NoWebState = 0
  MaxNavigationIndex = 1
SPECIFICATION Spec
INVARIANTS
  LoopFindsNearestStayingChild
  ScanFindsNextAndLast
PROPERTIES
  LoopTerminates
CHECK_DEADLOCK FALSE
