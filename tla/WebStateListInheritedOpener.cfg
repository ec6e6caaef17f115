\* Two tabs are enough: one inherits the other as its opener.
CONSTANTS
  WebStates = {w1, w2}
  NoWebState = NoWebState
  MaxNavigationIndex = 0
SPECIFICATION InheritSpec
PROPERTIES
  InheritedOpenerIsReset
CHECK_DEADLOCK FALSE
