\* A UI state outlives its request.
CONSTANTS
  WebStates = {a, b}
  Requests = {r, s}
  Null = Null
  UIKinds = {"presented"}
SPECIFICATION Spec
SYMMETRY Symmetry
INVARIANTS
  UIStatesHaveRequests
