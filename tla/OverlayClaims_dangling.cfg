\* The presented request is destroyed in another window.
CONSTANTS
  WebStates = {a, b}
  Requests = {r, s}
  Null = Null
  UIKinds = {"presented"}
SPECIFICATION Spec
SYMMETRY Symmetry
INVARIANTS
  PresentedRequestIsKept
