\* Overlays shown as child view controllers: every front request is presented.
CONSTANTS
  WebStates = {a, b}
  Requests = {r, s}
  Null = Null
  UIKinds = {"contained"}
SPECIFICATION FairSpec
PROPERTIES
  ActiveRequestIsPresented
