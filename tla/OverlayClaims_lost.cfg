\* An overlay that UIKit presents is never presented again.
CONSTANTS
  WebStates = {a, b}
  Requests = {r}
  Null = Null
  UIKinds = {"presented"}
SPECIFICATION FairSpec
PROPERTIES
  ActiveRequestIsPresented
