\* Alerts, which are contained, and infobars, which are presented.
CONSTANTS
  WebStates = {a, b}
  Requests = {r, s}
  Null = Null
  UIKinds = {"contained", "presented"}
SPECIFICATION Spec
SYMMETRY Symmetry
INVARIANTS
  TypeOK
  PresentingAgreesWithContext
  NoDanglingRequest
  PresentedWhilePresenting
  TabsKeepTheirDelegate
  HidesUIThatIsShown
  DismissalIsOfPresentedRequest
  PopsWhatWasDismissed
  OnlyCurrentRequestAwaitsDismissal
