\* Two pages, of which one may redirect, or a page and a frame; two items.
CONSTANTS
  URLs = {u, v}
  Items = {i, j}
  Checks = {c1, c2}
  Null = Null
  MaxChain = 1
  MaxFrames = 1
  Redirecting = {{}}
SPECIFICATION Spec
SYMMETRY Symmetry
INVARIANTS
  TypeOK
  ErrorHasResource
  AnsweredUnlessOvertaken
  FramesAnsweredUnlessOvertaken
PROPERTIES
  ImplementsPolicy
