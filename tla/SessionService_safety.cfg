\* Two windows, one tab, two saves delayed or queued; deletion of all sessions.
CONSTANTS
  Scenes = {a, b}
  Tabs = {t1}
  NoFile = NoFile
  MaxSaves = 2
  Deletions = {{a, b}}
SPECIFICATION Spec
SYMMETRY Symmetry
INVARIANTS
  TypeOK
  LeftTabsAreKept
  MovedAsideOnce
