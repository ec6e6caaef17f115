\* Two windows; neither needs a tab to be saved.
CONSTANTS
  Scenes = {a, b}
  Tabs = {t1}
  NoFile = NoFile
  MaxSaves = 2
  Deletions = {{a, b}}
SPECIFICATION Spec
PROPERTIES
  DelayedSaveHappens
