\* Three tabs, the two forwarders and the two agents that wait for realization.
CONSTANTS
  WebStates = {w1, w2, w3}
  NoWebState = NoWebState
  MaxNavigationIndex = 0
  Observers <- FourObservers
SPECIFICATION ObserversSpec
SYMMETRY Symmetry
INVARIANTS
  TypeOK
  NoDanglingOpener
  NoDuplicate
  ActiveIndexIsValid
  ActiveWebStateIsRealized
  ForwardersFollowList
  NobodyObservesDestroyed
  WebUsageFollowsSetting
  InstalledOnRealizedTabs
PROPERTIES
  CloseAllEmptiesList
  ActiveChangesOnlyWhenTold
  SelectionSurvivesUntilEmpty
  SelectionStaysInFamily
