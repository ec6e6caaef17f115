\* Two sources, of which one replaces the other; one request; one worker task.
SPECIFICATION FairSpec
CONSTANTS
  Sources = {s1, s2}
  Replacing = {s2}
  Jobs = {j1}
  None = None
INVARIANTS
  TypeOK
  BackendPointerIsValid
  NoSourceIsLeaked
PROPERTIES
  UnlockedPostsDontRace
  ScheduledSourcesAreDeleted
  RequestIsServedUnlessDetached
