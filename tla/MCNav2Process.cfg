SPECIFICATION FairSpec
CONSTANTS
  Version = {v1, v2}
  NotReady = NotReady
  None = None
  MaxChanges = 2
  MaxRestarts = 1
  MaxFailures = 1
INVARIANTS
  TypeOK
  OwnNav2HasTheMap
  PoseIsForOwnNav2
PROPERTIES
  NavigationComesUp
CHECK_DEADLOCK FALSE
