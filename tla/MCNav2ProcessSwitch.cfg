SPECIFICATION FairSpec
CONSTANTS
  Version = {v1, v2}
  NotReady = NotReady
  None = None
  MaxChanges = 2
  MaxRestarts = 0
  MaxFailures = 0
PROPERTIES
  ReadyNav2IsActive
CHECK_DEADLOCK FALSE
