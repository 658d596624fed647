SPECIFICATION SimFairSpec
CONSTANTS
  Robots = {r1}
  Instances = {a, b}
  None = None
  MaxChanges = 2
  MaxQueue = 1
  MaxRestarts = 1
INVARIANTS
  SimTypeOK
  OneLaunch
  ActiveStands
PROPERTIES
  ModelsConvergeIfDeleted
CHECK_DEADLOCK FALSE
