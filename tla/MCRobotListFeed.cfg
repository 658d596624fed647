SPECIFICATION FairSpec
CONSTANTS
  MAX_SEND_QUEUE = 2
  MaxVersions = 3
  MaxSessions = 2
  MaxUnderWay = 0
INVARIANTS
  TypeOK
  TriggerIsKept
PROPERTIES
  ImplementsFeed
  CurrentListArrives
CHECK_DEADLOCK FALSE
