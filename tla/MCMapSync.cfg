SPECIFICATION FairSpec
CONSTANTS
  v1 = v1
  v2 = v2
  Version = {v1, v2}
  NoVersion = NoVersion
  Reuploaded = {v2}
  MaxResponses = 1
  MaxCrashes = 1
INVARIANTS
  TypeOK
  MapIsKept
PROPERTIES
  ShownVersionIsHeld
  MissingMapArrives
