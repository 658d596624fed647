SPECIFICATION Spec
CONSTANTS
  r1 = r1
  r2 = r2
  s1 = s1
  s2 = s2
  v1 = v1
  w1 = w1
  w2 = w2
  p1 = p1
  p2 = p2
  Robot <- MCRobot
  Stamp <- MCStamp
  Version <- MCVersion
  Worker <- MCWorker
  Pose <- MCPose
  Archives <- MCArchives
  Origin = Origin
  NoFile = NoFile
  NoVersion = NoVersion
  MaxCrashes = 1
  MaxRefused = 1
SYMMETRY Symmetry
INVARIANTS
  TypeOK
  ToldPoseIsStored
  DistinctUntilReload
PROPERTIES
  IdentityIsFinal
