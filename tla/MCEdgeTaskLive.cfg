SPECIFICATION FairSpec
CONSTANTS
  t1 = t1
  r1 = r1
  r2 = r2
  g1 = g1
  q1 = q1
  w1 = w1
  w2 = w2
  Task = {t1}
  Robot = {r1, r2}
  Good = {g1}
  Request = {q1}
  NoRequest = NoRequest
  NoAck = NoAck
  Worker = {w1, w2}
  Connecting = {r1}
  MaxQuantity = 2
  MaxCrashes = 0
  Crews <- TwoCrews
  Orders <- TwoUnits
  Applications <- Whole
  Reports <- FewReports
INVARIANTS
  OnlyCrewCommanded
PROPERTIES
  CarriedTaskEnds
  DeadCrewEndsTask
