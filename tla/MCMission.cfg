SPECIFICATION Spec
CONSTANTS
  t1 = t1
  t2 = t2
  Task = {t1, t2}
  NoTask = NoTask
  MaxGoals = 2
  MaxRequests = 2
INVARIANTS
  TypeOK
  WaitsForItsOwn
  GoodsBelongToTask
