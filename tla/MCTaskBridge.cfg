SPECIFICATION FairSpec
CONSTANTS
  request = request
  carry1 = carry1
  carry2 = carry2
  s1 = s1
  t1 = t1
  Event = {request, carry1, carry2}
  event_type <- MCEventType
  Stamp = {s1}
  Task = {t1}
  MaxCrashes = 1
INVARIANTS
  TypeOK
  NothingForgotten
PROPERTIES
  StoredLeavesWhenHandled
  StoredReportsAreDelivered
