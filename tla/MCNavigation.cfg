SPECIFICATION FairSpec
CONSTANTS
  MaxGoals = 2
INVARIANTS
  TypeOK
  DiesOfSecondGoal
PROPERTIES
  ImplementsAction
  GoalsAreAnswered
CHECK_DEADLOCK FALSE
