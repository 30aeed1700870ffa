CONSTANTS
  MaxRuns = 2
  Last = 3
  Ring = 2
  Buffer = 1
  MaxBreaks = 1
SPECIFICATION Spec
INVARIANTS
  QuietMeansCurrent
PROPERTIES
  PlanFollowsRun
  ClientLearnsTheEnd
CHECK_DEADLOCK FALSE
