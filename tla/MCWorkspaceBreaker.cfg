CONSTANTS
  MaxRuns = 2
  MaxReaders = 1
  MaxStored = 2
  Slots = 1
  Threshold = 2
  Cooldown = 1
  MaxTime = 1
SPECIFICATION Spec
INVARIANT
  BreakerOpensOnModelFailures
CHECK_DEADLOCK FALSE
