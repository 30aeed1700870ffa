CONSTANTS
  MaxRuns = 3
  MaxReaders = 1
  MaxStored = 1
  Slots = 1
  Threshold = 1
  Cooldown = 1
  MaxTime = 1
SPECIFICATION Spec
INVARIANTS
  LiveRunsAreFound
  TokensFollowRuns
  FollowUpsExtendAnswers
PROPERTIES
  CancelledBeforeAdmission
  EvictionsAreDue
  RunsEnd
CHECK_DEADLOCK FALSE
