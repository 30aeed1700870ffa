CONSTANTS
  NumContexts = 3
  NumReviews = 1
  WaveOf <- MCWaveOf
  Limit = 2
  MaxRetries = 0
  MaxRepairPasses = 1
  Claims = {"growth", "risk"}
  ClaimsOf <- MCClaimsOf
  Retain = TRUE
  StoreAvailable = TRUE
SPECIFICATION LiveSpec
INVARIANT DeletedCaseIsShown
CHECK_DEADLOCK FALSE
