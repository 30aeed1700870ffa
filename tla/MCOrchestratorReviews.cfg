CONSTANTS
  NumContexts = 1
  NumReviews = 2
  WaveOf <- ReviewsWaveOf
  Limit = 1
  MaxRetries = 0
  MaxRepairPasses = 1
  Claims = {"growth", "margin", "risk"}
  ClaimsOf <- ReviewsClaimsOf
SPECIFICATION Spec
INVARIANTS
  TypeOK
  UnanimousRelease
  StruckNeverCited
PROPERTIES
  ImplementsReleaseGate
CHECK_DEADLOCK FALSE
