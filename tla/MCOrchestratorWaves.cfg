CONSTANTS
  NumContexts = 4
  NumReviews = 1
  WaveOf <- WavesWaveOf
  Limit = 2
  MaxRetries = 1
  MaxRepairPasses = 0
  Claims = {"risk"}
  ClaimsOf <- WavesClaimsOf
SPECIFICATION FairSpec
INVARIANTS
  AnnouncedRunIsResolved
  BoundedFanOut
  TraceIsBracketed
PROPERTIES
  DeadContextNeverAnswers
  Termination
CHECK_DEADLOCK FALSE
