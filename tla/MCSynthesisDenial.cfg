CONSTANTS
  EvidenceLimit = 2
INIT SynthesizerInit
NEXT SynthesizerNext
INVARIANTS
  DenialsAreRepaired
CHECK_DEADLOCK FALSE
