CONSTANTS
  Claims = {"margin", "outlook", "risk"}
  Deterministic = {"margin"}
  Scenarios = {}
  Invented = {"ghost"}
  MaxIssues = 2
SPECIFICATION Spec
INVARIANTS
  EmptyDecisionGainsNothing
CHECK_DEADLOCK FALSE
