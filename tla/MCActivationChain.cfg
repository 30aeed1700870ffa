CONSTANTS
  MaxFilings = 3
  LastYear = 2
  MaxNow = 4
INIT ActivationInit
NEXT ActivationNext
INVARIANTS
  ReleasedIsAuthorized
CHECK_DEADLOCK FALSE
