CONSTANTS
  MaxAudits = 3
  MaxRecords = 1
  TTL = 1
  MaxAuditTime = 1
  Claims = {"margin", "outlook", "risk"}
  Deterministic = {"margin"}
  Scenarios = {}
  Invented = {"ghost"}
  MaxIssues = 2
  MaxDecisions = 2
  MaxFilings = 3
  LastYear = 2
  MaxNow = 4
  MaxYear = 2
  EvidenceLimit = 2
  Tools = {"first", "second"}
INIT Start
NEXT ComponentsNext
INVARIANTS
  ErasedStaysErased
  LeftoversAreKnown
  RefusedForCause
  GoSpeaksForNumbers
  SearchKeepsTheAnswer
  FiguresAgree
  NumbersAreShown
  RepairsSuffice
  ReportKeepsContract
  RejectionWins
  VouchedForSurvives
  RunsAreAsAsked
  QuestionsCanBeAnswered
  ReceiptsAreTheLastWord
  AuthorityIsUsable
  RankedPairsAreLikeForLike
  AuthorityIsPromoted
  ActivityIsTold
CHECK_DEADLOCK FALSE
