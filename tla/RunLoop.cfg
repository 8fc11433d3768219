SPECIFICATION Spec
CONSTANTS
  Inventory <- Names
  GroupNames <- Groups
  All = "all"
  Localhost = "localhost"
  MaxDepth = 2
  Jobs <- AllJobs
  NoJob = NoJob
  MaxConcurrent = 1
  BatchMax = 2
  MaxRetries = 1
  Answers = {"ok", "refused", "busy", "unanswered"}
INVARIANTS ContextsTrue ReportFaithful LoadMeant SelectionMeant
PROPERTIES NeverBack RunEnds
CHECK_DEADLOCK FALSE
