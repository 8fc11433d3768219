SPECIFICATION Spec
CONSTANTS
  Walkers = {w1, w2}
  Nobody = nobody
  NoEntry = noEntry
  MaxJobs = 2
  MaxChunks = 1
  Capacity = 2
INVARIANTS JobsTrue
PROPERTIES AnswersFinal PollerReturns
CHECK_DEADLOCK FALSE
