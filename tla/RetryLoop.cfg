SPECIFICATION LinkedSpec
CONSTANTS
  Counts <- MCCounts
  NoRetries = none
  Outputs <- MCOutputs
  ChanCap = 1
  WireCap = 1
  PipeCap = 1
  Linked <- MCLinked
  Sizes = {"fits"}
INVARIANTS DecisionTable AnswerTrue LinkSound
PROPERTIES LinkEnds
CHECK_DEADLOCK FALSE
