SPECIFICATION Spec
CONSTANTS
  h1 = h1
  h2 = h2
  h3 = h3
  NoTask = none
  Inventory <- TwoHosts
  NTasks = 4
  Kind <- KindC
  Arm <- TreeC
  RunOnce = {3}
  Ignore = {}
  Register = {}
  Looped = {}
  MaxItems = 0
  HandlerList <- NoHandlers
  Composite = {}
  Notify <- NoNotify
  May <- MayC
  Plays <- PlayC
  TagSkipped = {}
INVARIANTS SlotAligned
CHECK_DEADLOCK FALSE
