SPECIFICATION Spec
CONSTANTS
  h1 = h1
  h2 = h2
  h3 = h3
  NoTask = none
  Inventory <- ThreeHosts
  NTasks = 2
  Kind <- KindD
  Arm <- TreeD
  RunOnce = {1}
  Ignore = {}
  Register = {}
  Looped = {}
  MaxItems = 0
  HandlerList <- NoHandlers
  Composite = {}
  Notify <- NoNotify
  May <- MayD
  Plays <- PlayD
  TagSkipped = {}
PROPERTIES Served
CHECK_DEADLOCK FALSE
