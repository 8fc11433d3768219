SPECIFICATION Spec
CONSTANTS
  h1 = h1
  h2 = h2
  h3 = h3
  NoTask = none
  Inventory <- ThreeHosts
  NTasks = 12
  Kind <- KindF
  Arm <- TreeF
  RunOnce = {1, 4}
  Ignore = {}
  Register = {1, 4}
  Looped = {}
  MaxItems = 0
  HandlerList <- HandlersF
  Composite = {11}
  Notify <- NotifyF
  May <- MayF
  Play <- PlayF
  TagSkipped = {7}
  Policies = {"stop", "mark_host_failed", "continue"}
INVARIANTS InStep Notified
PROPERTIES FailedSitOut Terminates
CHECK_DEADLOCK FALSE
