SPECIFICATION Spec
CONSTANTS
  h1 = h1
  h2 = h2
  h3 = h3
  NoTask = none
  Inventory <- TwoHosts
  NTasks = 26
  Kind <- KindAE
  Arm <- TreeAE
  RunOnce = {4, 5, 14, 17, 19}
  Ignore = {9}
  Register = {4, 5}
  Looped = {18}
  MaxItems = 2
  HandlerList <- HandlersAE
  Composite = {25}
  Notify <- NotifyAE
  May <- MayAE
  Plays <- PlaysAE
  TagSkipped = {17}
INVARIANTS RunOnceShared BlocksMeant OutcomeTrue Notified
PROPERTIES Terminates
CHECK_DEADLOCK FALSE
