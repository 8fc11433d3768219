SPECIFICATION Spec
CONSTANTS
  Waiters = {w1, w2, w3}
  Publishers = {p1, p2}
  Results = {ok, failed}
  NoResult = none
INVARIANTS NoLostWakeup
PROPERTIES ImplementsBroadcast
CHECK_DEADLOCK FALSE
