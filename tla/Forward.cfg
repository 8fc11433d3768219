\* Two runs at once: both stage, or one of them brings its own binaries.
SPECIFICATION Spec
CONSTANTS
  Runs = {r1, r2}
  MayBring = {r2}
  MaxMishaps = 1
  MaxPurges = 1
INVARIANTS StagingSafe RunTrue
PROPERTIES ForwardEnds
CHECK_DEADLOCK FALSE
