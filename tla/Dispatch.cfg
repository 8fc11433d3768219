SPECIFICATION Spec
CONSTANTS
  Jobs <- AllJobs
INVARIANTS ArgsArrive FramesTrue TasksRead
CHECK_DEADLOCK FALSE
