CONSTANTS
    Actors = {"root", "www"}
    Idle = Idle
    Scenes <- MCScenes
SPECIFICATION Spec
INVARIANTS AnswersTrue RerunQuiet DestSafe
PROPERTIES CheckPure
CHECK_DEADLOCK FALSE
