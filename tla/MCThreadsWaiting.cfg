\* A handler that was interrupted takes no further step.
CONSTANTS
    MaxThreads = 3
    MaxStarts = 3
    MainEnds = TRUE
    None = None
SPECIFICATION Spec
PROPERTY WaitingHandsOver
CHECK_DEADLOCK FALSE
