SPECIFICATION Spec
CONSTANTS
    MaxCode = 2
    MaxRequest = 3
    MAX_STEPS_LIMIT = 2
    ThreadExit = TRUE
    HostFailures = FALSE
INVARIANT
    FinishedMeansLeft
CHECK_DEADLOCK FALSE
