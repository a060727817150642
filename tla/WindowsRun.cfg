SPECIFICATION FairSpec
CONSTANTS
    MaxCode = 3
    MaxRequest = 4
    MAX_STEPS_LIMIT = 3
    ThreadExit = FALSE
    HostFailures = FALSE
PROPERTIES
    Returns
    ImplementsPlatformRun
CHECK_DEADLOCK FALSE
