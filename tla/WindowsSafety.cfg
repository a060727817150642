SPECIFICATION Spec
CONSTANTS
    MaxCode = 3
    MaxRequest = 4
    MAX_STEPS_LIMIT = 3
    ThreadExit = TRUE
    HostFailures = TRUE
INVARIANTS
    TraceIsExecution
    HandlerNeverReallocates
    EndsCleanly
    AlwaysHandled
