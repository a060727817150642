SPECIFICATION Spec
CONSTANTS
    MaxCode = 3
    MaxRequest = 4
    MAX_STEPS_LIMIT = 3
    AsyncSignals = TRUE
    TracerDeath = TRUE
    IgnoredSIGCHLD <- BothValues
INVARIANTS
    StepsChained
    OutcomeJustified
    TraceIsExecution
    EndsCleanly
    RecordsMatchReaders
    AccessTruthful
    TracerDeathKillsWorker
