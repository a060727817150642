SPECIFICATION FairSpec
CONSTANTS
    MaxCode = 2
    MaxRequest = 3
    MAX_STEPS_LIMIT = 3
    AsyncSignals = FALSE
    TracerDeath = FALSE
    IgnoredSIGCHLD <- BothValues
PROPERTIES
    Returns
    ImplementsPlatformRun
