SPECIFICATION FairSpec
CONSTANTS
    MaxCode = 3
    MaxRequest = 3
    MAX_STEPS_LIMIT = 2
    c1 = c1
    c2 = c2
    big = big
    little = little
    Callers = {c1, c2}
    Cores = {big, little}
    NoCaller = NoCaller
    Scenarios <- SomeScenarios
    MAX_STRUCTURED_FEATURE_SUBLEAF = 3
    XSTATE_BITS = 5
    MaxMigrations = 2
INVARIANTS
    TraceExplained
    FingerprintSound
PROPERTY
    Returns
