CONSTANTS
    CommandLines <- MCCommandLines
    Backends <- MCBackends
    AttBackends <- MCAttBackends
    Length <- MCLength
    Registers <- MCRegisters
    MaxTrace = 2
    DEFAULT_MAX_STEPS = 2
    MAX_STEPS_LIMIT = 3
    MAX_RAW_FILE_BYTES = 4
SPECIFICATION QuickFairSpec
INVARIANTS ParseAgrees ExitTruthful TextReplays DocumentConsistent
PROPERTIES Exits
