SPECIFICATION Spec
CONSTANTS
    long = long
    short = short
    Codes <- TwoCodes
    Size <- Sizes
    Decoded <- Lengths
    BadText = BadText
    NoCode = NoCode
    BackendCount = 2
    AttBackends = {0}
    MaxEvents = 3
INVARIANTS
    HistoryFresh
    TargetInside
PROPERTIES
    SelectionKept
    NavigationFollowsExecution
