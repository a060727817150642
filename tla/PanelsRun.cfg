SPECIFICATION Spec
CONSTANTS
    Gprs <- OneGpr
    Legacy = {"RAX"}
    XmmCount = 1
    StCount = 1
    States <- TwoStates
    Pointers = {2}
    Height = 7
    DecodeRows = 0
    MaxBatch = 2
INVARIANT
    BoxesFit
PROPERTIES
    CopiesWhatIsShown
    WheelMovesView
