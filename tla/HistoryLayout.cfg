SPECIFICATION FairSpec
CONSTANTS
    MaxSize = 4
    MaxLength = 3
    MaxEvents = 3
INVARIANTS
    RowsInInput
    StaticRowsSound
    EventRowsInOrder
    EveryByteShown
    LayoutAgrees
PROPERTY
    Returns
