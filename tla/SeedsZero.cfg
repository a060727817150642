SPECIFICATION SeedsSpec
CONSTANTS
    Regs = {"RAX", "RDI", "RSP"}
    LegacyRegs = {"RAX"}
    XMMs = {0}
    STs = {0}
    StatusFlags = {"CF"}
    Entries <- SomeEntries
    DataBase <- Base
    InitialRSP <- Top
    MaxWrites = 1
INVARIANT
    DefaultOnlyIfUnseeded
