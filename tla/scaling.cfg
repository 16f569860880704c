SPECIFICATION FairSpec
CONSTANTS
    NumNodes = 3
    NumLinks = 4
    Policy <- RowPolicy
    Anchor = {2, 3}
    Merges = {2}
    InputOf <- RowIn
    FirstOut <- RowOut
    Outs <- RowOuts
    OutputLink = 4
    Threads <- RowThreads
    MaxThreads <- RowMax
    ConfiguredCap = 5
    Trends <- RowTrends
INVARIANTS
    TypeOK
PROPERTIES
    KeepsStaffed
    RemovalsWait
    DonationsArrive
    NeedIsServed
