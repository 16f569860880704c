SPECIFICATION LiveSpec
CONSTANTS
    Worker <- MoreWorker
    Node <- SoloNode
    External = {}
    Branch = {}
    Fixed = {}
    Mergeable = {"a"}
    Returning = {}
    Input = {"a"}
    Feeds <- SoloFeeds
    Startup <- SoloStartup
    Reserve <- SoloReserve
    MaxThreads <- SoloMax
    ConfiguredCap = 3
    Feeder = {}
    FailAt = {"init", "process", "merge"}
    MayPanic = FALSE
    Recorder = {}
    Reporter = {}
    MaxScale = 3
INVARIANTS
    TypeOK
    RosterExact
    MergeWaitsOnlyOnReturn
    StatesAccounted
    WithinLimits
    NodesStaffed
PROPERTIES
    NoAssignmentAfterClose
    AbortEnds
    ScaleSettles
    ImplementsStaffing
