SPECIFICATION Spec
CONSTANTS
    Worker <- SoloWorker
    Node <- SoloNode
    External = {}
    Branch = {}
    Fixed = {}
    Mergeable = {"a"}
    Returning = {}
    Input = {"a"}
    Feeds <- SoloFeeds
    Startup <- DuoStartup
    Reserve <- DuoReserve
    MaxThreads <- SoloMax
    ConfiguredCap = 2
    Feeder = {}
    FailAt = {}
    MayPanic = FALSE
    Recorder = {}
    Reporter = {}
    MaxScale = 2
INVARIANTS
    RetiredStatesKept
