SPECIFICATION Spec
CONSTANTS
    Worker <- SoloWorker
    Node <- SoloNode
    External = {}
    Branch = {}
    Fixed = {}
    Mergeable = {}
    Returning = {}
    Input = {"a"}
    Feeds <- SoloFeeds
    Startup <- DuoStartup
    Reserve <- DuoReserve
    MaxThreads <- SoloMax
    ConfiguredCap = 2
    Feeder = {"a"}
    FailAt = {"process", "cleanup"}
    MayPanic = TRUE
    Recorder = {"recorder"}
    Reporter = {"fail"}
    MaxScale = 1
INVARIANTS
    NoLateVerdict
    StopIsExplained
