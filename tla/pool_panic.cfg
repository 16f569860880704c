SPECIFICATION FairSpec
CONSTANTS
    Worker <- SoloWorker
    Node <- SoloNode
    External = {}
    Branch = {}
    Fixed = {}
    Mergeable = {"a"}
    Returning = {}
    Input = {"a"}
    Feeds <- SoloFeeds
    Startup <- SoloStartup
    Reserve <- SoloReserve
    MaxThreads <- SoloMax
    ConfiguredCap = 2
    Feeder = {}
    FailAt = {}
    MayPanic = TRUE
    Recorder = {}
    Reporter = {}
    MaxScale = 0
PROPERTIES
    PanicReported
