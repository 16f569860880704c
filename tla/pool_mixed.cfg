SPECIFICATION FairSpec
CONSTANTS
    Worker <- MixWorker
    Node <- MixNode
    External = {"x"}
    Branch = {"s"}
    Fixed = {"d"}
    Mergeable = {}
    Returning = {"d"}
    Input = {"s"}
    Feeds <- MixFeeds
    Startup <- MixStartup
    Reserve = {}
    MaxThreads <- MixMax
    ConfiguredCap = 3
    Feeder = {}
    FailAt = {}
    MayPanic = FALSE
    Recorder = {}
    Reporter = {}
    MaxScale = 0
INVARIANTS
    ConsumersOutlive
PROPERTIES
    JoinReturns
