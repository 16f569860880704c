SPECIFICATION PartsSpec
CONSTANTS
    Kinds = {"managed", "branch", "external"}
    FeederLinks = {2}
    MaxNodes = 2
    MaxLinks = 3
    Declared <- Nodes3
    MaxPairs = 5
    Stages <- Forked
    EntryLink = 0
    ReadByFeeder = {4}
    ConfiguredCap = 1
    Slot = {s1, s2}
    Server = {w1, w2}
    Handle = {h}
    MaxBuffers = 3
    MaxQueue = 2
    MaxCapacity = 2
INVARIANTS
    LinksAreComponents
    CycleVerdictExact
    AcceptedIsPlumbed
    ReturnStatesAgree
    LeasesExact
    QuietAfterStop
    SpawnFailureDrains
    EmptyArmServed
CHECK_DEADLOCK FALSE
