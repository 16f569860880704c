SPECIFICATION FairSpec
CONSTANTS
    Message = {m1, m2}
    Client = {c1, c2}
    NumWorkers = 2
    MayFail = TRUE
INVARIANTS
    OkMeansDone
PROPERTIES
    ProcessesOnce
    JoinReturns
    ThreadsEnd
CHECK_DEADLOCK FALSE
