SPECIFICATION FairSpec
CONSTANTS
    Item = {m1, m2}
    Client = {c1}
    Node = {"s", "a"}
    Link <- ForkLink
    Worker = {"s1", "a1"}
    Serves <- ForkServes
    In <- ForkIn
    Out <- ForkOut
    Branch = {"s"}
    Feeder = {"left"}
    InputLink = "in"
    OutputLink = "out"
    MayFail = TRUE
PROPERTIES
    Delivers
    Terminates
