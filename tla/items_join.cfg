SPECIFICATION Spec
CONSTANTS
    Item = {m1, m2}
    Client = {c1}
    Node = {"a", "b", "c"}
    Link <- JoinLink
    Worker = {"a1", "b1", "c1"}
    Serves <- JoinServes
    In <- JoinIn
    Out <- JoinOut
    Branch = {}
    Feeder = {}
    InputLink = "in"
    OutputLink = "out"
    MayFail = FALSE
INVARIANTS
    InputDrained
    EmitsAreRead
PROPERTIES
    DeliversOnce
