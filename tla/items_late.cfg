SPECIFICATION Spec
CONSTANTS
    Item = {m1}
    Client = {c1}
    Node = {"a", "b"}
    Link <- RowLink
    Worker = {"a1", "b1"}
    Serves <- RowServes
    In <- RowIn
    Out <- RowOut
    Branch = {}
    Feeder = {}
    InputLink = "in"
    OutputLink = "out"
    MayFail = FALSE
INVARIANTS
    EarlyItemsArrive
