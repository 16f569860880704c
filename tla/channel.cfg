SPECIFICATION Spec
CONSTANTS
    FirstTx = s1
    FirstRx = r1
    Tx = {s1, s2, s3}
    Rx = {r1, r2}
    Backend = {"kanal", "crossbeam"}
    MaxSends = 3
INVARIANTS
    TypeOK
    ClosedIsFinal
    RefusalIsSeen
PROPERTIES
    TerminatedIsFinal
CHECK_DEADLOCK FALSE
