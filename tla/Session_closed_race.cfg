CONSTANTS
    Caller = {c1, c2}
    Op = {a, m, n}
    Completion = {m, n}
    NoOp = NoOp
    NoThread = NoThread
    Events = {"stop", "background"}
    MaxFaults = 0
    MaxRev = 0
    MaxBuffer = 1
SPECIFICATION Spec
SYMMETRY CallerSymmetry
PROPERTIES
    ReleasedAfterSettlement
CHECK_DEADLOCK FALSE
