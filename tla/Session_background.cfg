CONSTANTS
    Caller = {c1, c2}
    Op = {a, m}
    Completion = {m}
    NoOp = NoOp
    NoThread = NoThread
    Events = {"stop", "background", "interrupt", "lifecycle"}
    MaxFaults = 1
    MaxRev = 3
    MaxBuffer = 2
SPECIFICATION Spec
SYMMETRY CallerSymmetry
INVARIANTS InputDelivered ArchivedIsQuiet
CHECK_DEADLOCK FALSE
