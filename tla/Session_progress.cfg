CONSTANTS
    Caller = {c1}
    Op = {a, m}
    Completion = {m}
    NoOp = NoOp
    NoThread = NoThread
    Events = {"interrupt", "background", "loss"}
    MaxFaults = 0
    MaxRev = 0
    MaxBuffer = 2
SPECIFICATION FairSpec
PROPERTIES InputResolves WaitReturns
CHECK_DEADLOCK FALSE
