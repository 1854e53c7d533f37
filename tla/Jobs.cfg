SPECIFICATION FairSpec
CONSTANTS
    j1 = j1
    j2 = j2
    t1 = t1
    t2 = t2
    NoJob = NoJob
    Job = {j1, j2}
    Thread = {t1, t2}
    Owner <- SameOwner
    Timed = {j1}
    Limit = 1
INVARIANTS Accounted StopsHold
PROPERTY StopsReturn
CHECK_DEADLOCK FALSE
