SPECIFICATION FairSpec
CONSTANTS
    c1 = c1
    c2 = c2
    Call = {c1, c2}
    Scopes <- MCScopes
    MaxFaults = 1
INVARIANTS LoadAccepts HookDoubtKept NothingTwice
PROPERTIES KeepsLedger CancellationEnds
CHECK_DEADLOCK FALSE
