SPECIFICATION FairSpec
CONSTANTS
    A = A
    B = B
    Session = {A, B}
    None = None
    Opening <- TwoItems
    PageSize = 1
    StreamCap = 2
    InboxCap = 1
    Scopes <- MCScopes
INVARIANTS ShownIsUnbroken NoSilentStaleness
PROPERTIES ClocksAdvance RepairsOnlyLosses Settles
CHECK_DEADLOCK FALSE
