SPECIFICATION FairSpec
CONSTANTS
    c1 = c1
    c2 = c2
    j1 = j1
    Root = Root
    Child = {c1, c2}
    Job = {j1}
    Owner <- ChildOwner
    Casts <- MCCasts
    Cap = 2
    Ops = {1, 2, 3}
INVARIANTS ObligationHeld ToldOnce ReportsAtRest StoppedChildRests
PROPERTY StopsComplete
CHECK_DEADLOCK FALSE
