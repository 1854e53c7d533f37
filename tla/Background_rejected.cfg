SPECIFICATION Spec
CONSTANTS
    c1 = c1
    c2 = c2
    j1 = j1
    Root = Root
    Child = {c1}
    Job = {}
    Owner <- ChildOwner
    Casts <- OnlyAlone
    Cap = 2
    Ops = {1, 2}
INVARIANT NoStrandedChildInput
CHECK_DEADLOCK FALSE
