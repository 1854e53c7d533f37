CONSTANTS
    Caller = {c1, c2}
    Op = {a, b}
    Completion = {}
    NoOp = NoOp
    NoThread = NoThread
    Events = {"compact", "interrupt", "crash", "loss"}
    MaxFaults = 1
    MaxRev = 0
    MaxBuffer = 2
SPECIFICATION Spec
SYMMETRY CallerSymmetry
INVARIANTS TypeOK CurrentIsRunning SingleExecution JoinsAndReleases
PROPERTIES TerminalIsFinal RunSlotOwned
CHECK_DEADLOCK FALSE
