SPECIFICATION LockSpec
CONSTANTS
    Process = {p1, p2, p3}
    NoFile = NoFile
    NoProcess = NoProcess
INVARIANTS
    SingleHolder
CHECK_DEADLOCK FALSE
