SPECIFICATION LockSpec
CONSTANTS
    Process = {p1, p2, p3, p4}
    NoFile = NoFile
    NoProcess = NoProcess
SYMMETRY ProcessSymmetry
INVARIANTS
    LockInv
    ExclusiveBeforeRemove
PROPERTIES
    RefusedOnlyByHolder
CHECK_DEADLOCK FALSE
