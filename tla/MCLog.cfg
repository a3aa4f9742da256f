SPECIFICATION Spec
CONSTANTS
    Proc = {p1, p2, p3}
    Block = {b1, b2, b3, b4}
    MAXOPBLOCKS = 2
    LOGBLOCKS = 4
    MaxOps = 3
    MaxCrashes = 2
SYMMETRY MCSymmetry
INVARIANTS
    LogNeverFull
    SleepersWoken
    PinsBalanced
PROPERTIES
    AtomicDiskSpec
CHECK_DEADLOCK FALSE
