SPECIFICATION Spec
CONSTANTS
    Proc = {p1, p2, p3}
    Block = {n1, n2, n3, n4}
    Changed = {n1}
    NBUF = 3
    NUM = 7
    MaxPins = 1
SYMMETRY MCSymmetry
INVARIANTS
    OwnerSeesLatest
    RefsExact
    Descriptors
    NoLostCompletion
CHECK_DEADLOCK FALSE
