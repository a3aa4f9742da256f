SPECIFICATION Spec
CONSTANTS
    NPROC = 3
    Harts = {h1, h2}
    MAXINT = 15
    Tickets = {1, 2}
    InitTicket = 1
SYMMETRY MCSymmetry
INVARIANTS
    OneHart
    IdleOnlyWhenEmpty
PROPERTIES
    HonestDraw
