SPECIFICATION Spec
CONSTANTS
    NPROC = 4
    Harts = {h1}
    MAXINT = 3
    Tickets = {2, 3}
    InitTicket = 2
INVARIANT IdleOnlyWhenEmpty
