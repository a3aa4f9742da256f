SPECIFICATION FairSpec
CONSTANTS
    NPROC = 3
    Harts = {h1}
    MAXINT = 7
    Tickets = {1, 2}
    InitTicket = 1
PROPERTY EventuallyRuns
