SPECIFICATION FairSpec
CONSTANTS
    NPROC = 3
    NCPU = 1
    MAXPID = 3
    KillPids = {2}
PROPERTIES
    WaitReturns
    KilledExits
