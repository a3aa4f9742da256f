SPECIFICATION Spec
CONSTANTS
    NPROC = 3
    NCPU = 2
    MAXPID = 4
    KillPids = {0, 3}
INVARIANTS
    NoLostExit
    SleeperHasChild
    LiveParent
    NoReuseOnCpu
    SchedLocks
