SPECIFICATION Spec
CONSTANTS
    NPROC = 2
    NCPU = 1
    MAXPID = 2
    KillPids = {0, 2}
PROPERTY FreshNotKilled
