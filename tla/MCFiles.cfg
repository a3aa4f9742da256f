SPECIFICATION Spec
CONSTANTS
    Proc = {1, 2}
    initproc = 1
    NFILE = 2
    NOFILE = 2
    Pages = {1}
    PIPESIZE = 2
    UINT = 4
    Bytes = {0, 1}
    JUNK = 1
    Counts = {2}
INVARIANTS
    RefCounts
    OneOwner
    NoSleepBesideData
PROPERTIES
    BytePipeSpec
CHECK_DEADLOCK FALSE
