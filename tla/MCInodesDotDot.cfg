SPECIFICATION Spec
CONSTANTS
    Proc = {p1}
    Calls = {"mkdir", "unlink", "chdir"}
    NINODES = 3
    Names = {"a"}
    Paths <- UpPaths
    NBLOCKS = 6
    NDIRECT = 1
    NINDIRECT = 1
    DIRENTS = 3
    MaxWrite = 1
INVARIANTS
    AllocatedRefs
