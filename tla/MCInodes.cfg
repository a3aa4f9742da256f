SPECIFICATION Spec
CONSTANTS
    Proc = {p1, p2}
    Calls = {"open", "create", "mkdir", "unlink", "link", "chdir"}
    NINODES = 3
    Names = {"a"}
    Paths <- OneName
    NBLOCKS = 5
    NDIRECT = 1
    NINDIRECT = 1
    DIRENTS = 2
    MaxWrite = 1
SYMMETRY Sym
INVARIANTS
    LinkCounts
    InodeRefs
    AllocatedRefs
    BlocksExact
    CopiesCurrent
PROPERTIES
    OrphansByRace
