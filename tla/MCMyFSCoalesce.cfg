SPECIFICATION FsSpec
CONSTANTS
    META = 1
    TOTAL = 5
    BLOCK_SIZE = 2
    MAX_FILES = 2
    Names <- MCNames
    StoredName <- MCStoredName
    NoName <- MCNoName
    WriteArgs <- MCWriteArgs
    ShrinkArgs <- MCShrinkArgs
    MaxGrow = 0
    MaxNegative = 0
    MaxRegions = 3
INVARIANT Coalesced
