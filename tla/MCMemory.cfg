SPECIFICATION MemSpec
CONSTANTS
    Proc = {1, 2}
    NPAGE = 18
    FAN = 2
    PGSIZE = 2
    USERSTACK = 1
    Programs <- OneProgram
    Growth <- Steps
    MaxArgs = 1
    MaxGrab = 2
VIEW Shape
INVARIANTS
    PagesExact
    NoPanic
PROPERTIES
    ForkCopies
