SPECIFICATION Spec
CONSTANTS
    Hart = {h1, h2}
    Keys = {"x", "nl", "^D", "^U", "^H"}
    INPUT_BUF_SIZE = 2
    UINT = 4
    MaxRead = 2
    MaxWrite = 1
    RXMAX = 1
    FIFO = 3
SYMMETRY Sym
VIEW Live
INVARIANTS
    NoLostWakeup
    NoSelfDeadlock
    OutputFits
PROPERTIES
    CommittedKept
