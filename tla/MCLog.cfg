SPECIFICATION Spec
CONSTANTS
    p1 = p1
    p2 = p2
    b1 = b1
    b2 = b2
    b3 = b3
    b4 = b4
    b5 = b5
    Process = {p1, p2}
    Block = {b1, b2, b3, b4, b5}
    NoBlock = NoBlock
    MAXOPBLOCKS = 3
    OpBlocks = 2
    LOGSIZE = 6
    nlog = 6
    MaxOps = 3
    MaxCrashes = 2
INVARIANTS SleeperMustWait QuiescentDurable NoPanic
PROPERTIES CrashAtomic
SYMMETRY Symmetry
CHECK_DEADLOCK FALSE
