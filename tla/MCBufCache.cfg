SPECIFICATION FairSpec
CHECK_DEADLOCK FALSE
CONSTANTS
    p1 = p1
    p2 = p2
    k1 = k1
    k2 = k2
    k3 = k3
    Process = {p1, p2}
    Held <- MCHeld
    Block = {k1, k2, k3}
    Value = {0, 1}
    InitValue = 0
    Nobody = Nobody
    NoBlock = NoBlock
    NBUF = 2
    MaxDirty = 1
INVARIANTS OneBufferPerBlock SleeperHasWaker
PROPERTIES OnlyHoldersWrite PanicMeansPinned RequestServed
