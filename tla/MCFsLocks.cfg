SPECIFICATION Spec
CHECK_DEADLOCK FALSE
CONSTANTS
    p1 = p1
    p2 = p2
    Process = {p1, p2}
    Nobody = Nobody
    Name = {"f", "d"}
    NINODES = 2
    MaxLinks = 2
    Calls <- OneFile
INVARIANT NoLockCycle
