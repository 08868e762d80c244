SPECIFICATION Spec
CHECK_DEADLOCK FALSE
CONSTANTS
    p1 = p1
    p2 = p2
    Process = {p1, p2}
    Nobody = Nobody
    Name = {"f", "d"}
    NINODES = 3
    MaxLinks = 3
    Calls <- SomeCalls
SYMMETRY Perms
CONSTRAINT NotStrayed
INVARIANTS RefsCounted NoUseAfterFree LinksCounted
