SPECIFICATION Spec
CONSTANTS
    c0 = c0
    c1 = c1
    CPU = {c0, c1}
    BootCPU = c0
    NoCPU = NoCPU
    NPROC = 3
    MIN_PRIORITY = 16
    MAX_PRIORITY = 16
    DEFAULT_PRIORITY = 16
    PrioArgs = {16, 17}
    PidArgs = {2}
    MaxPid = 4
INVARIANTS TypeOK StackExclusive CprocAgrees EmbryoPrivate ResourcesLive NoMissedExit
