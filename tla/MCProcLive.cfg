SPECIFICATION FairSpec
CONSTANTS
    c0 = c0
    c1 = c1
    CPU = {c0, c1}
    BootCPU = c0
    NoCPU = NoCPU
    NPROC = 2
    MIN_PRIORITY = 16
    MAX_PRIORITY = 17
    DEFAULT_PRIORITY = 17
    PrioArgs = {16, 17}
    PidArgs = {2}
    MaxPid = 2
PROPERTIES KillTakesEffect BestRuns
