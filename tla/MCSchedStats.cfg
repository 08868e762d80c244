SPECIFICATION StatsSpec
CONSTANTS
    c0 = c0
    c1 = c1
    CPU = {c0, c1}
    BootCPU = c0
    NoCPU = NoCPU
    NPROC = 2
    MIN_PRIORITY = 16
    MAX_PRIORITY = 16
    DEFAULT_PRIORITY = 16
    PrioArgs = {16}
    PidArgs = {2}
    MaxPid = 2
    MaxTicks = 2
    SleepArgs = {1, 2}
INVARIANTS TimesBounded NotOverdue
