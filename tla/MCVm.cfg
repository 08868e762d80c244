SPECIFICATION Spec
CHECK_DEADLOCK FALSE
CONSTANTS
    Slot = {1, 2}
    FirstProc = 1
    NPAGES = 17
    PGSIZE = 16
    NPTENTRIES = 2
    KERNBASE = 96
    Word = 160
    KernTabs = {4}
    WSIZE = 2
    MAXARG = 2
    SbrkArgs <- SomeSbrk
    Segments <- SomeSegments
    ArgLens = {2, 5, 20, 72}
INVARIANTS PagesAccounted SizeMapped
PROPERTY ArgsAboveGuard
