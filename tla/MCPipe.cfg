SPECIFICATION FairSpec
CONSTANTS
    r1 = r1
    w1 = w1
    w2 = w2
    Reader = {r1}
    Writer = {w1, w2}
    Killable = {r1, w1}
    Nobody = Nobody
    Byte = {0, 1}
    PIPESIZE = 2
    Word = 4
    MaxWrite = 2
    MaxRead = 2
INVARIANTS NoneStranded NoUseAfterFree
PROPERTIES IsFifo WriteReturns
