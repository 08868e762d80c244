SPECIFICATION Spec
CHECK_DEADLOCK FALSE
CONSTANTS
    Plain = {"a", "b"}
    NL = "nl"
    EOF = "eof"
    INPUT_BUF = 3
    HIST_MAX = 2
    commands <- ThreeCommands
    Reader = {"p", "q"}
    ReadSizes = {2}
    MaxTyped = 6
INVARIANTS FullIsReadable SleeperHasNothing
PROPERTY IsTty
