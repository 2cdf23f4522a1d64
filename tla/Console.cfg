CONSTANTS
    Cols = 3
    Rows = 3
    ByteBase = 8
    VideoCells = 16
    Digits = 2
    BootCursors = {0}
    Prints <- MCPrints
    Exceptions = {12}
    MaxEvents = 2
    MaxPrints = 1
    MaxNest = 2
SPECIFICATION Spec
INVARIANTS
    PrintExact
    GuardedPrintIntact
    ReturnsWhereItCame
PROPERTIES
    NoTickLost
    PrintEnds
CHECK_DEADLOCK FALSE
