SPECIFICATION Spec
CONSTANTS
    MemSizes = {8, 25, 32, 37, 75, 150, 220}
    AddressPages = 256
    LowPages = 4
    HoleStart = 192
    ArdsSlots = 4
    E801Low = 16
    E801Block = 4
    E88Limit = 20
    UsedPages = 8
    CountModulus = 64
    ByteBits = 3
    TableSize = 16
    KernelPde = 12
    Requests = {1, 2, 3, 5, 7, 10}
    ClearedRam = FALSE
    BitmapBytes = 42
INVARIANTS
    PoolsInMemory
    LayoutFits
    FramesAccounted
    RepeatMeansStale
PROPERTIES
    GivenOnce
