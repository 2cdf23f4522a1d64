SPECIFICATION FairSpec
CONSTANTS
    ByteBits = 3
    ByteLen = 3
    MaxCnt = 11
INVARIANTS
    ScanSound
    ScanFirst
PROPERTIES
    ImplementsAtomicScan
    ScanEnds
