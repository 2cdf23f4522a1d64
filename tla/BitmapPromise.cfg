SPECIFICATION Spec
CONSTANTS
    ByteBits = 3
    ByteLen = 2
    MaxCnt = 7
INVARIANT
    ScanPromise
