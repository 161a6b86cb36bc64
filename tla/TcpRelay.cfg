SPECIFICATION RelaySpec
CONSTANTS
    Byte <- MCByte
    Isns <- MCIsns
    GuestSegs <- MCGuestSegs
    ServerChunks <- MCServerChunks
    Junk = junk
    Half = 8
    MSS = 2
    SbufCap = 3
    BootMax = 2
    WriteMax = 3
    RxMax = 2
    GuestBytes = 1
    ServerBytes = 2
    ChunkMax = 2
    MaxOther = 1
    MaxResend = 1
    Other = other
INVARIANTS
    NeverAcksUnsent
    GuestWindowAgrees
