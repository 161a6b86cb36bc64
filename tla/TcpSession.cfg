SPECIFICATION FairSpec
CONSTANTS
    Byte <- MCByte
    Junk = junk
    Half = 4
    MSS = 2
    SbufCap = 3
    BootMax = 2
    WriteMax = 2
    Isns <- MCIsns
    GuestSegs <- MCGuestSegs
    ServerChunks <- MCServerChunks
INVARIANTS
    WindowSound
    SocketSafe
    DeadSessionFallsSilent
PROPERTIES
    FlightStableAlways
    OrderlyCloseAlways
    CloseCompletes
    ExitCompletes
