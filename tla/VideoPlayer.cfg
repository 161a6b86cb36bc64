SPECIFICATION FairSpec
CONSTANTS
    Streams <- MCStreams
    Keys <- MCKeys
    Capacity <- MCCapacity
    HighWater <- MCHighWater
    Delay <- MCDelay
    MaxErrors = 1
INVARIANTS
    StreamIntact
    ThreadsAgree
    PushNeverWaits
    PauseFreezes
PROPERTIES
    DoneIsDoneAlways
    StopCompletes
    SeekTaken
    RestartCompletes
