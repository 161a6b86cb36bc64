SPECIFICATION LiveSpec
CONSTANTS
    Capacity = 3
    Chunk = 2
    Period = 2
    FrameSizes = {2, 4}
    MaxBytes = 6
    MaxEpochs = 2
INVARIANTS
    RingSound
    SoundIntact
    EndsClean
PROPERTIES
    WaitsEnd
