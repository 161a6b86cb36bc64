SPECIFICATION LiveSpec
CONSTANTS
    Park = 2
    MaxOpens = 2
    MaxSources = 1
    MaxBlocks = 3
INVARIANTS
    MixerHasData
    HandshakeExact
PROPERTIES
    GateReopens
    ExitCompletes
