SPECIFICATION Spec
CONSTANTS
    Levels = {"B", "E"}
    Difficulties <- MCDifficulties
    None = None
INVARIANTS
    BoardSound
    PlayerProtected
PROPERTIES
    OpeningsComplete
