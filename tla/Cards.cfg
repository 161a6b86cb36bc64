SPECIFICATION FairSpec
CONSTANTS
    Suits = {"red", "black"}
    Red = {"red"}
    King = 3
    Columns <- MCColumns
    Deals <- MCDeals
    PileCells = 4
    DragCells = 3
    None = None
INVARIANTS
    DeckComplete
    PilesOrdered
    GameEnds
    DragIsARun
PROPERTIES
    InputReturns
