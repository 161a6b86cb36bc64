--------------------------------- MODULE Mine ---------------------------------
(***************************************************************************)
(* The minesweeper of src/mine: one board, clicks that are told from double *)
(* clicks by a timer, and the counters kept beside the board.               *)
(*                                                                         *)
(* Every handler of MineWidget runs to its end on the UI thread and is one  *)
(* action.  Cells are <<row, column>>; the clock is a choice between        *)
(* "within DOUBLE_CLICK_MS" and later.  What is only drawn (exploded,       *)
(* wrongFlag, leftDown, elapsedSec) is left out.                            *)
(***************************************************************************)
EXTENDS Integers, FiniteSets, FiniteSetsExt

CONSTANTS
    Levels,       \* DifficultyLevel
    Difficulties, \* DIFFICULTIES: rows, cols and mines of each level
    None          \* no cell, no level

ASSUME DifficultyAssumption ==
    /\ Difficulties \in [Levels -> [rows : Nat, cols : Nat, mines : Nat \ {0}]]
    \* placeMines looks for free cells until it has placed all mines
    /\ \A l \in Levels : LET d == Difficulties[l] IN d.mines < d.rows * d.cols

VARIABLES
    difficulty,
    board,             \* mine, open, flag: sets of cells; the two counters
    started, lost, won,
    pending,           \* the cell of pendingClick
    facePressed, pressedDifficulty
vars == <<difficulty, board, started, lost, won, pending, facePressed, pressedDifficulty>>

Cells == (1 .. Difficulties[difficulty].rows) \X (1 .. Difficulties[difficulty].cols)
Mines == Difficulties[difficulty].mines
Around(c) == {n \in Cells \ {c} : n[1] - c[1] \in -1 .. 1 /\ n[2] - c[2] \in -1 .. 1}
Adjacent(b, c) == Cardinality(Around(c) \cap b.mine)

-----------------------------------------------------------------------------
(* The board *)

EmptyBoard == [mine |-> {}, open |-> {}, flag |-> {}, openedCount |-> 0, flagsUsed |-> 0]

\* placeMines spares the first cell, and its neighbours where there is room
Placements(c) ==
    LET far == Cells \ (Around(c) \cup {c}) IN
    kSubset(Mines, IF Cardinality(far) >= Mines THEN far ELSE Cells \ {c})

\* mutant: a flood opens flagged cells
SpreadOver(b, c) ==
    {c} \cup (IF Adjacent(b, c) # 0 THEN {} ELSE Around(c) \ (b.open \cup b.mine))

\* floodOpen from each of the cells in turn: what its queue opens, in rounds
Spread(b, c) ==
    {c} \cup (IF Adjacent(b, c) # 0 THEN {} ELSE Around(c) \ (b.open \cup b.mine \cup b.flag))
FloodStep(b, seen) == UNION {Spread(b, c) : c \in seen}
\* mutant: a flood stops after one round
FloodShort(b, from) == FloodStep(b, from)

Flood(b, from) ==
    LET reached[n \in 0 .. Cardinality(Cells)] ==
            IF n = 0 THEN from ELSE FloodStep(b, reached[n - 1])
    IN  reached[Cardinality(Cells)]

\* A position is the board with the outcome; loseAt, and checkWin with
\* finishWin, which flags the mines the player has not
Lose(p) == [p EXCEPT !.lost = TRUE, !.board.open = @ \cup p.board.mine]
OpenCells(p, cells) ==
    [p EXCEPT !.board.open = @ \cup cells, !.board.openedCount = @ + Cardinality(cells)]
\* mutant: a win does not flag the mines
CheckWinUnflagged(p) ==
    IF p.board.openedCount # Cardinality(Cells) - Mines THEN p ELSE [p EXCEPT !.won = TRUE]

CheckWin(p) ==
    IF p.board.openedCount # Cardinality(Cells) - Mines THEN p
    ELSE [p EXCEPT !.won = TRUE, !.board.flag = @ \cup p.board.mine,
                   !.board.flagsUsed = Mines]

\* revealCell once the mines are placed
Reveal(p, c) ==
    IF c \in p.board.open \cup p.board.flag THEN p
    ELSE IF c \in p.board.mine THEN Lose(p)
    ELSE CheckWin(OpenCells(p, Flood(p.board, {c})))

\* the order of the two loops around a cell
Before(c, d) == c[1] < d[1] \/ (c[1] = d[1] /\ c[2] < d[2])

\* chordCell reveals the neighbours without a flag, row by row, until it meets
\* a mine; the last safe cell of the board wins before that
Chord(p, c) ==
    LET b == p.board
        targets == Around(c) \ b.flag
        mined == targets \cap b.mine
        safe == {t \in targets : t \notin mined /\ \A m \in mined : Before(t, m)}
        q == CheckWin(OpenCells(p, Flood(b, safe \ b.open)))
    IN  IF Adjacent(b, c) = 0 \/ Cardinality(Around(c) \cap b.flag) # Adjacent(b, c) THEN p
        ELSE IF mined = {} \/ q.won THEN q ELSE Lose(q)
Position == [board |-> board, lost |-> lost, won |-> won]
Show(p) == \E q \in {p} : board' = q.board /\ lost' = q.lost /\ won' = q.won

\* toggleFlag of a closed cell
Toggle(c) == board' =
    IF c \in board.flag THEN [board EXCEPT !.flag = @ \ {c}, !.flagsUsed = @ - 1]
    ELSE [board EXCEPT !.flag = @ \cup {c}, !.flagsUsed = @ + 1]

-----------------------------------------------------------------------------
(* Events *)

Playing == ~lost /\ ~won

NewGame(level) ==
    /\ difficulty' = level
    /\ board' = EmptyBoard
    /\ started' = FALSE /\ lost' = FALSE /\ won' = FALSE
    /\ pending' = None
    /\ facePressed' = FALSE /\ pressedDifficulty' = None

\* onIM: r and n, or 1, 2 and 3
Key == \E level \in Levels : NewGame(level)

\* onMouse: the face and the level buttons act when released where pressed;
\* the left button is up before it goes down and when it has clicked
LeftUp == ~facePressed /\ pressedDifficulty = None
PressFace ==
    /\ LeftUp
    /\ facePressed' = TRUE
    /\ UNCHANGED <<difficulty, board, started, lost, won, pending, pressedDifficulty>>
PressDifficulty ==
    /\ LeftUp
    /\ pressedDifficulty' \in Levels
    /\ UNCHANGED <<difficulty, board, started, lost, won, pending, facePressed>>
ReleaseOnFace == facePressed /\ NewGame(difficulty)
ReleaseOnDifficulty == pressedDifficulty # None /\ NewGame(pressedDifficulty)
ReleaseElsewhere ==
    /\ ~LeftUp
    /\ facePressed' = FALSE /\ pressedDifficulty' = None
    /\ UNCHANGED <<difficulty, board, started, lost, won, pending>>

\* a first click, on a second cell, or too late to be the second
Click(c) ==
    /\ LeftUp /\ Playing
    /\ pending' = c
    /\ UNCHANGED <<difficulty, board, started, lost, won, facePressed, pressedDifficulty>>

\* the second click on the same cell in time: chordCell or revealCell
DoubleClick(c) ==
    /\ LeftUp /\ Playing /\ pending = c
    /\ pending' = None
    /\ IF c \in board.open THEN Show(Chord(Position, c)) /\ UNCHANGED started
       ELSE IF c \in board.flag THEN UNCHANGED <<board, lost, won, started>>
       ELSE /\ started' = TRUE
            /\ IF started THEN Show(Reveal(Position, c))
               ELSE \E mines \in Placements(c) :
                       Show(Reveal([Position EXCEPT !.board.mine = mines], c))
    /\ UNCHANGED <<difficulty, facePressed, pressedDifficulty>>

RightClick(c) ==
    /\ Playing /\ c \notin board.open
    /\ Toggle(c)
    /\ pending' = None
    /\ UNCHANGED <<difficulty, started, lost, won, facePressed, pressedDifficulty>>

\* onTimer: a click that stayed single sets or takes a flag
Timer ==
    /\ pending # None
    /\ IF Playing /\ pending \notin board.open THEN Toggle(pending) ELSE UNCHANGED board
    /\ pending' = None
    /\ UNCHANGED <<difficulty, started, lost, won, facePressed, pressedDifficulty>>

Next ==
    \/ Key \/ PressFace \/ PressDifficulty
    \/ ReleaseOnFace \/ ReleaseOnDifficulty \/ ReleaseElsewhere
    \/ \E c \in Cells : Click(c) \/ DoubleClick(c) \/ RightClick(c)
    \/ Timer

Init ==
    /\ difficulty \in Levels
    /\ board = EmptyBoard
    /\ started = FALSE /\ lost = FALSE /\ won = FALSE
    /\ pending = None /\ facePressed = FALSE /\ pressedDifficulty = None

Spec == Init /\ [][Next]_vars

-----------------------------------------------------------------------------
(* Properties *)

\* The board lies inside the level's rows and columns, also after the level
\* changed under a pending click or a pressed button.
TypeOK ==
    /\ difficulty \in Levels
    /\ board \in [mine : SUBSET Cells, open : SUBSET Cells, flag : SUBSET Cells,
                  openedCount : Nat, flagsUsed : Int]
    /\ {started, lost, won, facePressed} \subseteq BOOLEAN
    /\ pending \in Cells \cup {None} /\ pressedDifficulty \in Levels \cup {None}

\* The counters shown and tested for the win are the board's: floods,
\* chords, a lost or won game and every way to set a flag keep them.
CountersAgree ==
    /\ board.openedCount = Cardinality(board.open \ board.mine)
    /\ board.flagsUsed = Cardinality(board.flag)
    /\ started => Cardinality(board.mine) = Mines

\* No cell is open and flagged unless the game is lost, and then it is a mine:
\* a flag protects its cell from clicks, floods and chords.
FlagsProtect ==
    /\ board.flag \cap board.open \subseteq board.mine
    /\ ~lost => board.mine \cap board.open = {}

\* Won is all safe cells open, and then the flags are exactly the mines;
\* a game is never both won and lost, in particular by one chord.
WonIsCleared ==
    /\ won <=> started /\ ~lost /\ Cells \ board.mine = board.open
    /\ won => board.flag = board.mine /\ ~lost

\* Board, counters and outcome say the same, whatever was clicked and however it was opened
\* (floodOpen, chordCell, loseAt and finishWin each keep their part).
BoardSound == TypeOK /\ CountersAgree /\ WonIsCleared

\* The first cell revealed is no mine: nothing is lost before a safe cell is open.
FirstRevealSafe == lost => board.openedCount > 0

\* What protects the player: a flag, and the first reveal.
PlayerProtected == FlagsProtect /\ FirstRevealSafe

\* Where the board has room the first cell has no mine around it and opens
\* all its neighbours but the flagged ones.
FirstRevealOpens ==
    (~started /\ started' /\ Cardinality(Cells \ (Around(pending) \cup {pending})) >= Mines) =>
        Around(pending) \subseteq board'.open \cup board'.flag
FirstRevealOpensAlways == [][FirstRevealOpens]_vars

\* A cell without mines around it never opens alone: all its neighbours but
\* the flagged ones are open when the step is over.
FloodComplete ==
    \A c \in board'.open \ board.open :
        (difficulty' = difficulty /\ c \notin board'.mine /\ Adjacent(board', c) = 0) =>
            Around(c) \subseteq board'.open \cup board'.flag
FloodCompleteAlways == [][FloodComplete]_vars

\* What opens around a cell without mines opens in full (placeMines, floodOpen).
OpeningsComplete == FirstRevealOpensAlways /\ FloodCompleteAlways

-----------------------------------------------------------------------------
(* The inductive invariant behind the safety properties *)

\* Before the first reveal nothing is known of the board but flags; after it the mines are
\* placed and a safe cell is open.
Stage ==
    IF started THEN Cardinality(board.mine) = Mines /\ board.openedCount > 0
    ELSE board.mine = {} /\ board.open = {} /\ ~lost /\ ~won

\* A lost game shows its mines.
LostShows == lost => board.mine \subseteq board.open

IInv == BoardSound /\ FlagsProtect /\ Stage /\ LostShows
=============================================================================
