-------------------------------- MODULE Cards --------------------------------
(***************************************************************************)
(* The card game of src/cards: Klondike solitaire played with the mouse,    *)
(* two keys and a timer that moves cards by itself.                         *)
(*                                                                         *)
(* Every handler of CardsWidget runs to its end on the UI thread and is one *)
(* action.  A card is its suit and value, a pile the sequence of its cards, *)
(* top last.  "hand" is drag.cards, "flight" the card of autoMoveAnim.      *)
(* Places on the screen and clock readings are nondeterministic choices;    *)
(* the score, the move counter and the pictures are left out.               *)
(***************************************************************************)
EXTENDS Integers, FiniteSets, SequencesExt

CONSTANTS
    Suits,          \* enum Suit
    Red,            \* the suits isRed() accepts
    King,           \* highest value: 13
    Columns,        \* names of the tableau piles, left to right
    Deals,          \* outcomes of the shuffle
    PileCells,      \* size of Pile.cards: 24
    DragCells,      \* size of DragInfo.cards: 13
    None            \* NULL and inactive

Deck == Suits \X (1 .. King)
DeckSize == Cardinality(Suits) * King
ColumnSet == {Columns[i] : i \in DOMAIN Columns}
Piles == {"stock", "waste"} \cup Suits \cup ColumnSet
Places == Piles \cup {"hand", "flight"}

\* what pressed and flight hold
Presses == [pile : Piles \ {"stock"}, index : Nat, cells : Seq(Deck)]
Flights == [src : Piles, dst : Suits, reveal : BOOLEAN, trigger : BOOLEAN]

ASSUME NamesAssumption ==
    /\ Columns \in Seq(ColumnSet) /\ IsInjective(Columns)
    /\ Suits \cap ColumnSet = {} /\ Red \subseteq Suits
    /\ (Suits \cup ColumnSet) \cap {"stock", "waste", "hand", "flight"} = {}
    /\ King \in Nat \ {0} /\ IsFiniteSet(Suits) /\ Suits # {}
    /\ PileCells \in Nat /\ DragCells \in Nat
    /\ None \notin Piles \cup Presses \cup Flights
ASSUME DealsAssumption ==
    /\ Deals \subseteq [1 .. DeckSize -> Deck]
    /\ \A d \in Deals : IsInjective(d) /\ Deck \subseteq {d[i] : i \in DOMAIN d}
    /\ (Len(Columns) * (Len(Columns) + 1)) \div 2 <= DeckSize

VARIABLES
    at,       \* the cards of every place, bottom to top
    up,       \* the cards that lie face up
    held,     \* a mouse button is down
    pressed,  \* pressedPile, pressedIndex and the pile's array at that time
    source,   \* drag.srcPile while dragging
    last,     \* lastClickPile and lastClickIndex
    auto,     \* autoFinishing
    flight,   \* autoMoveAnim while active
    won,
    spoiled   \* history: the code itself lost or repeated cards in this game
game == <<at, up, held, pressed, source, last, auto, flight, won>>
vars == <<game, spoiled>>

-----------------------------------------------------------------------------
(* Rules of the game *)

Suit(c) == c[1]
Value(c) == c[2]
OppositeColours(c, d) == (Suit(c) \in Red) # (Suit(d) \in Red)

\* canPlaceOnFoundationSet, and canPlaceOn for PILE_FOUNDATION
FitsFoundation(c, s, pile) ==
    IF pile = <<>> THEN c = <<s, 1>>
    ELSE Suit(c) = Suit(Last(pile)) /\ Value(c) = Value(Last(pile)) + 1

\* mutant: a column takes any colour
FitsColumnAnyColour(c, pile) ==
    IF pile = <<>> THEN Value(c) = King
    ELSE Last(pile) \in up /\ Value(c) = Value(Last(pile)) - 1

\* canPlaceOn for PILE_TABLEAU
FitsColumn(c, pile) ==
    IF pile = <<>> THEN Value(c) = King
    ELSE /\ Last(pile) \in up
         /\ OppositeColours(c, Last(pile))
         /\ Value(c) = Value(Last(pile)) - 1

IsRun(s) == \A i \in 1 .. Len(s) - 1 :
    OppositeColours(s[i], s[i + 1]) /\ Value(s[i + 1]) = Value(s[i]) - 1

\* mutant: any card of a column may be dragged
CanDragFromBlind(p, i) == p \in ColumnSet \/ (p # "stock" /\ i = Len(at[p]))

\* canDragFrom; in a column an index above the top is a card that has left,
\* and the loop over the cards above it is empty
CanDragFrom(p, i) ==
    IF p \in ColumnSet
    THEN LET run == SubSeq(at[p], i, Len(at[p])) IN
         i > Len(at[p]) \/ (IsRun(run) /\ \A k \in 1 .. Len(run) : run[k] \in up)
    ELSE p # "stock" /\ i = Len(at[p])

-----------------------------------------------------------------------------
(* Moving cards *)

Above(s, n) == SubSeq(s, Len(s) - n + 1, Len(s))
Below(s, n) == SubSeq(s, 1, Len(s) - n)

\* the top n cards of p, in their order, onto another place q
Shift(a, p, q, n) ==
    [a EXCEPT ![p] = Below(@, n), ![q] = @ \o Above(a[p], n)]

Reveal(u, a, p) == IF p \in ColumnSet /\ a[p] # <<>> THEN u \cup {Last(a[p])} ELSE u

\* foundations that take card c; canPlaceOn leaves at most one
Homes(a, c) == {s \in Suits : FitsFoundation(c, s, a[s])}
\* checkWin's total: as many cards lie on the foundations as the deck has
Full(a) == Cardinality(UNION {{s} \X DOMAIN a[s] : s \in Suits}) = DeckSize

FinishOrder == <<"waste">> \o Columns
Movable(a) == {i \in DOMAIN FinishOrder : LET pile == a[FinishOrder[i]] IN
                 pile # <<>> /\ Homes(a, Last(pile)) # {}}

\* moveTopCardToFoundationSet on the piles b
Lift(b, p) ==
    IF b[p] # <<>> /\ Homes(b, Last(b[p])) # {}
    THEN Shift(b, p, CHOOSE s \in Homes(b, Last(b[p])) : TRUE, 1) ELSE b

\* canAutoFinishGame's sweeps over waste and columns, on a copy of the piles: in
\* DeckSize sweeps every card has moved that can
Lifts == DeckSize * Len(FinishOrder)
Simulated(a) ==
    LET after[n \in 0 .. Lifts] ==
            IF n = 0 THEN a
            ELSE Lift(after[n - 1], FinishOrder[((n - 1) % Len(FinishOrder)) + 1])
    IN  after[Lifts]

\* canAutoFinishGame
CanAutoFinish(a, u, w) ==
    /\ ~w /\ a["stock"] = <<>>
    /\ \A p \in ColumnSet : \A i \in 1 .. Len(a[p]) : a[p][i] \in u
    /\ Full(Simulated(a))

\* requestAutoFinishGame: the value of autoFinishing it leaves
Request(a, u, w) == auto \/ (flight = None /\ CanAutoFinish(a, u, w))

-----------------------------------------------------------------------------
(* Steps shared by handlers *)

Idle == ~auto /\ flight = None

\* createDeck: column i gets the i cards after those of the columns before it
DealtBefore(i) == (i * (i - 1)) \div 2

\* there is room for what is not dealt, for a run on the cards face down below it
\* (52 - 28, 6 + 13 of 24 cells), and for a run in the hand (13)
ASSUME RoomAssumption ==
    /\ DeckSize - DealtBefore(Len(Columns) + 1) <= PileCells
    /\ Len(Columns) - 1 + King <= PileCells /\ King <= PileCells
    /\ King <= DragCells
ColumnIndex(p) == CHOOSE i \in DOMAIN Columns : Columns[i] = p
Dealt(d) == [p \in Places |->
    IF p \in ColumnSet
    THEN LET i == ColumnIndex(p) IN SubSeq(d, DealtBefore(i) + 1, DealtBefore(i) + i)
    ELSE IF p = "stock" THEN SubSeq(d, DealtBefore(Len(Columns) + 1) + 1, DeckSize)
    ELSE <<>>]

\* drawFromStock
DrawOne ==
    /\ at["stock"] # <<>>
    /\ at' = Shift(at, "stock", "waste", 1)
    /\ up' = up \cup {Last(at["stock"])}
    /\ auto' = Request(at', up', won)
\* mutant: recycling loses the top card of the waste
RecycleDropped ==
    /\ at["stock"] = <<>> /\ at["waste"] # <<>>
    /\ at' = [at EXCEPT !["stock"] = Tail(Reverse(at["waste"])), !["waste"] = <<>>]
    /\ up' = up \ {at["waste"][i] : i \in DOMAIN at["waste"]}
    /\ auto' = Request(at', up', won)

Recycle ==
    /\ at["stock"] = <<>> /\ at["waste"] # <<>>
    /\ at' = [at EXCEPT !["stock"] = Reverse(at["waste"]), !["waste"] = <<>>]
    /\ up' = up \ {at["waste"][i] : i \in DOMAIN at["waste"]}
    /\ auto' = Request(at', up', won)
DrawFromStock ==
    \/ DrawOne
    \/ Recycle
    \/ at["stock"] = <<>> /\ at["waste"] = <<>> /\ UNCHANGED <<at, up, auto>>

\* beginAnimatedFoundationMove of the top card of p
Launch(p, trigger) ==
    /\ at' = Shift(at, p, "flight", 1)
    /\ flight' = [src |-> p, dst |-> CHOOSE s \in Homes(at, Last(at[p])) : TRUE,
                  reveal |-> p \in ColumnSet /\ Len(at[p]) > 1, trigger |-> trigger]

\* mutant: an animation never ends
LandAgain(a) == at' = a /\ UNCHANGED <<up, won, flight>>

\* mutant: an animation that lands is not looked at for a win
LandUnchecked(a) ==
    /\ at' = Shift(a, "flight", flight.dst, 1)
    /\ up' = IF flight.reveal THEN Reveal(up, a, flight.src) ELSE up
    /\ flight' = None
    /\ UNCHANGED won

\* finishAutoFinishMove on the piles a; what it leaves in autoFinishing
Land(a) ==
    /\ at' = Shift(a, "flight", flight.dst, 1)
    /\ up' = IF flight.reveal THEN Reveal(up, a, flight.src) ELSE up
    /\ won' = (won \/ Full(at'))
    /\ flight' = None
FinishesOn ==
    ~won' /\ (auto \/ (flight.trigger /\ CanAutoFinish(at', up', won')))

-----------------------------------------------------------------------------
(* Events *)

\* newGame, from the N key or from the button
NewGame ==
    \E d \in Deals, button \in BOOLEAN :
        /\ at' = Dealt(d)
        /\ up' = {Last(at'[p]) : p \in ColumnSet}
        /\ held' = (held \/ button)
        /\ pressed' = None /\ source' = None /\ last' = None
        /\ auto' = FALSE /\ flight' = None /\ won' = FALSE

\* the S key, also while the button is down or cards are dragged
KeyS ==
    /\ Idle
    /\ DrawFromStock
    /\ UNCHANGED <<held, pressed, source, last, flight, won>>

\* onMouse, MOUSE_STATE_DOWN: the stock, a card, or nothing of use
DownStock ==
    /\ Idle
    /\ DrawFromStock
    /\ held' = TRUE /\ pressed' = None /\ last' = None
    /\ UNCHANGED <<source, flight, won>>
DownCard ==
    /\ Idle
    /\ \E p \in Piles : \E i \in 1 .. Len(at[p]) :
           /\ CanDragFrom(p, i)
           /\ pressed' = [pile |-> p, index |-> i, cells |-> at[p]]
    /\ held' = TRUE
    /\ UNCHANGED <<at, up, source, last, auto, flight, won>>
DownElsewhere ==
    /\ Idle
    /\ held' = TRUE /\ pressed' = None
    /\ UNCHANGED <<at, up, source, last, auto, flight, won>>

\* while cards move by themselves mouse events are swallowed
Swallowed ==
    /\ ~Idle
    /\ held' \in BOOLEAN
    /\ UNCHANGED <<at, up, pressed, source, last, auto, flight, won>>

\* onMouse, MOUSE_STATE_DRAG: beginDrag takes the cards from the pressed index
\* on; the index becomes the pile's count, whatever the count was
BeginDrag ==
    /\ Idle /\ held /\ source = None /\ pressed # None
    /\ LET p == pressed.pile
           i == pressed.index
           count == Len(at[p])
           array == at[p] \o SubSeq(pressed.cells, count + 1, Len(pressed.cells)) IN
       /\ CanDragFrom(p, i)
       /\ at' = [at EXCEPT !["hand"] = SubSeq(at[p], i, count),
                           ![p] = SubSeq(array, 1, i - 1)]
       /\ source' = p
    /\ pressed' = None /\ last' = None
    /\ UNCHANGED <<up, held, auto, flight, won>>

\* a foundation takes a single card
Targets ==
    {s \in Suits : Len(at["hand"]) = 1 /\ FitsFoundation(at["hand"][1], s, at[s])}
    \cup {p \in ColumnSet : FitsColumn(at["hand"][1], at[p])}

\* onMouse, MOUSE_STATE_UP while dragging: the nearest pile that takes the
\* cards, however far away; where they came from when there is none
DropOn(p) ==
    /\ at' = Shift(at, "hand", p, Len(at["hand"]))
    /\ up' = Reveal(up, at', source)
    /\ won' = (won \/ Full(at'))
    /\ auto' = Request(at', up', won')
PutBack ==
    /\ at' = Shift(at, "hand", source, Len(at["hand"]))
    /\ UNCHANGED <<up, auto, won>>
UpDrop ==
    /\ Idle /\ held /\ source # None
    /\ \/ \E p \in Targets : DropOn(p)
       \/ Targets = {} /\ PutBack
    /\ held' = FALSE /\ pressed' = None /\ source' = None /\ last' = None
    /\ UNCHANGED flight

\* findCardAt may find the pressed card where the button is released
Hit ==
    /\ pressed # None
    /\ IF pressed.pile \in ColumnSet THEN pressed.index <= Len(at[pressed.pile])
       ELSE pressed.index = Len(at[pressed.pile])
\* MOUSE_STATE_UP elsewhere, or over the pressed card: a first or a late click
Click ==
    /\ Idle /\ held /\ source = None
    /\ held' = FALSE /\ pressed' = None
    /\ \/ UNCHANGED last
       \/ Hit /\ last' = <<pressed.pile, pressed.index>>
    /\ UNCHANGED <<at, up, source, auto, flight, won>>
\* onDoubleClick: the second click within 300 ms sends the pile's top card home
DoubleClick ==
    /\ Idle /\ held /\ source = None
    /\ Hit /\ last = <<pressed.pile, pressed.index>>
    /\ held' = FALSE /\ pressed' = None /\ last' = None
    /\ LET p == pressed.pile IN
       IF Last(at[p]) \in up /\ Homes(at, Last(at[p])) # {}
       THEN Launch(p, TRUE) ELSE UNCHANGED <<at, flight>>
    /\ UNCHANGED <<up, source, auto, won>>

\* onTimer: the last step of an animation, or the next move of an auto-finish
TimerFinish ==
    /\ flight # None
    /\ Land(at)
    /\ auto' = FinishesOn
    /\ UNCHANGED <<held, pressed, source, last>>
TimerBegin ==
    /\ auto /\ flight = None
    /\ IF Movable(at) # {}
       THEN Launch(FinishOrder[Min(Movable(at))], FALSE) /\ UNCHANGED <<auto, won>>
       ELSE /\ auto' = FALSE
            /\ won' = (won \/ Full(at))
            /\ UNCHANGED <<at, flight>>
    /\ UNCHANGED <<up, held, pressed, source, last>>

\* onResize ends an animation at once, an auto-finish, and a drag: drag.count = 0
Resize ==
    /\ LET a == [at EXCEPT !["hand"] = <<>>] IN
       IF flight # None THEN Land(a) ELSE at' = a /\ UNCHANGED <<up, flight, won>>
    /\ auto' = FALSE /\ source' = None
    /\ UNCHANGED <<held, pressed, last>>

\* the two steps that spoil a game: a resize forgets the cards in the hand, and a
\* drag that begins at a card that has left makes the pile's count include it again
TakesNothing == pressed.index > Len(at[pressed.pile])
Forgets == at["hand"] # <<>>

\* a spoiled game is followed no further than to the next deal
Next ==
    \/ NewGame /\ spoiled' = FALSE
    \/ /\ ~spoiled
       /\ \/ BeginDrag /\ spoiled' = TakesNothing
          \/ Resize /\ spoiled' = Forgets
          \/ /\ KeyS \/ DownStock \/ DownCard \/ DownElsewhere \/ Swallowed
                \/ UpDrop \/ Click \/ DoubleClick \/ TimerFinish \/ TimerBegin
             /\ UNCHANGED spoiled

Init ==
    /\ \E d \in Deals : at = Dealt(d)
    /\ up = {Last(at[p]) : p \in ColumnSet}
    /\ held = FALSE
    /\ pressed = None /\ source = None /\ last = None
    /\ auto = FALSE /\ flight = None /\ won = FALSE /\ spoiled = FALSE

Spec == Init /\ [][Next]_vars
\* the window's timer keeps firing (setTimer): an animation lands, an
\* auto-finish begins its next move.  The first is TimerFinish without auto'.
FairSpec ==
    Spec /\ WF_<<at, up, flight, won>>(flight # None /\ Land(at)) /\ WF_game(TimerBegin)

-----------------------------------------------------------------------------
(* Properties *)

\* Every place holds cards of the deck, and autoMoveAnim is active exactly
\* while it has a card (the fields of CardsWidget).
TypeOK ==
    /\ at \in [Places -> Seq(Deck)]
    /\ up \subseteq Deck
    /\ held \in BOOLEAN /\ auto \in BOOLEAN /\ won \in BOOLEAN /\ spoiled \in BOOLEAN
    /\ pressed = None \/ (pressed \in Presses /\ pressed.index \in 1 .. Len(pressed.cells))
    /\ source = None \/ source \in Piles \ {"stock"}
    /\ source = None => at["hand"] = <<>>
    /\ last = None \/ last \in Piles \X Nat
    /\ flight = None \/ flight \in Flights
    /\ Len(at["flight"]) = IF flight = None THEN 0 ELSE 1

\* Whatever is clicked, dragged, dropped, drawn or moved by the timer, no
\* card is in two places ...
NoCardTwice ==
    \A p, q \in Places : \A i \in DOMAIN at[p], j \in DOMAIN at[q] :
        at[p][i] = at[q][j] => p = q /\ i = j
\* ... and none has left the table: a refused drop puts the cards back
\* ("Return cards to their original pile").
NoCardMissing ==
    \A c \in Deck : \E p \in Places : \E i \in DOMAIN at[p] : at[p][i] = c

\* No pile outgrows Pile.cards[24], no drag DragInfo.cards[13]: nothing in
\* the code checks either.
ArraysFit ==
    /\ \A p \in Piles : Len(at[p]) <= PileCells
    /\ Len(at["hand"]) <= DragCells

\* The deck is whole and fits its arrays, unless the game was spoiled by one of the two
\* steps that do not keep it (onResize during a drag, beginDrag at a card that has left).
DeckComplete == TypeOK /\ ArraysFit /\ (~spoiled => NoCardTwice /\ NoCardMissing)

\* Foundation s is the ace to some value of suit s, also while a card is on
\* its way (canPlaceOn was asked when the animation began, not when it ends).
FoundationsOrdered ==
    \A s \in Suits : \A i \in DOMAIN at[s] : at[s][i] = <<s, i>>

\* In a column the cards face up lie on the ones face down and are a
\* descending run of alternating colours, so each of them can be dragged.
ColumnsOrdered ==
    \A p \in ColumnSet : \E k \in 0 .. Len(at[p]) :
        /\ \A i \in 1 .. Len(at[p]) : at[p][i] \in up <=> i > k
        /\ IsRun(SubSeq(at[p], k + 1, Len(at[p])))

\* With nothing dragged and nothing moving, the top card of a column is face
\* up: a drop, an animation and an auto-finish all turn it.
IdleTopsFaceUp ==
    source = None /\ flight = None =>
        \A p \in ColumnSet : at[p] # <<>> => Last(at[p]) \in up

\* The piles are what the rules make of them (canPlaceOn, canDragFrom, the turned cards).
PilesOrdered == ~spoiled => FoundationsOrdered /\ ColumnsOrdered /\ IdleTopsFaceUp

\* An auto-finish is only begun when it can reach the end: the simulation of
\* canAutoFinishGame and the moves the timer makes agree, no card is in the
\* hand, and there is always a next move.
AutoFinishNeverStuck ==
    /\ auto \/ flight # None => source = None
    /\ auto /\ flight = None => Movable(at) # {}

\* All cards on the foundations is noticed as a win, whichever of the drop,
\* the double click, the auto-finish or a resize brought the last one there.
WinNoticed == Full(at) => won

\* The end of a game: no auto-finish gets stuck, no win goes by (requestAutoFinishGame).
GameEnds == ~spoiled => AutoFinishNeverStuck /\ WinNoticed

\* What is dragged is a face-up run of the pile it comes from ("Tableau drag
\* requires a face-up, valid descending sequence").
DragIsARun ==
    source # None /\ ~spoiled =>
        /\ at["hand"] # <<>>
        /\ IsRun(at["hand"])
        /\ \A i \in DOMAIN at["hand"] : at["hand"][i] \in up

\* The mouse is not dead for ever: an auto-finish or an animation ends.
InputReturns == ~Idle ~> Idle

-----------------------------------------------------------------------------
(* The inductive invariant *)

Follows(c, d) == OppositeColours(c, d) /\ Value(d) = Value(c) - 1

\* A column: on a card face up lies the next card of its run, and only as many
\* cards are face down as were dealt that way.
ColumnRuns ==
    \A p \in ColumnSet : \A i \in 1 .. Len(at[p]) :
        IF at[p][i] \in up
        THEN i < Len(at[p]) => at[p][i + 1] \in up /\ Follows(at[p][i], at[p][i + 1])
        ELSE i < Len(Columns)

\* The top of a column that nothing was just taken from is face up, and so is
\* every card of the other places but the stock.
TopsUp ==
    \A p \in ColumnSet :
        at[p] # <<>> /\ p # source /\ (flight # None => p # flight.src) => Last(at[p]) \in up
OthersUp ==
    \A p \in Suits \cup {"waste", "hand", "flight"} : \A i \in 1 .. Len(at[p]) : at[p][i] \in up

\* Stock and waste never hold more than what was not dealt.
StockRoom ==
    Len(at["stock"]) + Len(at["waste"]) + (IF source = "waste" THEN 1 ELSE 0)
        <= DeckSize - DealtBefore(Len(Columns) + 1)
PressFits == pressed # None => Len(pressed.cells) <= PileCells

\* What is dragged would fit where it came from, a win was noticed before, and
\* nothing moves by itself.
DragReturns ==
    source # None =>
        /\ at["hand"] # <<>> /\ IsRun(at["hand"])
        /\ source \in Suits \cup {"waste"} => Len(at["hand"]) = 1
        /\ source \in Suits => at["hand"][1] = <<source, Len(at[source]) + 1>>
        /\ source \in ColumnSet /\ at[source] # <<>> =>
               (Last(at[source]) \in up => Follows(Last(at[source]), at["hand"][1]))
        /\ Full(Shift(at, "hand", source, Len(at["hand"]))) => won

\* The card in flight is the next one of its foundation, and the card it left
\* behind in a column will be turned.
FlightFits ==
    flight # None =>
        /\ at["flight"][1] = <<flight.dst, Len(at[flight.dst]) + 1>>
        /\ flight.src \in ColumnSet /\ at[flight.src] # <<>> => flight.reveal
        /\ source = None

\* The cards of waste and columns, and which of them waits for which other one to
\* go home first: one of the same suit and lower, or one that lies above it.
Loose(a) == {c \in Deck : \E i \in DOMAIN FinishOrder :
                 \E j \in DOMAIN a[FinishOrder[i]] : a[FinishOrder[i]][j] = c}
Waits(a, c, d) ==
    \/ Suit(c) = Suit(d) /\ Value(d) < Value(c)
    \/ \E i \in DOMAIN FinishOrder : \E j, k \in DOMAIN a[FinishOrder[i]] :
           j < k /\ a[FinishOrder[i]][j] = c /\ a[FinishOrder[i]][k] = d

\* No loose cards wait for each other all around.
Finishable(a) ==
    \A cs \in SUBSET Loose(a) : cs # {} => \E c \in cs : \A d \in cs : ~Waits(a, c, d)

\* An auto-finish goes on only over piles it can bring home.
AutoFinishes ==
    auto =>
        /\ ~won /\ source = None /\ at["stock"] = <<>>
        /\ \A p \in ColumnSet : \A i \in 1 .. Len(at[p]) : at[p][i] \in up
        /\ Finishable(at)

Sound ==
    /\ NoCardTwice /\ NoCardMissing
    /\ FoundationsOrdered /\ ColumnRuns /\ TopsUp /\ OthersUp
    /\ StockRoom /\ PressFits
    /\ DragReturns /\ FlightFits /\ AutoFinishes
    /\ WinNoticed
IInv == TypeOK /\ ArraysFit /\ (~spoiled => Sound)
=============================================================================
