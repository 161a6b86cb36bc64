------------------------------ MODULE MineProofs ------------------------------
(***************************************************************************)
(* Proofs about Mine: the board, its counters and the outcome agree, flags  *)
(* protect and openings are complete, for every set of difficulties.        *)
(***************************************************************************)
EXTENDS Mine, FiniteSetTheorems, WellFoundedInduction, TLAPS

-----------------------------------------------------------------------------
(* Induction over the rounds of a flood *)

\* A set of natural numbers has a least member: no chain of intervals descends for ever.
LEMMA LeastNat ==
  ASSUME NEW T \in SUBSET Nat, T # {}
  PROVE  \E m \in T : \A k \in T : m <= k
  <1> DEFINE F == {0 .. m : m \in T}
             R == StrictSubsetOrdering(Nat)
  <1>1. IsWellFoundedOn(R, FiniteSubsetsOf(Nat))
    BY FS_StrictSubsetOrderingWellFounded
  <1>2. F \subseteq FiniteSubsetsOf(Nat) /\ F # {}
    <2>1. \A m \in T : 0 .. m \in SUBSET Nat /\ IsFiniteSet(0 .. m)
      BY FS_Interval
    <2> QED BY <2>1 DEF FiniteSubsetsOf
  <1>3. PICK x \in F : \A y \in F : <<y, x>> \notin R
    <2> HIDE DEF F, R
    <2> QED BY <1>1, <1>2, WFMin
  <1>4. PICK m \in T : x = 0 .. m
    OBVIOUS
  <1>5. ASSUME NEW k \in T, k < m PROVE FALSE
    <2>1. /\ 0 .. k \in SUBSET Nat /\ 0 .. m \in SUBSET Nat
          /\ 0 .. k \subseteq 0 .. m /\ 0 .. k # 0 .. m
      BY <1>5
    <2>2. <<0 .. k, 0 .. m>> \in R
      BY <2>1 DEF StrictSubsetOrdering
    <2> QED BY <1>3, <1>4, <2>2
  <1> QED BY <1>4, <1>5

\* A set that holds 0 and with each number below n the next one holds all up to n.
LEMMA UpTo ==
  ASSUME NEW n \in Nat, NEW S, 0 \in S, \A k \in 0 .. n - 1 : k \in S => k + 1 \in S
  PROVE  0 .. n \subseteq S
  <1> DEFINE T == (0 .. n) \ S
  <1> SUFFICES ASSUME T # {} PROVE FALSE
    OBVIOUS
  <1>1. T \in SUBSET Nat
    OBVIOUS
  <1>2. PICK m \in T : \A k \in T : m <= k
    <2> HIDE DEF T
    <2> QED BY <1>1, LeastNat
  <1>3. m # 0 /\ m - 1 \in 0 .. n - 1 /\ m - 1 \in S /\ (m - 1) + 1 = m
    BY <1>2
  <1> QED BY <1>2, <1>3

\* What the rounds of a flood are: the first is where it begins, each next one a FloodStep.
FloodRounds(b, from) ==
    CHOOSE f : f = [n \in 0 .. Cardinality(Cells) |->
                       IF n = 0 THEN from ELSE FloodStep(b, f[n - 1])]

\* A flood ends with the last of its rounds.
LEMMA Rounds ==
  ASSUME NEW b, NEW from, Cardinality(Cells) \in Nat
  PROVE  /\ Flood(b, from) = FloodRounds(b, from)[Cardinality(Cells)]
         /\ FloodRounds(b, from)[0] = from
         /\ \A n \in 1 .. Cardinality(Cells) :
               FloodRounds(b, from)[n] = FloodStep(b, FloodRounds(b, from)[n - 1])
  <1> DEFINE K == Cardinality(Cells)
             Step(x) == FloodStep(b, x)
             Fits(f, m) == /\ f = [n \in 0 .. m |-> f[n]] /\ f[0] = from
                           /\ \A n \in 1 .. m : f[n] = Step(f[n - 1])
             Made(f) == f = [n \in 0 .. K |-> IF n = 0 THEN from ELSE Step(f[n - 1])]
             S == {m \in Nat : \E f : Fits(f, m)}
  <1> HIDE DEF Step
  <1>1. 0 \in S
    <2> DEFINE f == [n \in 0 .. 0 |-> from]
    <2>1. Fits(f, 0)
      OBVIOUS
    <2> QED BY <2>1
  <1>2. ASSUME NEW k \in 0 .. K - 1, k \in S PROVE k + 1 \in S
    <2>1. PICK f : Fits(f, k)
      BY <1>2
    <2> DEFINE g == [n \in 0 .. k + 1 |-> IF n = 0 THEN from ELSE Step(f[n - 1])]
    <2>2. k \in Nat /\ g = [n \in 0 .. k + 1 |-> g[n]] /\ g[0] = from
      OBVIOUS
    <2>3. ASSUME NEW n \in 1 .. k + 1 PROVE g[n] = Step(g[n - 1])
      <3>1. g[n] = Step(f[n - 1]) /\ n - 1 \in 0 .. k
        BY <2>2
      <3>2. g[n - 1] = f[n - 1]
        <4>1. CASE n = 1
          BY <2>1, <2>2, <4>1
        <4>2. CASE n # 1
          <5>1. n - 1 \in 1 .. k /\ n - 1 \in 0 .. k + 1 /\ n - 1 # 0
            BY <4>2
          <5> QED BY <2>1, <5>1
        <4> QED BY <4>1, <4>2
      <3> QED BY <3>1, <3>2
    <2>4. Fits(g, k + 1)
      <3> HIDE DEF g
      <3> QED BY <2>2, <2>3
    <2> HIDE DEF g, Fits
    <2> QED BY <2>2, <2>4
  <1>3. PICK f : Fits(f, K)
    <2>1. K \in 0 .. K
      OBVIOUS
    <2>2. 0 .. K \subseteq S
      <3> HIDE DEF S, K
      <3> QED BY <1>1, <1>2, UpTo DEF K
    <2> QED BY <2>1, <2>2
  <1>4. Made(f)
    <2> DEFINE e(n) == IF n = 0 THEN from ELSE Step(f[n - 1])
    <2>1. ASSUME NEW n \in 0 .. K PROVE f[n] = e(n)
      <3>1. n = 0 \/ n \in 1 .. K
        OBVIOUS
      <3> QED BY <1>3, <3>1
    <2>2. f = [n \in 0 .. K |-> f[n]]
      BY <1>3
    <2>3. f = [n \in 0 .. K |-> e(n)]
      <3> HIDE DEF e
      <3> QED BY <2>1, <2>2
    <2> QED BY <2>3
  <1>5. Made(FloodRounds(b, from))
    <2>1. FloodRounds(b, from) = CHOOSE g : Made(g)
      BY DEF FloodRounds, Step
    <2> HIDE DEF Made
    <2> QED BY <1>4, <2>1
  <1>6. /\ FloodRounds(b, from)[0] = from
        /\ \A n \in 1 .. K : FloodRounds(b, from)[n] = Step(FloodRounds(b, from)[n - 1])
    <2> DEFINE r == FloodRounds(b, from)
    <2>1. Made(r)
      BY <1>5
    <2> HIDE DEF r
    <2>2. r[0] = from /\ \A n \in 1 .. K : r[n] = Step(r[n - 1])
      BY <2>1
    <2> QED BY <2>2 DEF r
  <1>7. Flood(b, from) = FloodRounds(b, from)[K]
    BY DEF Flood, FloodRounds
  <1> QED BY <1>6, <1>7 DEF Step

-----------------------------------------------------------------------------
(* The board *)

\* The counters have finite sets to count, and there is room for a safe cell.
LEMMA BoardSize ==
  ASSUME difficulty \in Levels
  PROVE  /\ IsFiniteSet(Cells) /\ Cardinality(Cells) \in Nat
         /\ Mines \in Nat \ {0} /\ Mines < Cardinality(Cells)
  <1> DEFINE r == Difficulties[difficulty].rows
             c == Difficulties[difficulty].cols
  <1>1. r \in Nat /\ c \in Nat /\ Mines \in Nat \ {0} /\ Mines < r * c
    BY DifficultyAssumption DEF Mines
  <1> HIDE DEF r, c
  <1>2. IsFiniteSet(1 .. r) /\ Cardinality(1 .. r) = r
    BY <1>1, FS_Interval
  <1>3. IsFiniteSet(1 .. c) /\ Cardinality(1 .. c) = c
    BY <1>1, FS_Interval
  <1>4. IsFiniteSet((1 .. r) \X (1 .. c)) /\ Cardinality((1 .. r) \X (1 .. c)) = r * c
    <2> DEFINE R == 1 .. r
               C == 1 .. c
    <2>1. IsFiniteSet(R) /\ IsFiniteSet(C) /\ Cardinality(R) = r /\ Cardinality(C) = c
      BY <1>2, <1>3
    <2> HIDE DEF R, C
    <2>2. IsFiniteSet(R \X C) /\ Cardinality(R \X C) = Cardinality(R) * Cardinality(C)
      BY <2>1, FS_Product
    <2> QED BY <2>1, <2>2 DEF R, C
  <1>5. Cells = (1 .. r) \X (1 .. c)
    BY DEF Cells, r, c
  <1>6. Cardinality(Cells) \in Nat
    BY <1>4, <1>5, FS_CardinalityType
  <1> QED BY <1>1, <1>4, <1>5, <1>6

Boards == [mine : SUBSET Cells, open : SUBSET Cells, flag : SUBSET Cells,
           openedCount : Nat, flagsUsed : Int]
Free(b) == Cells \ (b.mine \cup b.open \cup b.flag)

\* An opened board keeps its type.
LEMMA OpenUpdate ==
  ASSUME NEW b \in Boards, NEW X \in SUBSET Cells, NEW k \in Nat
  PROVE  LET c == [b EXCEPT !.open = @ \cup X, !.openedCount = @ + k] IN
         /\ c \in Boards /\ c.mine = b.mine /\ c.flag = b.flag /\ c.flagsUsed = b.flagsUsed
         /\ c.open = b.open \cup X /\ c.openedCount = b.openedCount + k
  <1> DEFINE c == [b EXCEPT !.open = @ \cup X, !.openedCount = @ + k]
  <1>1. /\ c.mine = b.mine /\ c.flag = b.flag /\ c.flagsUsed = b.flagsUsed
        /\ c.open = b.open \cup X /\ c.openedCount = b.openedCount + k
    BY DEF Boards
  <1>2. b.open \cup X \in SUBSET Cells /\ b.openedCount + k \in Nat
    BY DEF Boards
  <1>3. c \in Boards
    BY <1>2 DEF Boards
  <1> QED BY <1>1, <1>3

\* Where no mine is counted there is none.
LEMMA NoMinesAround ==
  ASSUME difficulty \in Levels, NEW b, NEW c, Adjacent(b, c) = 0
  PROVE  Around(c) \cap b.mine = {}
  <1>1. IsFiniteSet(Around(c) \cap b.mine)
    BY BoardSize, FS_Subset DEF Around
  <1> QED BY <1>1, FS_EmptySet DEF Adjacent

\* One round adds to what is reached, and only free cells.
LEMMA OneRound ==
  ASSUME NEW b \in Boards, NEW X \in SUBSET Cells
  PROVE  /\ X \subseteq FloodStep(b, X)
         /\ FloodStep(b, X) \subseteq X \cup Free(b)
         /\ \A c \in X : Adjacent(b, c) = 0 => Around(c) \cap Free(b) \subseteq FloodStep(b, X)
  BY DEF FloodStep, Spread, Free, Around, Boards

\* A flood opens free cells only, with those it begins at, and goes on until no cell it
\* opened without mines around has a free neighbour left: as many rounds as there are
\* cells are enough, for a round that changes nothing is the last.
LEMMA FloodFacts ==
  ASSUME difficulty \in Levels, NEW b \in Boards, NEW from \in SUBSET Free(b)
  PROVE  /\ Flood(b, from) \in SUBSET Free(b)
         /\ from \subseteq Flood(b, from)
         /\ \A c \in Flood(b, from) :
               Adjacent(b, c) = 0 => Around(c) \cap Free(b) \subseteq Flood(b, from)
  <1> DEFINE K == Cardinality(Cells)
             X(n) == FloodRounds(b, from)[n]
             Full(n) == X(n) = FloodStep(b, X(n)) \/ Cardinality(X(n)) >= n
             S == {n \in 0 .. K : from \subseteq X(n) /\ X(n) \in SUBSET Free(b) /\ Full(n)}
  <1>1. IsFiniteSet(Cells) /\ K \in Nat /\ Free(b) \in SUBSET Cells
    BY BoardSize DEF Free
  <1>2. Flood(b, from) = X(K) /\ X(0) = from /\ \A n \in 1 .. K : X(n) = FloodStep(b, X(n - 1))
    BY <1>1, Rounds
  <1> HIDE DEF K, X
  <1>3. \A Y \in SUBSET Free(b) : IsFiniteSet(Y) /\ Cardinality(Y) \in Nat
    BY <1>1, FS_Subset, FS_CardinalityType
  <1>4. 0 \in S
    BY <1>1, <1>2, <1>3
  <1>5. ASSUME NEW k \in 0 .. K - 1, k \in S PROVE k + 1 \in S
    <2>1. k + 1 \in 1 .. K /\ (k + 1) - 1 = k
      BY <1>1
    <2>2. X(k + 1) = FloodStep(b, X(k)) /\ X(k) \in SUBSET Cells
      BY <1>1, <1>2, <1>5, <2>1
    <2>3. X(k) \subseteq X(k + 1) /\ X(k + 1) \in SUBSET Free(b)
      BY <1>5, <2>2, OneRound
    <2>4. CASE X(k + 1) = X(k)
      BY <1>5, <2>1, <2>2, <2>4
    <2>5. CASE X(k + 1) # X(k)
      <3>1. Cardinality(X(k)) <= Cardinality(X(k + 1)) /\ Cardinality(X(k)) # Cardinality(X(k + 1))
        BY <1>3, <2>3, <2>5, FS_Subset
      <3>2. Cardinality(X(k)) \in Nat /\ Cardinality(X(k + 1)) \in Nat /\ Cardinality(X(k)) >= k
        BY <1>3, <1>5, <2>2, <2>3, <2>5
      <3>3. Cardinality(X(k + 1)) >= k + 1
        BY <3>1, <3>2, <1>1
      <3> QED BY <1>5, <2>1, <2>3, <3>3
    <2> QED BY <2>4, <2>5
  <1>6. K \in S
    <2>1. 0 .. K \subseteq S
      <3> HIDE DEF S
      <3> QED BY <1>1, <1>4, <1>5, UpTo
    <2> QED BY <1>1, <2>1
  <1>7. X(K) \in SUBSET Cells /\ X(K) \in SUBSET Free(b)
    BY <1>1, <1>6
  <1>8. FloodStep(b, X(K)) = X(K)
    <2>1. CASE Cardinality(X(K)) >= K
      <3>1. Cardinality(X(K)) = K
        BY <1>1, <1>3, <1>7, <2>1, FS_Subset DEF K
      <3>2. X(K) = Cells
        BY <1>1, <1>7, <3>1, FS_Subset DEF K
      <3> QED BY <1>7, <3>2, OneRound DEF Free
    <2> QED BY <1>6, <2>1
  <1> QED BY <1>2, <1>6, <1>7, <1>8, OneRound

-----------------------------------------------------------------------------
(* Positions *)

Positions == [board : Boards, lost : BOOLEAN, won : BOOLEAN]

\* What BoardSound, FlagsProtect and LostShows say of a position once the mines are placed.
Sound(p) ==
    /\ p \in Positions
    /\ Cardinality(p.board.mine) = Mines
    /\ p.board.openedCount = Cardinality(p.board.open \ p.board.mine)
    /\ p.board.flagsUsed = Cardinality(p.board.flag)
    /\ p.board.flag \cap p.board.open \subseteq p.board.mine
    /\ ~p.lost => p.board.mine \cap p.board.open = {}
    /\ p.lost => p.board.mine \subseteq p.board.open
    /\ p.won <=> ~p.lost /\ Cells \ p.board.mine = p.board.open
    /\ p.won => p.board.flag = p.board.mine

\* From p to q cells are opened, and those without mines around with all their neighbours.
Opens(p, q) ==
    /\ q.board.mine = p.board.mine
    /\ p.board.flag \subseteq q.board.flag /\ p.board.open \subseteq q.board.open
    /\ q.board.openedCount >= p.board.openedCount
    /\ \A c \in q.board.open \ p.board.open :
          c \notin p.board.mine /\ Adjacent(p.board, c) = 0 =>
              Around(c) \subseteq q.board.open \cup q.board.flag

\* loseAt keeps a position sound: a lost one shows its mines and was not won.
LEMMA LoseSound ==
  ASSUME difficulty \in Levels, NEW p, Sound(p), ~p.won, ~p.lost
  PROVE  /\ Sound(Lose(p)) /\ Lose(p).lost /\ Lose(p).board.openedCount = p.board.openedCount
         /\ Lose(p).board.mine = p.board.mine /\ Lose(p).board.flag = p.board.flag
         /\ Lose(p).board.open = p.board.open \cup p.board.mine
  <1> DEFINE q == Lose(p)
             b == p.board
  <1>1. /\ q \in Positions /\ q.lost /\ q.won = p.won
        /\ q.board = [b EXCEPT !.open = @ \cup b.mine] /\ b \in Boards
    BY DEF Lose, Sound, Positions, Boards
  <1>2. /\ q.board.mine = b.mine /\ q.board.open = b.open \cup b.mine /\ q.board.flag = b.flag
        /\ q.board.openedCount = b.openedCount /\ q.board.flagsUsed = b.flagsUsed
    BY <1>1 DEF Boards
  <1> HIDE DEF q
  <1>3. q.board.open \ q.board.mine = b.open \ b.mine
    BY <1>2
  <1>4. Sound(q)
    BY <1>1, <1>2, <1>3 DEF Sound
  <1> QED BY <1>1, <1>2, <1>4 DEF q

\* Cells opened by a flood are counted, and the last safe cell of the board wins.
LEMMA OpenSound ==
  ASSUME difficulty \in Levels, NEW p, Sound(p), ~p.won, ~p.lost,
         NEW X \in SUBSET Free(p.board)
  PROVE  LET q == CheckWin(OpenCells(p, X)) IN
         /\ Sound(q) /\ ~q.lost
         /\ q.board.mine = p.board.mine /\ q.board.open = p.board.open \cup X
         /\ p.board.flag \subseteq q.board.flag
         /\ q.board.openedCount = p.board.openedCount + Cardinality(X)
         /\ Cardinality(X) \in Nat
         /\ X # {} => Cardinality(X) > 0
  <1> DEFINE b == p.board
             o == OpenCells(p, X)
             q == CheckWin(o)
  <1>1. /\ b \in Boards /\ b \in [mine : SUBSET Cells, open : SUBSET Cells, flag : SUBSET Cells,
                                  openedCount : Nat, flagsUsed : Int]
        /\ IsFiniteSet(Cells) /\ Cardinality(Cells) \in Nat /\ Mines \in Nat
    BY BoardSize DEF Sound, Positions, Boards
  <1>2. /\ X \in SUBSET Cells /\ IsFiniteSet(X) /\ Cardinality(X) \in Nat
        /\ X # {} => Cardinality(X) > 0
    <2>1. X \in SUBSET Cells /\ IsFiniteSet(X)
      BY <1>1, FS_Subset DEF Free
    <2>2. Cardinality(X) \in Nat /\ (Cardinality(X) = 0 <=> X = {})
      BY <2>1, FS_CardinalityType, FS_EmptySet
    <2> QED BY <2>1, <2>2
  <1>3. /\ o \in Positions /\ o.lost = FALSE /\ o.won = FALSE
        /\ o.board.mine = b.mine /\ o.board.flag = b.flag /\ o.board.flagsUsed = b.flagsUsed
        /\ o.board.open = b.open \cup X /\ o.board.openedCount = b.openedCount + Cardinality(X)
    <2> DEFINE n == Cardinality(X)
               c == [b EXCEPT !.open = @ \cup X, !.openedCount = @ + n]
    <2>1. p \in Positions /\ p.lost = FALSE /\ p.won = FALSE /\ n \in Nat
      BY <1>2 DEF Sound, Positions
    <2> HIDE DEF n
    <2>2. o = [p EXCEPT !.board = c]
      BY <1>1, <2>1 DEF OpenCells, Positions, n
    <2>3. /\ c \in Boards /\ c.mine = b.mine /\ c.flag = b.flag /\ c.flagsUsed = b.flagsUsed
          /\ c.open = b.open \cup X /\ c.openedCount = b.openedCount + n
      BY <1>1, <1>2, <2>1, OpenUpdate
    <2> HIDE DEF c, o
    <2> QED BY <2>1, <2>2, <2>3 DEF Positions, n
  <1>4. (b.open \cup X) \ b.mine = (b.open \ b.mine) \cup X /\ (b.open \ b.mine) \cap X = {}
    BY DEF Free
  <1>5. Cardinality((b.open \cup X) \ b.mine) = b.openedCount + Cardinality(X)
    <2>1. IsFiniteSet(b.open \ b.mine) /\ Cardinality(b.open \ b.mine) = b.openedCount
      BY <1>1, FS_Subset DEF Sound
    <2>2. Cardinality((b.open \ b.mine) \cup X)
            = b.openedCount + Cardinality(X) - Cardinality((b.open \ b.mine) \cap X)
      BY <1>2, <2>1, FS_Union
    <2>3. Cardinality((b.open \ b.mine) \cap X) = 0
      BY <1>4, FS_EmptySet
    <2> DEFINE m == Cardinality(X)
    <2> HIDE DEF m
    <2>4. Cardinality((b.open \cup X) \ b.mine) = b.openedCount + m - 0 /\ b.openedCount \in Nat /\ m \in Nat
      BY <1>1, <1>2, <1>4, <2>2, <2>3 DEF m
    <2> QED BY <2>4 DEF m
  <1>6. b.mine \cap (b.open \cup X) = {} /\ b.flag \cap (b.open \cup X) \subseteq b.mine
    BY DEF Sound, Free
  <1>7. o.board.openedCount = Cardinality(Cells) - Mines <=> Cells \ b.mine = b.open \cup X
    <2> DEFINE safe == Cells \ b.mine
               open == b.open \cup X
    <2>1. IsFiniteSet(safe) /\ Cardinality(safe) = Cardinality(Cells) - Mines
      <3>1. Cells \cap b.mine = b.mine
        BY <1>1
      <3>2. Cardinality(safe) = Cardinality(Cells) - Cardinality(Cells \cap b.mine)
        BY <1>1, FS_Difference
      <3> QED BY <1>1, <3>1, <3>2, FS_Subset DEF Sound
    <2>2. open \in SUBSET safe /\ open \ b.mine = open
      BY <1>1, <1>2, <1>6
    <2>3. Cardinality(open) = o.board.openedCount
      BY <1>3, <1>5, <2>2
    <2>4. Cardinality(open) = Cardinality(safe) <=> open = safe
      <3> HIDE DEF open, safe
      <3> QED BY <2>1, <2>2, FS_Subset
    <2> QED BY <2>1, <2>3, <2>4
  <1>8. CASE o.board.openedCount # Cardinality(Cells) - Mines
    <2>1. q = o
      BY <1>8 DEF CheckWin
    <2>2. Sound(o)
      BY <1>3, <1>5, <1>6, <1>7, <1>8 DEF Sound
    <2> QED BY <1>2, <1>3, <2>1, <2>2
  <1>9. CASE o.board.openedCount = Cardinality(Cells) - Mines
    <2>1. /\ q \in Positions /\ q.lost = FALSE /\ q.won = TRUE
          /\ q.board.mine = b.mine /\ q.board.flag = b.flag \cup b.mine
          /\ q.board.flagsUsed = Mines
          /\ q.board.open = b.open \cup X
          /\ q.board.openedCount = b.openedCount + Cardinality(X)
      <3>1. q = [o EXCEPT !.won = TRUE, !.board.flag = @ \cup o.board.mine,
                          !.board.flagsUsed = Mines]
        BY <1>9 DEF CheckWin
      <3> DEFINE c == [o.board EXCEPT !.flag = @ \cup b.mine, !.flagsUsed = Mines]
      <3> HIDE DEF o
      <3>2. q = [o EXCEPT !.won = TRUE, !.board = c]
        BY <1>3, <3>1 DEF Positions, Boards
      <3>3. /\ c \in Boards /\ c.mine = b.mine /\ c.flag = b.flag \cup b.mine /\ c.flagsUsed = Mines
            /\ c.open = b.open \cup X /\ c.openedCount = b.openedCount + Cardinality(X)
        <4> DEFINE e == o.board
                   F == e.flag \cup b.mine
        <4>1. e \in Boards /\ F \in SUBSET Cells /\ Mines \in Int
          BY <1>1, <1>3 DEF Positions, Boards
        <4>2. c = [e EXCEPT !.flag = F, !.flagsUsed = Mines]
          BY <4>1 DEF Boards
        <4>3. e.mine = b.mine /\ F = b.flag \cup b.mine /\ e.open = b.open \cup X
              /\ e.openedCount = b.openedCount + Cardinality(X)
          BY <1>3
        <4> HIDE DEF c, e, F
        <4>4. /\ c \in Boards /\ c.mine = e.mine /\ c.open = e.open
              /\ c.openedCount = e.openedCount /\ c.flag = F /\ c.flagsUsed = Mines
          BY <4>1, <4>2 DEF Boards
        <4> QED BY <4>3, <4>4
      <3> HIDE DEF c, q
      <3> QED BY <1>3, <3>2, <3>3 DEF Positions
    <2>2. b.flag \cup b.mine = b.mine
      BY <1>1, <1>6, <1>7, <1>9
    <2>3. Sound(q)
      <3> HIDE DEF q, o
      <3> QED BY <1>5, <1>6, <1>7, <1>9, <2>1, <2>2 DEF Sound
    <2> QED BY <1>2, <2>1, <2>3
  <1> QED BY <1>8, <1>9

\* revealCell of a closed cell loses, or opens it with all that its flood reaches.
LEMMA RevealSound ==
  ASSUME difficulty \in Levels, NEW p, Sound(p), ~p.won, ~p.lost, NEW c \in Cells
  PROVE  /\ Sound(Reveal(p, c)) /\ Opens(p, Reveal(p, c))
         /\ c \notin p.board.mine \cup p.board.open \cup p.board.flag =>
               /\ Reveal(p, c).board.openedCount > 0
               /\ c \in Reveal(p, c).board.open
  <1> DEFINE b == p.board
             q == Reveal(p, c)
  <1>1. b \in Boards /\ b.openedCount \in Nat
    BY DEF Sound, Positions, Boards
  <1>2. CASE c \in b.open \cup b.flag
    BY <1>1, <1>2 DEF Reveal, Opens
  <1>3. CASE c \notin b.open \cup b.flag /\ c \in b.mine
    <2>1. q = Lose(p)
      BY <1>3 DEF Reveal
    <2>2. /\ q.board.mine = b.mine /\ q.board.flag = b.flag /\ q.board.open = b.open \cup b.mine
          /\ q.board.openedCount = b.openedCount /\ Sound(q)
      BY <1>1, <1>3, <2>1, LoseSound
    <2> QED BY <1>1, <1>3, <2>2 DEF Opens
  <1>4. CASE c \notin b.open \cup b.flag \cup b.mine
    <2> DEFINE X == Flood(b, {c})
    <2>1. {c} \in SUBSET Free(b)
      BY <1>4 DEF Free
    <2>2. /\ X \in SUBSET Free(b) /\ c \in X
          /\ \A d \in X : Adjacent(b, d) = 0 => Around(d) \cap Free(b) \subseteq X
      BY <1>1, <2>1, FloodFacts
    <2>3. q = CheckWin(OpenCells(p, X))
      BY <1>4 DEF Reveal
    <2> HIDE DEF X, q
    <2>4. /\ Sound(q) /\ ~q.lost
          /\ q.board.mine = b.mine /\ q.board.open = b.open \cup X
          /\ b.flag \subseteq q.board.flag
          /\ q.board.openedCount = b.openedCount + Cardinality(X)
          /\ Cardinality(X) \in Nat /\ Cardinality(X) > 0
      BY <2>2, <2>3, OpenSound
    <2>5. \A d \in X : Adjacent(b, d) = 0 => Around(d) \subseteq q.board.open \cup q.board.flag
      BY <2>2, <2>4, NoMinesAround DEF Free, Around
    <2>6. Opens(p, q)
      BY <1>1, <2>4, <2>5 DEF Opens
    <2>7. q.board.openedCount > 0
      BY <1>1, <2>4
    <2> QED BY <2>2, <2>4, <2>6, <2>7 DEF q
  <1> QED BY <1>2, <1>3, <1>4

\* chordCell around an open cell, too, whether it meets a mine or not.
LEMMA ChordSound ==
  ASSUME difficulty \in Levels, NEW p, Sound(p), ~p.won, ~p.lost, NEW c \in Cells
  PROVE  Sound(Chord(p, c)) /\ Opens(p, Chord(p, c))
  <1> DEFINE b == p.board
             targets == Around(c) \ b.flag
             mined == targets \cap b.mine
             safe == {t \in targets : t \notin mined /\ \A m \in mined : Before(t, m)}
             X == Flood(b, safe \ b.open)
             q == CheckWin(OpenCells(p, X))
             r == Chord(p, c)
  <1>1. b \in Boards /\ b.openedCount \in Nat
    BY DEF Sound, Positions, Boards
  <1>2. \/ r = p
        \/ r = q
        \/ r = Lose(q) /\ ~q.won
    BY DEF Chord
  <1>3. safe \ b.open \in SUBSET Free(b)
    BY DEF Free, Around
  <1>4. /\ X \in SUBSET Free(b)
        /\ \A d \in X : Adjacent(b, d) = 0 => Around(d) \cap Free(b) \subseteq X
    BY <1>1, <1>3, FloodFacts
  <1> HIDE DEF X, r
  <1>5. /\ Sound(q) /\ ~q.lost
        /\ q.board.mine = b.mine /\ q.board.open = b.open \cup X
        /\ b.flag \subseteq q.board.flag
        /\ q.board.openedCount = b.openedCount + Cardinality(X)
        /\ Cardinality(X) \in Nat
    BY <1>4, OpenSound
  <1> HIDE DEF q
  <1>6. \A d \in X : Adjacent(b, d) = 0 => Around(d) \subseteq q.board.open \cup q.board.flag
    BY <1>4, <1>5, <1>1, NoMinesAround DEF Free, Around
  <1>7. Opens(p, q)
    BY <1>1, <1>5, <1>6 DEF Opens
  <1>8. CASE r = p
    BY <1>1, <1>8 DEF Opens, r
  <1>9. CASE r = Lose(q) /\ ~q.won
    <2>1. /\ r.board.mine = b.mine /\ r.board.flag = q.board.flag
          /\ r.board.open = q.board.open \cup b.mine
          /\ r.board.openedCount = q.board.openedCount /\ Sound(r)
      BY <1>1, <1>5, <1>9, LoseSound
    <2> QED BY <1>7, <2>1 DEF Opens, r
  <1> QED BY <1>2, <1>5, <1>7, <1>8, <1>9 DEF r

-----------------------------------------------------------------------------
(* Steps *)

\* While a game is played the board is a sound position.
LEMMA PositionSound ==
  ASSUME IInv, ~lost, ~won
  PROVE  /\ Position \in Positions
         /\ started => Sound(Position)
  BY DEF IInv, BoardSound, TypeOK, CountersAgree, WonIsCleared, FlagsProtect, Stage, LostShows,
         Position, Positions, Boards, Sound

\* The first reveal places the mines where they are not yet, and not under the cell.
LEMMA PlacedSound ==
  ASSUME IInv, ~started, NEW c \in Cells, NEW mines \in Placements(c)
  PROVE  LET p == [Position EXCEPT !.board.mine = mines] IN
         /\ Sound(p) /\ ~p.won /\ ~p.lost /\ c \notin p.board.mine
         /\ p.board.mine = mines /\ p.board.open = {} /\ p.board.flag = board.flag
  <1> DEFINE b == [board EXCEPT !.mine = mines]
             p == [Position EXCEPT !.board.mine = mines]
  <1>1. /\ board \in Boards /\ board.mine = {} /\ board.open = {} /\ lost = FALSE /\ won = FALSE
        /\ board.openedCount = 0 /\ board.flagsUsed = Cardinality(board.flag)
        /\ difficulty \in Levels
    <2>1. Cardinality({}) = 0
      BY FS_EmptySet
    <2>2. board.open \ board.mine = {}
      BY DEF IInv, Stage
    <2> QED BY <2>1, <2>2
            DEF IInv, BoardSound, TypeOK, CountersAgree, FlagsProtect, Stage, Boards
  <1>2. mines \in SUBSET Cells /\ Cardinality(mines) = Mines /\ c \notin mines
    BY DEF Placements, kSubset
  <1>3. Cells # mines
    BY <1>1, <1>2, BoardSize
  <1>4. p = [board |-> b, lost |-> FALSE, won |-> FALSE]
    <2>1. Position = [board |-> board, lost |-> FALSE, won |-> FALSE]
      BY <1>1 DEF Position
    <2> DEFINE P == Position
    <2> HIDE DEF P
    <2>2. P.board = board /\ p = [P EXCEPT !.board.mine = mines]
      BY <2>1 DEF P
    <2>3. p = [P EXCEPT !.board = b]
      BY <2>2
    <2>4. P = [board |-> board, lost |-> FALSE, won |-> FALSE]
      BY <2>1 DEF P
    <2> HIDE DEF p, b
    <2> QED BY <2>3, <2>4
  <1>5. /\ b \in Boards /\ b.mine = mines /\ b.open = {} /\ b.flag = board.flag
        /\ b.openedCount = 0 /\ b.flagsUsed = Cardinality(b.flag)
    BY <1>1, <1>2 DEF Boards
  <1> HIDE DEF b, p
  <1>6. p \in Positions /\ p.board = b /\ p.lost = FALSE /\ p.won = FALSE
    BY <1>4, <1>5 DEF Positions
  <1>7. Cardinality(b.open \ b.mine) = 0
    BY <1>5, FS_EmptySet
  <1>8. Sound(p)
    BY <1>2, <1>3, <1>5, <1>6, <1>7 DEF Sound
  <1> QED BY <1>2, <1>5, <1>6, <1>8 DEF p

\* What is shown of a sound position keeps the invariant.
LEMMA ShowKeeps ==
  ASSUME IInv, NEW q, Sound(q), q.board.openedCount > 0, Show(q), started', 
         started' \in BOOLEAN, UNCHANGED <<difficulty, facePressed, pressedDifficulty>>,
         pending' \in Cells \cup {None}
  PROVE  IInv'
  <1>1. /\ board' = q.board /\ lost' = q.lost /\ won' = q.won /\ Cells' = Cells /\ Mines' = Mines
        /\ q \in Positions /\ q.board \in Boards /\ q.lost \in BOOLEAN /\ q.won \in BOOLEAN
    BY DEF Show, Sound, Positions, Cells, Mines
  <1>2. TypeOK'
    BY <1>1 DEF IInv, BoardSound, TypeOK, Boards
  <1>3. /\ board'.openedCount = Cardinality(board'.open \ board'.mine)
        /\ board'.flagsUsed = Cardinality(board'.flag) /\ Cardinality(board'.mine) = Mines'
    BY <1>1 DEF Sound
  <1>4. WonIsCleared' /\ FlagsProtect' /\ LostShows'
    BY <1>1 DEF WonIsCleared, FlagsProtect, LostShows, Sound
  <1> QED BY <1>1, <1>2, <1>3, <1>4 DEF IInv, BoardSound, CountersAgree, Stage

\* toggleFlag of a closed cell of a game that is played.
LEMMA ToggleKeeps ==
  ASSUME IInv, Playing, NEW c \in Cells, c \notin board.open, Toggle(c),
         UNCHANGED <<difficulty, started, lost, won, facePressed, pressedDifficulty>>,
         pending' \in Cells \cup {None}
  PROVE  IInv' /\ board'.open = board.open
  <1> DEFINE F == IF c \in board.flag THEN board.flag \ {c} ELSE board.flag \cup {c}
             k == IF c \in board.flag THEN board.flagsUsed - 1 ELSE board.flagsUsed + 1
  <1>1. /\ board \in Boards /\ difficulty \in Levels /\ F \in SUBSET Cells /\ k \in Int
        /\ board.flagsUsed = Cardinality(board.flag)
    BY DEF IInv, BoardSound, TypeOK, CountersAgree, Boards
  <1>2. board' = [board EXCEPT !.flag = F, !.flagsUsed = k]
    BY <1>1 DEF Toggle
  <1>3. k = Cardinality(F)
    <2>1. IsFiniteSet(board.flag) /\ Cardinality(board.flag) \in Nat
      BY <1>1, BoardSize, FS_Subset, FS_CardinalityType DEF Boards
    <2>2. CASE c \in board.flag
      <3>1. Cardinality(board.flag \ {c}) = Cardinality(board.flag) - 1
        BY <2>1, <2>2, FS_RemoveElement
      <3> QED BY <1>1, <2>2, <3>1
    <2>3. CASE c \notin board.flag
      <3>1. Cardinality(board.flag \cup {c}) = Cardinality(board.flag) + 1
        BY <2>1, <2>3, FS_AddElement
      <3> QED BY <1>1, <2>3, <3>1
    <2> QED BY <2>2, <2>3
  <1>4. F \ {c} = board.flag \ {c}
    OBVIOUS
  <1> HIDE DEF F, k
  <1>5. /\ board' \in Boards /\ board'.mine = board.mine /\ board'.open = board.open
        /\ board'.openedCount = board.openedCount /\ board'.flag = F /\ board'.flagsUsed = k
    BY <1>1, <1>2 DEF Boards
  <1>6. Cells' = Cells /\ Mines' = Mines
    BY DEF Cells, Mines
  <1>7. TypeOK'
    BY <1>5, <1>6 DEF IInv, BoardSound, TypeOK, Boards
  <1>8. CountersAgree' /\ Stage' /\ LostShows'
    BY <1>3, <1>5, <1>6 DEF IInv, BoardSound, CountersAgree, Stage, LostShows
  <1>9. FlagsProtect' /\ WonIsCleared'
    BY <1>4, <1>5, <1>6 DEF IInv, BoardSound, FlagsProtect, WonIsCleared, Playing
  <1> QED BY <1>5, <1>7, <1>8, <1>9 DEF IInv, BoardSound

\* A double click on an open, a flagged or a closed cell.
LEMMA DoubleClickKeeps ==
  ASSUME IInv, NEW c \in Cells, DoubleClick(c)
  PROVE  IInv' /\ FirstRevealOpens /\ FloodComplete
  <1>1. /\ ~lost /\ ~won /\ pending = c /\ pending' = None
        /\ UNCHANGED <<difficulty, facePressed, pressedDifficulty>>
        /\ difficulty \in Levels /\ Cells' = Cells /\ Mines' = Mines
    BY DEF DoubleClick, Playing, IInv, BoardSound, TypeOK, Cells, Mines
  <1>2. Position.board = board
    BY DEF Position
  <1>3. ASSUME NEW q, Opens(Position, q), board' = q.board
        PROVE  FloodComplete
    <2>1. board' \in [mine : SUBSET Cells, open : SUBSET Cells, flag : SUBSET Cells,
                      openedCount : Nat, flagsUsed : Int] => board'.open \subseteq Cells
      OBVIOUS
    <2> QED BY <1>1, <1>2, <1>3, <2>1 DEF Opens, FloodComplete, Adjacent, Around
  <1>4. CASE c \in board.open
    <2>1. started
      BY <1>1, <1>4 DEF IInv, Stage
    <2>2. Sound(Position) /\ ~Position.lost /\ ~Position.won
      BY <1>1, <2>1, PositionSound DEF Position
    <2> DEFINE q == Chord(Position, c)
    <2>3. Sound(q) /\ Opens(Position, q)
      BY <1>1, <2>2, ChordSound
    <2>4. Show(q) /\ UNCHANGED started
      BY <1>4 DEF DoubleClick
    <2> HIDE DEF q
    <2>5. q.board.openedCount > 0
      BY <1>2, <2>1, <2>3 DEF Opens, Sound, Positions, Boards, IInv, BoardSound, TypeOK, Stage
    <2>6. IInv'
      BY <1>1, <2>1, <2>3, <2>4, <2>5, ShowKeeps DEF IInv, BoardSound, TypeOK
    <2>7. FloodComplete
      BY <1>3, <2>3, <2>4 DEF Show
    <2> QED BY <2>1, <2>6, <2>7 DEF FirstRevealOpens
  <1>5. CASE c \notin board.open /\ c \in board.flag
    <2>1. UNCHANGED <<board, lost, won, started>>
      BY <1>5 DEF DoubleClick
    <2>2. IInv'
      BY <1>1, <2>1 DEF IInv, BoardSound, TypeOK, CountersAgree, WonIsCleared, FlagsProtect,
                        Stage, LostShows
    <2> QED BY <2>1, <2>2 DEF FirstRevealOpens, FloodComplete
  <1>6. CASE c \notin board.open /\ c \notin board.flag /\ started
    <2>1. Sound(Position) /\ ~Position.lost /\ ~Position.won
      BY <1>1, <1>6, PositionSound DEF Position
    <2> DEFINE q == Reveal(Position, c)
    <2>2. Sound(q) /\ Opens(Position, q)
      BY <1>1, <2>1, RevealSound
    <2>3. Show(q) /\ started' = TRUE
      BY <1>6 DEF DoubleClick
    <2> HIDE DEF q
    <2>4. q.board.openedCount > 0
      BY <1>2, <1>6, <2>2 DEF Opens, Sound, Positions, Boards, IInv, BoardSound, TypeOK, Stage
    <2>5. IInv'
      BY <1>1, <2>2, <2>3, <2>4, ShowKeeps
    <2>6. FloodComplete
      BY <1>3, <2>2, <2>3 DEF Show
    <2> QED BY <1>6, <2>5, <2>6 DEF FirstRevealOpens
  <1>7. CASE c \notin board.open /\ c \notin board.flag /\ ~started
    <2>1. PICK mines \in Placements(c) : Show(Reveal([Position EXCEPT !.board.mine = mines], c))
      BY <1>7 DEF DoubleClick
    <2>2. started' = TRUE
      BY <1>7 DEF DoubleClick
    <2> DEFINE p == [Position EXCEPT !.board.mine = mines]
               q == Reveal(p, c)
    <2>3. /\ Sound(p) /\ ~p.won /\ ~p.lost /\ c \notin p.board.mine
          /\ p.board.mine = mines /\ p.board.open = {} /\ p.board.flag = board.flag
      BY <1>7, PlacedSound
    <2> HIDE DEF p
    <2>4. Sound(q) /\ Opens(p, q) /\ q.board.openedCount > 0 /\ c \in q.board.open
      BY <1>1, <1>7, <2>3, RevealSound
    <2>5. Show(q)
      BY <2>1 DEF p
    <2> HIDE DEF q
    <2>6. IInv'
      BY <1>1, <2>2, <2>4, <2>5, ShowKeeps
    <2>7. board' = q.board /\ board.open = {} /\ board'.mine = mines
      BY <1>7, <2>3, <2>4, <2>5 DEF Show, IInv, Stage, Opens
    <2>8. board'.open \subseteq Cells
      BY <1>1, <2>6 DEF IInv, BoardSound, TypeOK
    <2>9. FloodComplete
      BY <1>1, <2>3, <2>4, <2>7, <2>8 DEF Opens, FloodComplete, Adjacent, Around
    <2>10. FirstRevealOpens
      <3> SUFFICES ASSUME Cardinality(Cells \ (Around(c) \cup {c})) >= Mines
                   PROVE  Around(c) \subseteq board'.open \cup board'.flag
        BY <1>1 DEF FirstRevealOpens
      <3>1. mines \cap Around(c) = {}
        BY DEF Placements, kSubset
      <3>2. Adjacent(p.board, c) = 0
        BY <2>3, <3>1, FS_EmptySet DEF Adjacent
      <3> QED BY <2>3, <2>4, <2>7, <3>2 DEF Opens
    <2> QED BY <2>6, <2>9, <2>10
  <1> QED BY <1>4, <1>5, <1>6, <1>7

\* A new game, of whatever level, has an empty board.
LEMMA EmptyKeeps ==
  ASSUME difficulty \in Levels, board = EmptyBoard, started = FALSE, lost = FALSE, won = FALSE,
         pending = None, facePressed = FALSE, pressedDifficulty = None
  PROVE  IInv
  <1>1. Cardinality({}) = 0 /\ board.open \ board.mine = {} /\ board.flag = {}
    BY FS_EmptySet DEF EmptyBoard
  <1>2. /\ board.mine = {} /\ board.open = {} /\ board.flag = {}
        /\ board.openedCount = 0 /\ board.flagsUsed = 0
    BY <1>1 DEF EmptyBoard
  <1>e. board \in [mine : SUBSET Cells, open : SUBSET Cells, flag : SUBSET Cells,
                    openedCount : Nat, flagsUsed : Int]
    BY <1>1 DEF EmptyBoard
  <1>t. TypeOK
    BY <1>e DEF TypeOK
  <1>3. CountersAgree
    BY <1>1, <1>2 DEF CountersAgree
  <1>4. WonIsCleared /\ FlagsProtect /\ Stage /\ LostShows
    BY <1>2 DEF WonIsCleared, FlagsProtect, Stage, LostShows
  <1> QED BY <1>t, <1>3, <1>4 DEF IInv, BoardSound

\* The key, the face and the level buttons begin such a game.
LEMMA NewGameKeeps ==
  ASSUME NEW level \in Levels, NewGame(level)
  PROVE  IInv'
  <1>1. /\ difficulty' \in Levels /\ board' = EmptyBoard /\ started' = FALSE /\ lost' = FALSE
        /\ won' = FALSE /\ pending' = None /\ facePressed' = FALSE /\ pressedDifficulty' = None
    BY DEF NewGame
  <1>2. Cardinality({}) = 0 /\ board'.open \ board'.mine = {} /\ board'.flag = {}
    BY <1>1, FS_EmptySet DEF EmptyBoard
  <1>3. /\ board'.mine = {} /\ board'.open = {} /\ board'.flag = {}
        /\ board'.openedCount = 0 /\ board'.flagsUsed = 0
    BY <1>1, <1>2 DEF EmptyBoard
  <1>e. board' \in [mine : SUBSET Cells', open : SUBSET Cells', flag : SUBSET Cells',
                    openedCount : Nat, flagsUsed : Int]
    BY <1>1, <1>2 DEF EmptyBoard
  <1>t. TypeOK'
    BY <1>1, <1>e DEF TypeOK
  <1>4. CountersAgree'
    BY <1>1, <1>2, <1>3 DEF CountersAgree
  <1>5. WonIsCleared' /\ FlagsProtect' /\ Stage' /\ LostShows'
    BY <1>1, <1>3 DEF WonIsCleared, FlagsProtect, Stage, LostShows
  <1> QED BY <1>t, <1>4, <1>5 DEF IInv, BoardSound

\* Every step keeps the invariant, and opens in full what it opens.
LEMMA StepKeeps ==
  ASSUME IInv, [Next]_vars
  PROVE  IInv' /\ (Next => FirstRevealOpens /\ FloodComplete)
  <1> USE DEF FirstRevealOpens, FloodComplete
  <1>1. CASE UNCHANGED vars
    BY <1>1 DEF vars, IInv, BoardSound, TypeOK, CountersAgree, WonIsCleared, FlagsProtect, Stage,
                LostShows, Cells, Mines
  <1>2. difficulty \in Levels /\ (pressedDifficulty # None => pressedDifficulty \in Levels)
        /\ started \in BOOLEAN /\ (pending # None => pending \in Cells)
    BY DEF IInv, BoardSound, TypeOK
  <1>3. CASE Key \/ ReleaseOnFace \/ ReleaseOnDifficulty
    <2>1. PICK level \in Levels : NewGame(level)
      BY <1>2, <1>3 DEF Key, ReleaseOnFace, ReleaseOnDifficulty
    <2> QED BY <2>1, NewGameKeeps DEF NewGame, EmptyBoard
  <1>4. CASE PressFace \/ PressDifficulty \/ ReleaseElsewhere \/ \E c \in Cells : Click(c)
    <2>1. /\ UNCHANGED <<difficulty, board, started, lost, won>>
          /\ pending' \in Cells \cup {None} /\ facePressed' \in BOOLEAN
          /\ pressedDifficulty' \in Levels \cup {None}
      BY <1>2, <1>4 DEF PressFace, PressDifficulty, ReleaseElsewhere, Click, IInv, BoardSound, TypeOK
    <2> QED BY <2>1 DEF IInv, BoardSound, TypeOK, CountersAgree, WonIsCleared, FlagsProtect, Stage,
                        LostShows, Cells, Mines
  <1>5. CASE \E c \in Cells : DoubleClick(c)
    BY <1>5, DoubleClickKeeps
  <1>6. ASSUME NEW c \in Cells, RightClick(c) PROVE IInv' /\ FirstRevealOpens /\ FloodComplete
    BY <1>6, ToggleKeeps DEF RightClick
  <1>7. CASE Timer
    <2>1. CASE Playing /\ pending \notin board.open
      BY <1>2, <1>7, <2>1, ToggleKeeps DEF Timer
    <2>2. CASE ~(Playing /\ pending \notin board.open)
      BY <1>7, <2>2 DEF Timer, IInv, BoardSound, TypeOK, CountersAgree, WonIsCleared, FlagsProtect,
                        Stage, LostShows, Cells, Mines
    <2> QED BY <2>1, <2>2
  <1> QED BY <1>1, <1>3, <1>4, <1>5, <1>6, <1>7 DEF Next

-----------------------------------------------------------------------------
(* Theorems *)

\* IInv holds of every game: for every set of levels, board and click, however late.
THEOREM Invariance == Spec => []IInv
  <1>1. Init => IInv
    BY EmptyKeeps DEF Init
  <1>2. IInv /\ [Next]_vars => IInv'
    BY StepKeeps
  <1> QED BY <1>1, <1>2, PTL DEF Spec

\* The counters and the outcome are those of the board, and the board that of its level.
THEOREM BoardIsSound == Spec => []BoardSound
  <1>1. IInv => BoardSound
    BY DEF IInv
  <1> QED BY Invariance, <1>1, PTL

\* A flag protects its cell, and the first cell revealed is no mine.
THEOREM PlayerIsProtected == Spec => []PlayerProtected
  <1>1. IInv => PlayerProtected
    BY DEF IInv, PlayerProtected, FirstRevealSafe, Stage
  <1> QED BY Invariance, <1>1, PTL

\* floodOpen opens in full what it opens, in as many rounds as there are cells.
THEOREM OpeningsAreComplete == Spec => OpeningsComplete
  <1>1. IInv /\ [Next]_vars => [FirstRevealOpens]_vars
    BY StepKeeps
  <1>2. IInv /\ [Next]_vars => [FloodComplete]_vars
    BY StepKeeps
  <1>3. Spec => FirstRevealOpensAlways
    BY Invariance, <1>1, PTL DEF Spec, FirstRevealOpensAlways
  <1>4. Spec => FloodCompleteAlways
    BY Invariance, <1>2, PTL DEF Spec, FloodCompleteAlways
  <1> QED BY <1>3, <1>4 DEF OpeningsComplete
=============================================================================
