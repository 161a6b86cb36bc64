------------------------------ MODULE CardsProofs ------------------------------
(***************************************************************************)
(* Proofs about Cards: the deck stays whole and in its arrays, the piles    *)
(* are ordered, what is dragged is a run, an auto-finish never gets stuck   *)
(* and a win is never missed, for every deck, number of columns and deal.   *)
(***************************************************************************)
EXTENDS Cards, FiniteSetTheorems, SequenceTheorems, WellFoundedInduction, TLAPS

-----------------------------------------------------------------------------
(* Least numbers *)

\* A set of natural numbers has a least member: no chain of intervals descends for ever.
LEMMA LeastNat ==
  ASSUME NEW T \in SUBSET Nat, T # {}
  PROVE  \E m \in T : \A k \in T : m <= k
  <1> DEFINE F == {0 .. m : m \in T}
             R == StrictSubsetOrdering(Nat)
  <1>1. IsWellFoundedOn(R, FiniteSubsetsOf(Nat))
    BY FS_StrictSubsetOrderingWellFounded
  <1>2. F \subseteq FiniteSubsetsOf(Nat) /\ F # {}
    <2>1. \A m \in T : 0 .. m \in SUBSET Nat /\ IsFiniteSet(0 .. m)
      BY FS_Interval
    <2> QED BY <2>1 DEF FiniteSubsetsOf
  <1>3. PICK x \in F : \A y \in F : <<y, x>> \notin R
    <2> HIDE DEF F, R
    <2> QED BY <1>1, <1>2, WFMin
  <1>4. PICK m \in T : x = 0 .. m
    OBVIOUS
  <1>5. ASSUME NEW k \in T, k < m PROVE FALSE
    <2>1. /\ 0 .. k \in SUBSET Nat /\ 0 .. m \in SUBSET Nat
          /\ 0 .. k \subseteq 0 .. m /\ 0 .. k # 0 .. m
      BY <1>5
    <2>2. <<0 .. k, 0 .. m>> \in R
      BY <2>1 DEF StrictSubsetOrdering
    <2> QED BY <1>3, <1>4, <2>2
  <1> QED BY <1>4, <1>5

\* A set that holds 0 and with each number below n the next one holds all up to n.
LEMMA UpTo ==
  ASSUME NEW n \in Nat, NEW S, 0 \in S, \A k \in 0 .. n - 1 : k \in S => k + 1 \in S
  PROVE  0 .. n \subseteq S
  <1> DEFINE T == (0 .. n) \ S
  <1> SUFFICES ASSUME T # {} PROVE FALSE
    OBVIOUS
  <1>1. T \in SUBSET Nat
    OBVIOUS
  <1>2. PICK m \in T : \A k \in T : m <= k
    <2> HIDE DEF T
    <2> QED BY <1>1, LeastNat
  <1>3. m # 0 /\ m - 1 \in 0 .. n - 1 /\ m - 1 \in S /\ (m - 1) + 1 = m
    BY <1>2
  <1> QED BY <1>2, <1>3

-----------------------------------------------------------------------------
(* Moving cards *)

Tables == [Places -> Seq(Deck)]
Once(a) ==
    \A p, q \in Places : \A i \in DOMAIN a[p], j \in DOMAIN a[q] :
        a[p][i] = a[q][j] => p = q /\ i = j
All(a) == \A c \in Deck : \E p \in Places : \E i \in DOMAIN a[p] : a[p][i] = c

\* b is a with the top n cards of p moved onto q.
Moved(a, b, p, q, n) ==
    /\ b \in Tables
    /\ \A r \in Places : r # p /\ r # q => b[r] = a[r]
    /\ Len(b[p]) = Len(a[p]) - n
    /\ \A i \in 1 .. Len(a[p]) - n : b[p][i] = a[p][i]
    /\ Len(b[q]) = Len(a[q]) + n
    /\ \A i \in 1 .. Len(a[q]) : b[q][i] = a[q][i]
    /\ \A i \in 1 .. n : b[q][Len(a[q]) + i] = a[p][Len(a[p]) - n + i]

\* Cards are in sequences.
LEMMA PileType ==
  ASSUME NEW a \in Tables, NEW p \in Places
  PROVE  /\ a[p] \in Seq(Deck) /\ Len(a[p]) \in Nat /\ DOMAIN a[p] = 1 .. Len(a[p])
         /\ \A i \in 1 .. Len(a[p]) : a[p][i] \in Deck
         /\ a[p] = <<>> <=> Len(a[p]) = 0
  <1>1. a[p] \in Seq(Deck)
    BY DEF Tables
  <1> QED BY <1>1

\* Shift moves cards.
LEMMA ShiftMoves ==
  ASSUME NEW a \in Tables, NEW p \in Places, NEW q \in Places, p # q, NEW n \in 0 .. Len(a[p])
  PROVE  Moved(a, Shift(a, p, q, n), p, q, n)
  <1> DEFINE b == Shift(a, p, q, n)
             s == a[p]
             t == a[q]
  <1>1. /\ s \in Seq(Deck) /\ t \in Seq(Deck) /\ Len(s) \in Nat /\ Len(t) \in Nat
        /\ n \in 0 .. Len(s)
    BY PileType
  <1> DEFINE low == Below(s, n)
             top == Above(s, n)
  <1> HIDE DEF s, t
  <1>2. /\ low \in Seq(Deck) /\ Len(low) = Len(s) - n
        /\ \A i \in 1 .. Len(s) - n : low[i] = s[i]
    BY <1>1 DEF Below
  <1>3. /\ top \in Seq(Deck) /\ Len(top) = n
        /\ \A i \in 1 .. n : top[i] = s[Len(s) - n + i]
    BY <1>1 DEF Above
  <1> HIDE DEF low, top
  <1>4. /\ t \o top \in Seq(Deck) /\ Len(t \o top) = Len(t) + n
        /\ \A i \in 1 .. Len(t) : (t \o top)[i] = t[i]
        /\ \A i \in 1 .. n : (t \o top)[Len(t) + i] = top[i]
    BY <1>1, <1>3
  <1>5. /\ DOMAIN b = Places /\ b[p] = low /\ b[q] = t \o top
        /\ \A r \in Places : r # p /\ r # q => b[r] = a[r]
    BY DEF Shift, s, t, low, top, Tables
  <1>6. b \in Tables
    <2>1. b = [r \in Places |-> b[r]]
      BY DEF Shift, Tables
    <2>2. \A r \in Places : b[r] \in Seq(Deck)
      BY <1>2, <1>4, <1>5, PileType
    <2> HIDE DEF b
    <2> QED BY <2>1, <2>2 DEF Tables
  <1> HIDE DEF b
  <1>7. /\ Len(b[p]) = Len(s) - n /\ \A i \in 1 .. Len(s) - n : b[p][i] = s[i]
        /\ Len(b[q]) = Len(t) + n /\ \A i \in 1 .. Len(t) : b[q][i] = t[i]
        /\ \A i \in 1 .. n : b[q][Len(t) + i] = s[Len(s) - n + i]
    BY <1>2, <1>3, <1>4, <1>5
  <1>8. Moved(a, b, p, q, n)
    BY <1>5, <1>6, <1>7 DEF Moved, s, t
  <1> QED BY <1>8 DEF b

\* Moved cards are where they were, or where they went ...
LEMMA MovedOnce ==
  ASSUME NEW a \in Tables, NEW p \in Places, NEW q \in Places, p # q, NEW n \in 0 .. Len(a[p]),
         NEW b, Moved(a, b, p, q, n), Once(a)
  PROVE  Once(b)
  <1> DEFINE Home(r, i) == IF r = q /\ i > Len(a[q]) THEN p ELSE r
             Index(r, i) == IF r = q /\ i > Len(a[q]) THEN Len(a[p]) - n + (i - Len(a[q])) ELSE i
  <1>1. ASSUME NEW r \in Places, NEW i \in DOMAIN b[r]
        PROVE  /\ Home(r, i) \in Places /\ Index(r, i) \in DOMAIN a[Home(r, i)]
               /\ b[r][i] = a[Home(r, i)][Index(r, i)]
               /\ i \in Nat
    <2>1. b \in Tables
      BY DEF Moved
    <2>2. DOMAIN b[r] = 1 .. Len(b[r]) /\ Len(b[r]) \in Nat
      BY <2>1, PileType
    <2>3. CASE r = q /\ i > Len(a[q])
      <3> DEFINE j == i - Len(a[q])
      <3>1. /\ Len(a[q]) \in Nat /\ Len(a[p]) \in Nat /\ DOMAIN a[p] = 1 .. Len(a[p])
            /\ Len(b[q]) = Len(a[q]) + n
        BY PileType DEF Moved
      <3>2. j \in 1 .. n /\ i = Len(a[q]) + j /\ i \in Nat
        BY <2>2, <2>3, <3>1
      <3>3. Home(r, i) = p /\ Index(r, i) = Len(a[p]) - n + j
        BY <2>3
      <3> HIDE DEF j, Home, Index
      <3>4. b[r][i] = a[p][Len(a[p]) - n + j]
        BY <2>3, <3>2 DEF Moved
      <3>5. Len(a[p]) - n + j \in 1 .. Len(a[p])
        BY <3>1, <3>2
      <3> QED BY <3>1, <3>2, <3>3, <3>4, <3>5
    <2>4. CASE r = q /\ i <= Len(a[q])
      <3>1. i \in 1 .. Len(a[q]) /\ DOMAIN a[q] = 1 .. Len(a[q])
        BY <2>2, <2>4, PileType
      <3>2. b[q][i] = a[q][i]
        BY <3>1 DEF Moved
      <3> QED BY <2>2, <2>4, <3>1, <3>2
    <2>5. CASE r = p
      <3>1. /\ Len(a[p]) \in Nat /\ DOMAIN a[p] = 1 .. Len(a[p]) /\ Len(b[p]) = Len(a[p]) - n
            /\ \A k \in 1 .. Len(a[p]) - n : b[p][k] = a[p][k]
        BY PileType DEF Moved
      <3>2. i \in 1 .. Len(a[p]) - n /\ i \in 1 .. Len(a[p]) /\ i \in Nat
        BY <2>2, <2>5, <3>1
      <3>3. Home(r, i) = p /\ Index(r, i) = i
        BY <2>5
      <3> QED BY <2>5, <3>1, <3>2, <3>3
    <2>6. CASE r # p /\ r # q
      <3>1. b[r] = a[r] /\ DOMAIN a[r] = 1 .. Len(a[r])
        BY <2>6, PileType DEF Moved
      <3> QED BY <2>2, <2>6, <3>1
    <2>7. i \in Nat /\ Len(a[q]) \in Nat
      BY <2>2, PileType
    <2>8. (r = q /\ i > Len(a[q])) \/ (r = q /\ i <= Len(a[q])) \/ r = p \/ (r # p /\ r # q)
      BY <2>7
    <2> QED BY <2>3, <2>4, <2>5, <2>6, <2>8
  <1>2. ASSUME NEW r1 \in Places, NEW i1 \in DOMAIN b[r1], NEW r2 \in Places, NEW i2 \in DOMAIN b[r2],
               Home(r1, i1) = Home(r2, i2), Index(r1, i1) = Index(r2, i2)
        PROVE  r1 = r2 /\ i1 = i2
    <2>1. /\ i1 \in Nat /\ i2 \in Nat /\ n \in Nat /\ Len(a[p]) \in Nat /\ Len(a[q]) \in Nat
          /\ r1 = p => i1 <= Len(a[p]) - n
          /\ r2 = p => i2 <= Len(a[p]) - n
      <3>1. b \in Tables /\ Len(b[p]) = Len(a[p]) - n
        BY DEF Moved
      <3>2. DOMAIN b[r1] = 1 .. Len(b[r1]) /\ DOMAIN b[r2] = 1 .. Len(b[r2])
        BY <3>1, PileType
      <3>3. /\ Len(b[r1]) \in Nat /\ Len(b[r2]) \in Nat
            /\ Len(a[p]) \in Nat /\ Len(a[q]) \in Nat
        BY <3>1, PileType
      <3>4. i1 \in Nat /\ (r1 = p => i1 <= Len(a[p]) - n)
        BY <3>1, <3>2, <3>3
      <3>5. i2 \in Nat /\ (r2 = p => i2 <= Len(a[p]) - n)
        BY <3>1, <3>2, <3>3
      <3> QED BY <3>3, <3>4, <3>5
    <2>2. CASE r1 = q /\ i1 > Len(a[q])
      <3>1. Home(r1, i1) = p /\ Index(r1, i1) = Len(a[p]) - n + (i1 - Len(a[q]))
        BY <2>2
      <3>2. CASE r2 = q /\ i2 > Len(a[q])
        <4>1. Index(r2, i2) = Len(a[p]) - n + (i2 - Len(a[q]))
          BY <3>2
        <4> HIDE DEF Home, Index
        <4>2. Len(a[p]) - n + (i1 - Len(a[q])) = Len(a[p]) - n + (i2 - Len(a[q]))
          BY <1>2, <3>1, <4>1
        <4> QED BY <2>1, <2>2, <3>2, <4>2
      <3>3. CASE ~(r2 = q /\ i2 > Len(a[q]))
        <4>1. r2 = p /\ i2 = Len(a[p]) - n + (i1 - Len(a[q]))
          BY <1>2, <3>1, <3>3
        <4> QED BY <2>1, <2>2, <4>1
      <3> QED BY <3>2, <3>3
    <2>3. CASE ~(r1 = q /\ i1 > Len(a[q]))
      <3>1. Home(r1, i1) = r1 /\ Index(r1, i1) = i1
        BY <2>3
      <3>2. CASE r2 = q /\ i2 > Len(a[q])
        <4>1. r1 = p /\ i1 = Len(a[p]) - n + (i2 - Len(a[q]))
          BY <1>2, <3>1, <3>2
        <4> QED BY <2>1, <3>2, <4>1
      <3>3. CASE ~(r2 = q /\ i2 > Len(a[q]))
        BY <1>2, <3>1, <3>3
      <3> QED BY <3>2, <3>3
    <2> QED BY <2>2, <2>3
  <1> HIDE DEF Home, Index
  <1>3. ASSUME NEW r1 \in Places, NEW r2 \in Places, NEW i1 \in DOMAIN b[r1], NEW i2 \in DOMAIN b[r2],
               b[r1][i1] = b[r2][i2]
        PROVE  r1 = r2 /\ i1 = i2
    BY <1>1, <1>2, <1>3 DEF Once
  <1> QED BY <1>3 DEF Once

\* ... and none got lost on the way.
LEMMA MovedAll ==
  ASSUME NEW a \in Tables, NEW p \in Places, NEW q \in Places, p # q, NEW n \in 0 .. Len(a[p]),
         NEW b, Moved(a, b, p, q, n), All(a)
  PROVE  All(b)
  <1> SUFFICES ASSUME NEW c \in Deck
               PROVE  \E r \in Places : \E i \in DOMAIN b[r] : b[r][i] = c
    BY DEF All
  <1>1. PICK r \in Places : \E i \in DOMAIN a[r] : a[r][i] = c
    BY DEF All
  <1>2. PICK i \in DOMAIN a[r] : a[r][i] = c
    BY <1>1
  <1>3. b \in Tables /\ i \in 1 .. Len(a[r]) /\ \A x \in Places : DOMAIN b[x] = 1 .. Len(b[x])
    BY PileType DEF Moved
  <1>4. CASE r = p /\ i > Len(a[p]) - n
    <2> DEFINE k == i - (Len(a[p]) - n)
    <2>1. Len(a[p]) \in Nat /\ Len(a[q]) \in Nat /\ i \in 1 .. Len(a[p])
      BY <1>3, <1>4, PileType
    <2>2. k \in 1 .. n /\ i = Len(a[p]) - n + k
      BY <1>4, <2>1
    <2> HIDE DEF k
    <2>3. b[q][Len(a[q]) + k] = c /\ Len(b[q]) = Len(a[q]) + n
      BY <1>2, <1>4, <2>2 DEF Moved
    <2>4. Len(a[q]) + k \in 1 .. Len(b[q])
      BY <2>1, <2>2, <2>3
    <2> QED BY <1>3, <2>3, <2>4
  <1>5. CASE r = p /\ i <= Len(a[p]) - n
    <2>1. Len(a[p]) \in Nat /\ i \in 1 .. Len(a[p]) - n
      BY <1>3, <1>5, PileType
    <2>2. b[p][i] = c /\ Len(b[p]) = Len(a[p]) - n
      BY <1>2, <1>5, <2>1 DEF Moved
    <2> QED BY <1>3, <2>1, <2>2
  <1>6. CASE r = q
    <2>1. b[q][i] = c /\ i \in 1 .. Len(b[q])
      BY <1>2, <1>3, <1>6, PileType DEF Moved
    <2> QED BY <1>3, <2>1
  <1>7. CASE r # p /\ r # q
    <2>1. b[r][i] = c /\ i \in 1 .. Len(b[r])
      BY <1>2, <1>3, <1>7, PileType DEF Moved
    <2> QED BY <1>3, <2>1
  <1> QED BY <1>3, <1>4, <1>5, <1>6, <1>7, PileType

-----------------------------------------------------------------------------
(* Places, foundations and the deck *)

\* The places have different names.
LEMMA Names ==
  /\ Suits \subseteq Places /\ ColumnSet \subseteq Places /\ Piles \subseteq Places
  /\ "stock" \in Places /\ "waste" \in Places /\ "hand" \in Places /\ "flight" \in Places
  /\ "stock" \in Piles /\ "waste" \in Piles /\ Suits \subseteq Piles /\ ColumnSet \subseteq Piles
  /\ \A s \in Suits : s \notin ColumnSet /\ s \notin {"stock", "waste", "hand", "flight"}
  /\ \A p \in ColumnSet : p \notin Suits /\ p \notin {"stock", "waste", "hand", "flight"}
  /\ \A p \in Piles : p # "hand" /\ p # "flight" /\ p # None
  /\ None \notin ColumnSet /\ None \notin Suits /\ None # "waste"
  /\ \A p \in Places : p \in Suits \cup ColumnSet \cup {"stock", "waste", "hand", "flight"}
  BY NamesAssumption DEF Places, Piles

\* An auto-finish looks at the waste and at the columns.
LEMMA FinishPiles ==
  /\ Len(FinishOrder) \in Nat \ {0} /\ DOMAIN FinishOrder = 1 .. Len(FinishOrder)
  /\ \A i \in DOMAIN FinishOrder : FinishOrder[i] \in {"waste"} \cup ColumnSet
  /\ \A p \in {"waste"} \cup ColumnSet : \E i \in DOMAIN FinishOrder : FinishOrder[i] = p
  <1>1. Columns \in Seq(ColumnSet)
    BY NamesAssumption
  <1>2. /\ Len(FinishOrder) = Len(Columns) + 1 /\ DOMAIN FinishOrder = 1 .. Len(Columns) + 1
        /\ FinishOrder[1] = "waste" /\ \A i \in 1 .. Len(Columns) : FinishOrder[i + 1] = Columns[i]
        /\ Len(Columns) \in Nat /\ DOMAIN Columns = 1 .. Len(Columns)
    BY <1>1 DEF FinishOrder
  <1>3. ASSUME NEW i \in 1 .. Len(Columns) + 1 PROVE FinishOrder[i] \in {"waste"} \cup ColumnSet
    <2>1. i = 1 \/ (i - 1 \in 1 .. Len(Columns) /\ i = (i - 1) + 1)
      BY <1>2
    <2> QED BY <1>2, <2>1 DEF ColumnSet
  <1>4. ASSUME NEW p \in {"waste"} \cup ColumnSet
        PROVE  \E i \in 1 .. Len(Columns) + 1 : FinishOrder[i] = p
    <2>1. CASE p = "waste"
      BY <1>2, <2>1
    <2>2. CASE p \in ColumnSet
      <3>1. PICK i \in 1 .. Len(Columns) : Columns[i] = p
        BY <1>2, <2>2 DEF ColumnSet
      <3>2. i + 1 \in 1 .. Len(Columns) + 1
        BY <1>2, <3>1
      <3> QED BY <1>2, <3>1, <3>2
    <2> QED BY <2>1, <2>2
  <1> QED BY <1>2, <1>3, <1>4

\* The deck has DeckSize cards.
LEMMA DeckFinite ==
  /\ IsFiniteSet(Deck) /\ Cardinality(Deck) = DeckSize /\ DeckSize \in Nat \ {0}
  /\ \A c \in Deck : /\ c = <<Suit(c), Value(c)>> /\ Suit(c) \in Suits /\ Value(c) \in 1 .. King
  <1> DEFINE V == 1 .. King
  <1>1. IsFiniteSet(V) /\ Cardinality(V) = King
    BY FS_Interval, NamesAssumption
  <1>2. IsFiniteSet(Suits \X V) /\ Cardinality(Suits \X V) = Cardinality(Suits) * Cardinality(V)
    <2> HIDE DEF V
    <2> QED BY <1>1, FS_Product, NamesAssumption
  <1>3. Cardinality(Suits) \in Nat \ {0}
    BY FS_CardinalityType, FS_EmptySet, NamesAssumption
  <1>4. DeckSize \in Nat \ {0}
    BY <1>3, NamesAssumption DEF DeckSize
  <1>5. \A c \in Deck : /\ c = <<Suit(c), Value(c)>> /\ Suit(c) \in Suits /\ Value(c) \in 1 .. King
    BY DEF Deck, Suit, Value
  <1> QED BY <1>1, <1>2, <1>4, <1>5 DEF Deck, DeckSize

Ordered(a) == \A s \in Suits : \A i \in DOMAIN a[s] : a[s][i] = <<s, i>>

\* A foundation is no higher than the king ...
LEMMA FoundationHeight ==
  ASSUME NEW a \in Tables, Ordered(a), NEW s \in Suits
  PROVE  Len(a[s]) \in 0 .. King
  <1>1. Len(a[s]) \in Nat /\ DOMAIN a[s] = 1 .. Len(a[s]) /\ \A i \in 1 .. Len(a[s]) : a[s][i] \in Deck
    BY PileType, Names
  <1>2. CASE Len(a[s]) # 0
    <2>1. Len(a[s]) \in 1 .. Len(a[s])
      BY <1>1, <1>2
    <2>2. <<s, Len(a[s])>> \in Deck
      BY <1>1, <2>1 DEF Ordered
    <2> QED BY <2>2 DEF Deck
  <1> QED BY <1>1, <1>2, NamesAssumption

\* ... and takes its next card, and no other.
LEMMA NextHome ==
  ASSUME NEW a \in Tables, Ordered(a), NEW c \in Deck, NEW s \in Suits
  PROVE  FitsFoundation(c, s, a[s]) <=> c = <<s, Len(a[s]) + 1>>
  <1>1. Len(a[s]) \in Nat /\ DOMAIN a[s] = 1 .. Len(a[s]) /\ (a[s] = <<>> <=> Len(a[s]) = 0)
    BY PileType, Names
  <1>2. CASE a[s] = <<>>
    BY <1>1, <1>2 DEF FitsFoundation
  <1>3. CASE a[s] # <<>>
    <2>1. Last(a[s]) = <<s, Len(a[s])>>
      BY <1>1, <1>3 DEF Ordered, Last
    <2>2. FitsFoundation(c, s, a[s]) <=> Suit(c) = s /\ Value(c) = Len(a[s]) + 1
      BY <1>3, <2>1 DEF FitsFoundation, Suit, Value
    <2> QED BY <2>2, DeckFinite DEF Suit, Value
  <1> QED BY <1>2, <1>3

\* A card that has a home is the next of the foundation that is chosen.
LEMMA HomeChosen ==
  ASSUME NEW a \in Tables, Ordered(a), NEW c \in Deck
  PROVE  /\ Homes(a, c) # {} =>
              /\ (CHOOSE s \in Homes(a, c) : TRUE) \in Suits
              /\ c = <<CHOOSE s \in Homes(a, c) : TRUE, Len(a[CHOOSE s \in Homes(a, c) : TRUE]) + 1>>
         /\ \A s \in Suits : c = <<s, Len(a[s]) + 1>> => Homes(a, c) # {}
  <1> DEFINE H == Homes(a, c)
  <1>1. ASSUME NEW s \in H PROVE s \in Suits /\ c = <<s, Len(a[s]) + 1>>
    BY NextHome DEF Homes
  <1>2. \A s \in Suits : c = <<s, Len(a[s]) + 1>> => s \in H
    BY NextHome DEF Homes
  <1>3. H # {} => (CHOOSE s \in H : TRUE) \in H
    OBVIOUS
  <1> HIDE DEF H
  <1>4. H # {} => /\ (CHOOSE s \in H : TRUE) \in Suits
                  /\ c = <<CHOOSE s \in H : TRUE, Len(a[CHOOSE s \in H : TRUE]) + 1>>
    BY <1>1, <1>3
  <1> QED BY <1>2, <1>4 DEF H

\* Full: each foundation has its king.
LEMMA FullMeans ==
  ASSUME NEW a \in Tables, Ordered(a)
  PROVE  Full(a) <=> \A s \in Suits : Len(a[s]) = King
  <1> DEFINE F == UNION {{s} \X DOMAIN a[s] : s \in Suits}
  <1>1. \A s \in Suits : Len(a[s]) \in 0 .. King /\ DOMAIN a[s] = 1 .. Len(a[s])
    BY FoundationHeight, PileType, Names
  <1>2. \A c : c \in F <=> \E s \in Suits : \E i \in 1 .. Len(a[s]) : c = <<s, i>>
    BY <1>1
  <1> HIDE DEF F
  <1>3. F \subseteq Deck
    BY <1>1, <1>2, NamesAssumption DEF Deck
  <1>4. Cardinality(F) = DeckSize => F = Deck
    BY <1>3, DeckFinite, FS_Subset
  <1>5. ASSUME F = Deck, NEW s \in Suits PROVE Len(a[s]) = King
    <2>1. <<s, King>> \in F
      BY <1>5, NamesAssumption DEF Deck
    <2>2. King \in 1 .. Len(a[s])
      BY <1>2, <2>1
    <2> QED BY <1>1, <2>2, NamesAssumption
  <1>6. ASSUME \A s \in Suits : Len(a[s]) = King PROVE F = Deck
    <2>1. ASSUME NEW c \in Deck PROVE c \in F
      BY <1>2, <1>6, DeckFinite
    <2> QED BY <1>3, <2>1
  <1> QED BY <1>4, <1>5, <1>6, DeckFinite DEF Full, F

\* Fullness is a matter of the foundations' counts.
LEMMA FullCounts ==
  ASSUME NEW a \in Tables, NEW b \in Tables, \A s \in Suits : Len(a[s]) = Len(b[s])
  PROVE  Full(a) <=> Full(b)
  <1>1. \A s \in Suits : DOMAIN a[s] = DOMAIN b[s]
    BY PileType, Names
  <1>2. {{s} \X DOMAIN a[s] : s \in Suits} = {{s} \X DOMAIN b[s] : s \in Suits}
    BY <1>1
  <1> QED BY <1>2 DEF Full

\* On full foundations lies the whole deck, and nothing anywhere else.
LEMMA FullEmpty ==
  ASSUME NEW a \in Tables, Ordered(a), Once(a), Full(a), NEW p \in Places \ Suits
  PROVE  a[p] = <<>>
  <1> SUFFICES ASSUME a[p] # <<>> PROVE FALSE
    OBVIOUS
  <1>1. 1 \in DOMAIN a[p] /\ a[p][1] \in Deck
    BY PileType
  <1>2. PICK s \in Suits, v \in 1 .. King : a[p][1] = <<s, v>>
    BY <1>1 DEF Deck
  <1>3. v \in DOMAIN a[s] /\ s \in Places
    BY <1>2, FullMeans, PileType, Names
  <1>4. a[s][v] = a[p][1]
    BY <1>2, <1>3 DEF Ordered
  <1> QED BY <1>1, <1>3, <1>4 DEF Once

-----------------------------------------------------------------------------
(* What can be finished *)

FinishSet == {"waste"} \cup ColumnSet

\* Loose and waiting cards, by the pile they lie on.
LEMMA LooseCards ==
  ASSUME NEW a \in Tables
  PROVE  /\ \A c : c \in Loose(a) <=> \E p \in FinishSet : \E j \in 1 .. Len(a[p]) : a[p][j] = c
         /\ \A c, d : Waits(a, c, d) <=>
              \/ Suit(c) = Suit(d) /\ Value(d) < Value(c)
              \/ \E p \in FinishSet : \E j, k \in 1 .. Len(a[p]) :
                    j < k /\ a[p][j] = c /\ a[p][k] = d
  <1>1. \A p \in FinishSet : /\ p \in Places /\ DOMAIN a[p] = 1 .. Len(a[p])
                             /\ \A j \in 1 .. Len(a[p]) : a[p][j] \in Deck
    BY PileType, Names DEF FinishSet
  <1>2. /\ \A i \in DOMAIN FinishOrder : FinishOrder[i] \in FinishSet
        /\ \A p \in FinishSet : \E i \in DOMAIN FinishOrder : FinishOrder[i] = p
    BY FinishPiles DEF FinishSet
  <1>3. ASSUME NEW c
        PROVE  c \in Loose(a) <=> \E p \in FinishSet : \E j \in 1 .. Len(a[p]) : a[p][j] = c
    <2>1. ASSUME c \in Loose(a)
          PROVE  \E p \in FinishSet : \E j \in 1 .. Len(a[p]) : a[p][j] = c
      BY <1>1, <1>2, <2>1 DEF Loose
    <2>2. ASSUME NEW p \in FinishSet, NEW j \in 1 .. Len(a[p]), a[p][j] = c PROVE c \in Loose(a)
      BY <1>1, <1>2, <2>2 DEF Loose
    <2> QED BY <2>1, <2>2
  <1>4. ASSUME NEW c, NEW d
        PROVE  (\E i \in DOMAIN FinishOrder : \E j, k \in DOMAIN a[FinishOrder[i]] :
                   j < k /\ a[FinishOrder[i]][j] = c /\ a[FinishOrder[i]][k] = d) <=>
               \E p \in FinishSet : \E j, k \in 1 .. Len(a[p]) :
                    j < k /\ a[p][j] = c /\ a[p][k] = d
    <2>1. ASSUME NEW i \in DOMAIN FinishOrder, NEW j \in DOMAIN a[FinishOrder[i]],
                 NEW k \in DOMAIN a[FinishOrder[i]],
                 j < k /\ a[FinishOrder[i]][j] = c /\ a[FinishOrder[i]][k] = d
          PROVE  \E p \in FinishSet : \E jj, kk \in 1 .. Len(a[p]) :
                    jj < kk /\ a[p][jj] = c /\ a[p][kk] = d
      BY <1>1, <1>2, <2>1
    <2>2. ASSUME NEW p \in FinishSet, NEW j \in 1 .. Len(a[p]), NEW k \in 1 .. Len(a[p]),
                 j < k /\ a[p][j] = c /\ a[p][k] = d
          PROVE  \E i \in DOMAIN FinishOrder : \E jj, kk \in DOMAIN a[FinishOrder[i]] :
                   jj < kk /\ a[FinishOrder[i]][jj] = c /\ a[FinishOrder[i]][kk] = d
      BY <1>1, <1>2, <2>2
    <2> QED BY <2>1, <2>2
  <1> QED BY <1>3, <1>4 DEF Waits

\* Piles that lost cards, but got none, can be finished if they could be before.
LEMMA FewerFinishable ==
  ASSUME NEW a \in Tables, NEW b \in Tables, Finishable(a),
         \A p \in FinishSet : /\ Len(b[p]) <= Len(a[p])
                              /\ \A i \in 1 .. Len(b[p]) : b[p][i] = a[p][i]
  PROVE  Finishable(b)
  <1>0. \A p \in FinishSet : Len(a[p]) \in Nat /\ Len(b[p]) \in Nat
    BY PileType, Names DEF FinishSet
  <1>1. Loose(b) \subseteq Loose(a)
    <2> SUFFICES ASSUME NEW c \in Loose(b) PROVE c \in Loose(a)
      OBVIOUS
    <2>1. PICK p, j : p \in FinishSet /\ j \in 1 .. Len(b[p]) /\ b[p][j] = c
      BY LooseCards
    <2>2. j \in 1 .. Len(a[p]) /\ a[p][j] = c
      BY <1>0, <2>1
    <2> QED BY <2>2, LooseCards
  <1>2. ASSUME NEW c, NEW d, Waits(b, c, d) PROVE Waits(a, c, d)
    <2>1. CASE Suit(c) = Suit(d) /\ Value(d) < Value(c)
      BY <2>1, LooseCards
    <2>2. CASE \E p \in FinishSet : \E j, k \in 1 .. Len(b[p]) :
                  j < k /\ b[p][j] = c /\ b[p][k] = d
      <3>1. PICK p, j, k : p \in FinishSet /\ j \in 1 .. Len(b[p]) /\ k \in 1 .. Len(b[p]) /\
                  j < k /\ b[p][j] = c /\ b[p][k] = d
        BY <2>2
      <3>2. j \in 1 .. Len(a[p]) /\ k \in 1 .. Len(a[p]) /\ a[p][j] = c /\ a[p][k] = d
        BY <1>0, <3>1
      <3> QED BY <3>1, <3>2, LooseCards
    <2> QED BY <1>2, <2>1, <2>2, LooseCards
  <1> QED BY <1>1, <1>2 DEF Finishable

\* The top card of p goes home to s.
SentHome(a, b, p, s) ==
    /\ a[p] # <<>> /\ Last(a[p]) = <<s, Len(a[s]) + 1>>
    /\ Moved(a, b, p, s, 1)

\* A card sent home keeps the foundations ordered ...
LEMMA HomeOrdered ==
  ASSUME NEW a \in Tables, NEW p \in Places \ Suits, NEW s \in Suits, NEW b,
         Ordered(a), SentHome(a, b, p, s)
  PROVE  Ordered(b)
  <1> SUFFICES ASSUME NEW t \in Suits, NEW i \in DOMAIN b[t] PROVE b[t][i] = <<t, i>>
    BY DEF Ordered
  <1>1. /\ b \in Tables /\ t \in Places /\ s \in Places /\ p # s /\ p # t
        /\ Len(b[s]) = Len(a[s]) + 1
    BY Names DEF SentHome, Moved
  <1>2. i \in 1 .. Len(b[t]) /\ Len(a[s]) \in Nat /\ Len(a[p]) \in Nat \ {0} /\ Len(a[t]) \in Nat
    BY <1>1, PileType DEF SentHome
  <1>3. CASE t # s
    <2>1. b[t] = a[t]
      BY <1>1, <1>3 DEF SentHome, Moved
    <2> QED BY <2>1 DEF Ordered
  <1>4. CASE t = s /\ i <= Len(a[s])
    <2>1. b[t][i] = a[t][i] /\ i \in DOMAIN a[t]
      BY <1>1, <1>2, <1>4, PileType DEF SentHome, Moved
    <2> QED BY <2>1 DEF Ordered
  <1>5. CASE t = s /\ i = Len(a[s]) + 1
    <2>1. b[s][Len(a[s]) + 1] = a[p][Len(a[p]) - 1 + 1]
      BY <1>2 DEF SentHome, Moved
    <2> QED BY <1>2, <1>5, <2>1 DEF SentHome, Last
  <1> QED BY <1>1, <1>2, <1>3, <1>4, <1>5

\* ... and if what is left can be finished, so could it before.
LEMMA HomeFinishable ==
  ASSUME NEW a \in Tables, NEW p \in FinishSet, NEW s \in Suits, NEW b,
         Ordered(a), Once(a), SentHome(a, b, p, s), Finishable(b)
  PROVE  Finishable(a)
  <1> DEFINE c == <<s, Len(a[s]) + 1>>
             n == Len(a[p])
  <1>1. /\ b \in Tables /\ p \in Places /\ s \in Places /\ p # s /\ n \in Nat \ {0}
        /\ a[p][n] = c /\ Len(b[p]) = n - 1 /\ \A i \in 1 .. n - 1 : b[p][i] = a[p][i]
        /\ \A q \in FinishSet : q \in Places /\ q \notin Suits /\ (q # p => b[q] = a[q])
    <2>1. /\ p \in Places /\ s \in Places /\ p # s
          /\ \A q \in FinishSet : q \in Places /\ q \notin Suits /\ q # s
      BY Names DEF FinishSet
    <2>2. n \in Nat \ {0} /\ a[p][n] = c
      BY <2>1, PileType DEF SentHome, Last
    <2>3. Moved(a, b, p, s, 1)
      BY DEF SentHome
    <2> QED BY <2>1, <2>2, <2>3 DEF Moved
  <1>2. \A q \in FinishSet : DOMAIN a[q] = 1 .. Len(a[q]) /\ Len(a[q]) \in Nat
    BY <1>1, PileType
  <1>3. \A q \in FinishSet : \A j \in 1 .. Len(a[q]) :
            a[q][j] = c <=> q = p /\ j = n
    BY <1>1, <1>2 DEF Once
  <1> HIDE DEF c
  <1>5. \A q \in FinishSet : \A j \in 1 .. Len(a[q]) :
            a[q][j] # c => j \in 1 .. Len(b[q]) /\ b[q][j] = a[q][j]
    <2> SUFFICES ASSUME NEW q \in FinishSet, NEW j \in 1 .. Len(a[q]), a[q][j] # c
                 PROVE  j \in 1 .. Len(b[q]) /\ b[q][j] = a[q][j]
      OBVIOUS
    <2>1. CASE q # p
      BY <1>1, <2>1
    <2>2. CASE q = p
      <3>1. j # n
        BY <1>3, <2>2
      <3>2. j \in 1 .. n - 1
        BY <1>1, <2>2, <3>1
      <3> QED BY <1>1, <2>2, <3>2
    <2> QED BY <2>1, <2>2
  <1>6. \A x \in Loose(a) : \A d : Waits(a, x, d) /\ x # c /\ d # c => Waits(b, x, d)
    <2> SUFFICES ASSUME NEW x, NEW d, Waits(a, x, d), x # c, d # c PROVE Waits(b, x, d)
      OBVIOUS
    <2>1. CASE Suit(x) = Suit(d) /\ Value(d) < Value(x)
      BY <1>1, <2>1, LooseCards
    <2>2. CASE \E r \in FinishSet : \E i, k \in 1 .. Len(a[r]) :
                  i < k /\ a[r][i] = x /\ a[r][k] = d
      <3>1. PICK r \in FinishSet : \E i, k \in 1 .. Len(a[r]) :
                  i < k /\ a[r][i] = x /\ a[r][k] = d
        BY <2>2
      <3>2. PICK i \in 1 .. Len(a[r]), k \in 1 .. Len(a[r]) :
                  i < k /\ a[r][i] = x /\ a[r][k] = d
        BY <3>1
      <3>3. /\ i \in 1 .. Len(b[r]) /\ k \in 1 .. Len(b[r])
            /\ b[r][i] = x /\ b[r][k] = d
        BY <1>5, <3>2
      <3>4. \E ii, kk \in 1 .. Len(b[r]) : ii < kk /\ b[r][ii] = x /\ b[r][kk] = d
        BY <3>2, <3>3
      <3> QED BY <1>1, <3>4, LooseCards
    <2> QED BY <2>1, <2>2, LooseCards
  <1>4. ASSUME NEW cs \in SUBSET Loose(a), cs # {} PROVE \E x \in cs : \A d \in cs : ~Waits(a, x, d)
    <2>1. CASE c \in cs
      <3> SUFFICES ASSUME NEW d \in cs, Waits(a, c, d) PROVE FALSE
        BY <2>1
      <3>1. PICK q, j : q \in FinishSet /\ j \in 1 .. Len(a[q]) /\ a[q][j] = d
        BY LooseCards
      <3>2. CASE Suit(c) = Suit(d) /\ Value(d) < Value(c)
        <4>1. d \in Deck
          BY <1>1, <3>1, PileType
        <4>2. /\ d = <<s, Value(d)>> /\ Value(d) \in 1 .. Len(a[s])
              /\ DOMAIN a[s] = 1 .. Len(a[s])
          <5>1. Suit(c) = s /\ Value(c) = Len(a[s]) + 1
            BY DEF c, Suit, Value
          <5>2. Len(a[s]) \in Nat /\ DOMAIN a[s] = 1 .. Len(a[s])
            BY <1>1, PileType
          <5>3. d = <<s, Value(d)>> /\ Value(d) \in Nat /\ Value(d) >= 1
            <6>1. Value(d) \in 1 .. King /\ King \in Nat
              BY <4>1, DeckFinite, NamesAssumption
            <6>2. Suit(d) = s /\ d = <<Suit(d), Value(d)>>
              BY <3>2, <4>1, <5>1, DeckFinite
            <6> QED BY <6>1, <6>2
          <5> QED BY <3>2, <5>1, <5>2, <5>3
        <4>3. a[s][Value(d)] = a[q][j] /\ Value(d) \in DOMAIN a[s] /\ j \in DOMAIN a[q]
          BY <1>1, <1>2, <3>1, <4>2 DEF Ordered
        <4>4. q \in Places /\ s \in Places /\ q # s
          BY <1>1, <3>1
        <4> QED BY <4>3, <4>4 DEF Once
      <3>3. CASE \E r \in FinishSet : \E i, k \in 1 .. Len(a[r]) :
                    i < k /\ a[r][i] = c /\ a[r][k] = d
        BY <1>1, <1>2, <1>3, <3>3
      <3> QED BY <3>2, <3>3, LooseCards
    <2>2. CASE c \notin cs
      <3>1. cs \subseteq Loose(b)
        <4> SUFFICES ASSUME NEW x \in cs PROVE x \in Loose(b)
          OBVIOUS
        <4>1. PICK q \in FinishSet : \E j \in 1 .. Len(a[q]) : a[q][j] = x
          BY LooseCards
        <4>2. PICK j \in 1 .. Len(a[q]) : a[q][j] = x
          BY <4>1
        <4>3. j \in 1 .. Len(b[q]) /\ b[q][j] = x
          BY <1>5, <2>2, <4>2
        <4> QED BY <1>1, <4>3, LooseCards
      <3>2. PICK x \in cs : \A d \in cs : ~Waits(b, x, d)
        BY <1>4, <3>1 DEF Finishable
      <3>3. ASSUME NEW d \in cs, Waits(a, x, d) PROVE Waits(b, x, d)
        BY <1>6, <2>2, <3>3
      <3> QED BY <3>2, <3>3
    <2> QED BY <2>1, <2>2
  <1> QED BY <1>4 DEF Finishable

\* The piles of the simulation: the cards keep to their rules, the other places to their cards.
Playable(a, b) ==
    /\ b \in Tables /\ Ordered(b) /\ Once(b)
    /\ \A p \in {"stock", "hand", "flight"} : b[p] = a[p]

\* Lifting one card keeps a table playable, and a finish after it is a finish before it.
LEMMA LiftPlays ==
  ASSUME NEW a \in Tables, NEW b, Playable(a, b), NEW p \in FinishSet
  PROVE  /\ Playable(a, Lift(b, p))
         /\ Finishable(Lift(b, p)) => Finishable(b)
  <1> DEFINE c == Last(b[p])
             s == CHOOSE s \in Homes(b, c) : TRUE
  <1>1. CASE b[p] # <<>> /\ Homes(b, c) # {}
    <2>1. /\ p \in Places /\ p \notin Suits /\ b \in Tables /\ Ordered(b) /\ Once(b)
          /\ p \notin {"stock", "hand", "flight"}
      BY Names DEF FinishSet, Playable
    <2>2. Len(b[p]) \in Nat \ {0} /\ c \in Deck
      BY <1>1, <2>1, PileType DEF Last
    <2>3. s \in Suits /\ c = <<s, Len(b[s]) + 1>> /\ s \in Places /\ s # p
      BY <1>1, <2>1, <2>2, HomeChosen, Names
    <2>4. Lift(b, p) = Shift(b, p, s, 1)
      BY <1>1 DEF Lift
    <2> HIDE DEF c, s
    <2>5. SentHome(b, Lift(b, p), p, s)
      <3>1. 1 \in 0 .. Len(b[p])
        BY <2>2
      <3>2. Moved(b, Lift(b, p), p, s, 1)
        BY <2>1, <2>3, <2>4, <3>1, ShiftMoves
      <3> QED BY <1>1, <2>3, <3>2 DEF SentHome, c
    <2>6. Once(Lift(b, p))
      <3>1. 1 \in 0 .. Len(b[p])
        BY <2>2
      <3> QED BY <2>1, <2>3, <2>5, <3>1, MovedOnce DEF SentHome
    <2>7. Ordered(Lift(b, p))
      BY <2>1, <2>3, <2>5, HomeOrdered
    <2>8. \A q \in {"stock", "hand", "flight"} : Lift(b, p)[q] = a[q]
      BY <2>1, <2>3, <2>5, Names DEF SentHome, Moved, Playable
    <2>9. Finishable(Lift(b, p)) => Finishable(b)
      BY <2>1, <2>3, <2>5, HomeFinishable
    <2> QED BY <2>5, <2>6, <2>7, <2>8, <2>9 DEF Playable, SentHome, Moved
  <1>2. CASE ~(b[p] # <<>> /\ Homes(b, c) # {})
    <2>1. Lift(b, p) = b
      BY <1>2 DEF Lift
    <2> QED BY <2>1
  <1> QED BY <1>1, <1>2

\* What the lifts of the simulation are: the first piles are the given ones, each next ones
\* those after a lift.
LiftRounds(a) ==
    CHOOSE f : f = [n \in 0 .. Lifts |->
                       IF n = 0 THEN a
                       ELSE Lift(f[n - 1], FinishOrder[((n - 1) % Len(FinishOrder)) + 1])]

\* The simulation ends with the last lift.
LEMMA LiftedRounds ==
  ASSUME NEW a
  PROVE  /\ Lifts \in Nat
         /\ Simulated(a) = LiftRounds(a)[Lifts]
         /\ LiftRounds(a)[0] = a
         /\ \A n \in 1 .. Lifts : \E p \in FinishSet :
               LiftRounds(a)[n] = Lift(LiftRounds(a)[n - 1], p)
  <1> DEFINE Step(n, x) == Lift(x, FinishOrder[((n - 1) % Len(FinishOrder)) + 1])
             Fits(f, m) == /\ f = [n \in 0 .. m |-> f[n]] /\ f[0] = a
                           /\ \A n \in 1 .. m : f[n] = Step(n, f[n - 1])
             Made(f) == f = [n \in 0 .. Lifts |-> IF n = 0 THEN a ELSE Step(n, f[n - 1])]
             S == {m \in Nat : \E f : Fits(f, m)}
  <1>0. Lifts \in Nat
    BY FinishPiles, DeckFinite DEF Lifts
  <1> DEFINE K == Lifts
  <1>7. \A n \in 1 .. K : \A x : \E p \in FinishSet : Step(n, x) = Lift(x, p)
    <2> SUFFICES ASSUME NEW n \in 1 .. K, NEW x PROVE \E p \in FinishSet : Step(n, x) = Lift(x, p)
      OBVIOUS
    <2>1. n - 1 \in Nat /\ Len(FinishOrder) \in Nat \ {0}
      BY FinishPiles, <1>0
    <2>2. ((n - 1) % Len(FinishOrder)) + 1 \in 1 .. Len(FinishOrder)
      <3> DEFINE L == Len(FinishOrder)
      <3>1. L \in Nat \ {0}
        BY <2>1
      <3> HIDE DEF L
      <3>2. ((n - 1) % L) + 1 \in 1 .. L
        BY <2>1, <3>1
      <3> QED BY <3>2 DEF L
    <2>3. FinishOrder[((n - 1) % Len(FinishOrder)) + 1] \in FinishSet
      BY <2>2, FinishPiles DEF FinishSet
    <2> QED BY <2>3
  <1> HIDE DEF Step
  <1>1. 0 \in S
    <2> DEFINE f == [n \in 0 .. 0 |-> a]
    <2>1. Fits(f, 0)
      OBVIOUS
    <2> QED BY <2>1
  <1>2. ASSUME NEW k \in 0 .. K - 1, k \in S PROVE k + 1 \in S
    <2>1. PICK f : Fits(f, k)
      BY <1>2
    <2> DEFINE g == [n \in 0 .. k + 1 |-> IF n = 0 THEN a ELSE Step(n, f[n - 1])]
    <2>2. k \in Nat /\ g = [n \in 0 .. k + 1 |-> g[n]] /\ g[0] = a
      BY <1>0
    <2>3. ASSUME NEW n \in 1 .. k + 1 PROVE g[n] = Step(n, g[n - 1])
      <3>1. g[n] = Step(n, f[n - 1]) /\ n - 1 \in 0 .. k
        BY <2>2
      <3>2. g[n - 1] = f[n - 1]
        <4>1. CASE n = 1
          BY <2>1, <2>2, <4>1
        <4>2. CASE n # 1
          <5>1. n - 1 \in 1 .. k /\ n - 1 \in 0 .. k + 1 /\ n - 1 # 0
            BY <2>2, <4>2
          <5> QED BY <2>1, <5>1
        <4> QED BY <4>1, <4>2
      <3> QED BY <3>1, <3>2
    <2>4. Fits(g, k + 1)
      <3> HIDE DEF g
      <3> QED BY <2>2, <2>3
    <2> HIDE DEF g, Fits
    <2> QED BY <2>2, <2>4
  <1>3. PICK f : Fits(f, K)
    <2>1. K \in 0 .. K
      BY <1>0
    <2>2. 0 .. K \subseteq S
      <3> HIDE DEF S
      <3> QED BY <1>0, <1>1, <1>2, UpTo
    <2> QED BY <2>1, <2>2
  <1>4. Made(f)
    <2> DEFINE e(n) == IF n = 0 THEN a ELSE Step(n, f[n - 1])
    <2>1. ASSUME NEW n \in 0 .. K PROVE f[n] = e(n)
      <3>1. n = 0 \/ n \in 1 .. K
        BY <1>0
      <3> QED BY <1>3, <3>1
    <2>2. f = [n \in 0 .. K |-> f[n]]
      BY <1>3
    <2>3. f = [n \in 0 .. K |-> e(n)]
      <3> HIDE DEF e
      <3> QED BY <2>1, <2>2
    <2> QED BY <2>3
  <1>5. Made(LiftRounds(a))
    <2>1. LiftRounds(a) = CHOOSE g : Made(g)
      BY DEF LiftRounds, Step
    <2> HIDE DEF Made
    <2> QED BY <1>4, <2>1
  <1>6. LiftRounds(a)[0] = a /\ \A n \in 1 .. K : LiftRounds(a)[n] = Step(n, LiftRounds(a)[n - 1])
    <2> DEFINE r == LiftRounds(a)
    <2>1. Made(r)
      BY <1>5
    <2> HIDE DEF r
    <2>2. r[0] = a /\ \A n \in 1 .. K : r[n] = Step(n, r[n - 1])
      BY <1>0, <2>1
    <2> QED BY <2>2 DEF r
  <1>8. Simulated(a) = LiftRounds(a)[K]
    BY DEF Simulated, LiftRounds
  <1> QED BY <1>0, <1>6, <1>7, <1>8

\* Piles that the simulation brings home can be finished, and nothing lies elsewhere.
LEMMA SimulationFinishes ==
  ASSUME NEW a \in Tables, Ordered(a), Once(a), Full(Simulated(a))
  PROVE  Finishable(a) /\ \A p \in {"stock", "hand", "flight"} : a[p] = <<>>
  <1> DEFINE f == LiftRounds(a)
             S == {n \in Nat : Playable(a, f[n]) /\ (Finishable(f[n]) => Finishable(a))}
             K == Lifts
  <1>1. /\ K \in Nat /\ Simulated(a) = f[K] /\ f[0] = a
        /\ \A n \in 1 .. K : \E p \in FinishSet : f[n] = Lift(f[n - 1], p)
    BY LiftedRounds
  <1> HIDE DEF f, K
  <1>2. 0 \in S
    BY <1>1 DEF Playable
  <1>3. ASSUME NEW n \in 0 .. K - 1, n \in S PROVE n + 1 \in S
    <2>1. n \in Nat /\ n + 1 \in 1 .. K /\ (n + 1) - 1 = n
      BY <1>1
    <2>2. PICK p \in FinishSet : f[n + 1] = Lift(f[n], p)
      BY <1>1, <2>1
    <2>3. Playable(a, f[n + 1]) /\ (Finishable(f[n + 1]) => Finishable(f[n]))
      BY <1>3, <2>2, LiftPlays
    <2> QED BY <1>3, <2>1, <2>3
  <1>4. K \in S
    <2> HIDE DEF S
    <2>1. 0 .. K \subseteq S
      BY <1>1, <1>2, <1>3, UpTo
    <2> QED BY <1>1, <2>1
  <1> DEFINE z == f[K]
  <1>5. /\ z \in Tables /\ Ordered(z) /\ Once(z) /\ Full(z)
        /\ \A p \in {"stock", "hand", "flight"} : z[p] = a[p]
        /\ Finishable(z) => Finishable(a)
    BY <1>1, <1>4 DEF Playable
  <1> HIDE DEF z
  <1>6. \A p \in Places \ Suits : z[p] = <<>>
    BY <1>5, FullEmpty
  <1>7. Loose(z) = {}
    <2>1. \A p \in FinishSet : z[p] = <<>>
      BY <1>6, Names DEF FinishSet
    <2> SUFFICES ASSUME NEW c \in Loose(z) PROVE FALSE
      OBVIOUS
    <2>2. PICK p \in FinishSet : \E j \in 1 .. Len(z[p]) : z[p][j] = c
      BY <1>5, LooseCards
    <2>3. Len(z[p]) = 0
      BY <2>1
    <2> QED BY <2>2, <2>3
  <1>8. Finishable(z)
    BY <1>7 DEF Finishable
  <1> QED BY <1>5, <1>6, <1>8, Names

\* Piles that can be finished, and are not, have a card to move: the next one of a
\* foundation that no other loose card has to go before.
LEMMA FinishableMoves ==
  ASSUME NEW a \in Tables, Ordered(a), Once(a), All(a), Finishable(a), ~Full(a),
         \A p \in {"stock", "hand", "flight"} : a[p] = <<>>
  PROVE  Movable(a) # {}
  <1>1. ASSUME NEW c \in Deck, ~ \E s \in Suits : \E i \in 1 .. Len(a[s]) : a[s][i] = c
        PROVE  c \in Loose(a)
    <2>1. PICK p \in Places : \E i \in DOMAIN a[p] : a[p][i] = c
      BY DEF All
    <2>2. DOMAIN a[p] = 1 .. Len(a[p]) /\ (a[p] = <<>> => DOMAIN a[p] = {})
      BY PileType
    <2>3. p \notin Suits /\ p \notin {"stock", "hand", "flight"}
      BY <1>1, <2>1, <2>2
    <2>4. p \in FinishSet
      BY <2>3, Names DEF FinishSet
    <2> QED BY <2>1, <2>2, <2>4, LooseCards
  <1>2. PICK s \in Suits : Len(a[s]) # King
    BY FullMeans
  <1>3. Loose(a) # {}
    <2> DEFINE c == <<s, Len(a[s]) + 1>>
    <2>1. Len(a[s]) \in 0 .. King /\ c \in Deck
      BY <1>2, FoundationHeight, NamesAssumption DEF Deck
    <2>2. ASSUME NEW t \in Suits, NEW i \in 1 .. Len(a[t]), a[t][i] = c PROVE FALSE
      <3>1. a[t][i] = <<t, i>>
        BY PileType, Names DEF Ordered
      <3> QED BY <2>1, <2>2, <3>1
    <2> HIDE DEF c
    <2> QED BY <1>1, <2>1, <2>2
  <1>4. PICK c \in Loose(a) : \A d \in Loose(a) : ~Waits(a, c, d)
    BY <1>3 DEF Finishable
  <1>5. PICK p \in FinishSet : \E i \in 1 .. Len(a[p]) : a[p][i] = c
    BY LooseCards
  <1>6. PICK i \in 1 .. Len(a[p]) : a[p][i] = c
    BY <1>5
  <1>7. p \in Places /\ p \notin Suits /\ Len(a[p]) \in Nat /\ DOMAIN a[p] = 1 .. Len(a[p]) /\ c \in Deck
    BY <1>6, PileType, Names DEF FinishSet
  <1>8. i = Len(a[p])
    <2> SUFFICES ASSUME i # Len(a[p]) PROVE FALSE
      OBVIOUS
    <2>1. i + 1 \in 1 .. Len(a[p]) /\ i < i + 1
      BY <1>7
    <2>2. a[p][i + 1] \in Loose(a)
      BY <2>1, LooseCards
    <2>3. Waits(a, c, a[p][i + 1])
      BY <1>6, <2>1, LooseCards
    <2> QED BY <1>4, <2>2, <2>3
  <1> DEFINE t == Suit(c)
             v == Value(c)
  <1>9. c = <<t, v>> /\ t \in Suits /\ v \in 1 .. King
    BY <1>7, DeckFinite
  <1>10. Len(a[t]) \in 0 .. King /\ t \in Places /\ DOMAIN a[t] = 1 .. Len(a[t])
    BY <1>9, FoundationHeight, PileType, Names
  <1>11. Len(a[t]) < v
    <2> SUFFICES ASSUME v \in 1 .. Len(a[t]) PROVE FALSE
      BY <1>9, <1>10, NamesAssumption
    <2>1. a[t][v] = c
      BY <1>9, <1>10 DEF Ordered
    <2> QED BY <1>6, <1>7, <1>9, <1>10, <2>1 DEF Once
  <1>12. Len(a[t]) >= v - 1
    <2> SUFFICES ASSUME Len(a[t]) < v - 1 PROVE FALSE
      BY <1>9, <1>10, NamesAssumption
    <2> DEFINE d == <<t, v - 1>>
    <2>1. d \in Deck /\ Suit(d) = t /\ Value(d) = v - 1
      BY <1>9, <1>10, NamesAssumption DEF Deck, Suit, Value
    <2>2. ASSUME NEW u \in Suits, NEW k \in 1 .. Len(a[u]), a[u][k] = d PROVE FALSE
      <3>1. a[u][k] = <<u, k>>
        BY PileType, Names DEF Ordered
      <3> QED BY <1>10, <2>2, <3>1
    <2> HIDE DEF d
    <2>3. d \in Loose(a)
      BY <1>1, <2>1, <2>2
    <2>4. Waits(a, c, d)
      <3>1. v - 1 < v
        BY <1>9, NamesAssumption
      <3> QED BY <2>1, <3>1, LooseCards
    <2> QED BY <1>4, <2>3, <2>4
  <1>13. c = <<t, Len(a[t]) + 1>>
    <2>1. Len(a[t]) + 1 = v
      BY <1>9, <1>10, <1>11, <1>12, NamesAssumption
    <2> QED BY <1>9, <2>1
  <1> HIDE DEF t, v
  <1>14. Homes(a, Last(a[p])) # {}
    <2>1. Last(a[p]) = c
      BY <1>6, <1>8 DEF Last
    <2>2. Homes(a, c) # {}
      BY <1>7, <1>9, <1>13, HomeChosen
    <2> QED BY <2>1, <2>2
  <1>15. PICK k \in DOMAIN FinishOrder : FinishOrder[k] = p
    BY FinishPiles DEF FinishSet
  <1>16. a[p] # <<>>
    BY <1>6, <1>7, PileType
  <1> QED BY <1>14, <1>15, <1>16 DEF Movable

-----------------------------------------------------------------------------
(* The deal *)

\* The columns take their cards one after the other: each column's cards are there.
LEMMA DealtCounts ==
  /\ \A i \in Nat \ {0} : DealtBefore(i) \in Nat /\ DealtBefore(i + 1) = DealtBefore(i) + i
  /\ \A i, j \in Nat \ {0} : i < j => DealtBefore(i) + i <= DealtBefore(j)
  /\ DealtBefore(1) = 0
  /\ Len(Columns) \in Nat
  /\ DealtBefore(Len(Columns) + 1) \in Nat /\ DealtBefore(Len(Columns) + 1) <= DeckSize
  <1>1. ASSUME NEW i \in Nat \ {0}
        PROVE  DealtBefore(i) \in Nat /\ DealtBefore(i + 1) = DealtBefore(i) + i
    BY DEF DealtBefore
  <1>2. ASSUME NEW i \in Nat \ {0}, NEW j \in Nat \ {0}, i < j
        PROVE  DealtBefore(i) + i <= DealtBefore(j)
    BY <1>2 DEF DealtBefore
  <1>3. DealtBefore(1) = 0
    BY DEF DealtBefore
  <1>4. Len(Columns) \in Nat
    BY NamesAssumption
  <1>5. DealtBefore(Len(Columns) + 1) = (Len(Columns) * (Len(Columns) + 1)) \div 2
    BY <1>4 DEF DealtBefore
  <1>6. DealtBefore(Len(Columns) + 1) \in Nat
    <2>1. Len(Columns) + 1 \in Nat \ {0}
      BY <1>4
    <2> QED BY <1>1, <2>1
  <1> QED BY <1>1, <1>2, <1>3, <1>4, <1>5, <1>6, DealsAssumption

\* So the stock gets a share.
LEMMA StockShare == DeckSize - DealtBefore(Len(Columns) + 1) \in Nat
  <1> DEFINE b == DealtBefore(Len(Columns) + 1)
  <1>1. b \in Nat /\ b <= DeckSize /\ DeckSize \in Nat
    BY DealtCounts, DeckFinite
  <1> HIDE DEF b
  <1>2. DeckSize - b \in Nat
    BY <1>1
  <1> QED BY <1>2 DEF b

\* A column is known by its index.
LEMMA ColumnIndices ==
  /\ \A p \in ColumnSet : /\ ColumnIndex(p) \in 1 .. Len(Columns)
                          /\ Columns[ColumnIndex(p)] = p
  /\ \A i \in 1 .. Len(Columns) : Columns[i] \in ColumnSet /\ ColumnIndex(Columns[i]) = i
  <1>1. DOMAIN Columns = 1 .. Len(Columns)
    BY NamesAssumption
  <1>2. ASSUME NEW p \in ColumnSet
        PROVE  ColumnIndex(p) \in 1 .. Len(Columns) /\ Columns[ColumnIndex(p)] = p
    <2>1. \E i \in DOMAIN Columns : Columns[i] = p
      BY DEF ColumnSet
    <2> QED BY <1>1, <2>1 DEF ColumnIndex
  <1>3. ASSUME NEW i \in 1 .. Len(Columns)
        PROVE  Columns[i] \in ColumnSet /\ ColumnIndex(Columns[i]) = i
    <2>1. Columns[i] \in ColumnSet
      BY <1>1 DEF ColumnSet
    <2> QED BY <1>1, <1>2, <2>1, NamesAssumption DEF IsInjective
  <1> QED BY <1>2, <1>3

\* n cards that follow the first b.
LEMMA Slice ==
  ASSUME NEW d \in Seq(Deck), NEW b \in Nat, NEW n \in Nat, b + n <= Len(d)
  PROVE  /\ SubSeq(d, b + 1, b + n) \in Seq(Deck) /\ Len(SubSeq(d, b + 1, b + n)) = n
         /\ \A k \in 1 .. n : SubSeq(d, b + 1, b + n)[k] = d[b + k]
  <1>1. Len(d) \in Nat /\ b + 1 \in Int /\ b + n \in Int
    OBVIOUS
  <1>2. \A i \in b + 1 .. b + n : d[i] \in Deck
    BY <1>1
  <1>3. /\ Len(SubSeq(d, b + 1, b + n)) = n
        /\ \A k \in 1 .. n : SubSeq(d, b + 1, b + n)[k] = d[b + k]
    <2>1. CASE n = 0
      BY <1>1, <2>1
    <2>2. CASE n # 0
      BY <1>1, <2>2
    <2> QED BY <2>1, <2>2
  <1> QED BY <1>1, <1>2, <1>3

\* The cards above the first k.
LEMMA SliceAbove ==
  ASSUME NEW s \in Seq(Deck), NEW k \in 0 .. Len(s)
  PROVE  /\ SubSeq(s, k + 1, Len(s)) \in Seq(Deck) /\ Len(SubSeq(s, k + 1, Len(s))) = Len(s) - k
         /\ \A i \in 1 .. Len(s) - k : SubSeq(s, k + 1, Len(s))[i] = s[k + i]
  <1> DEFINE n == Len(s) - k
  <1>1. n \in Nat /\ k \in Nat /\ k + n = Len(s) /\ k + n <= Len(s)
    OBVIOUS
  <1> HIDE DEF n
  <1>2. /\ SubSeq(s, k + 1, k + n) \in Seq(Deck) /\ Len(SubSeq(s, k + 1, k + n)) = n
        /\ \A i \in 1 .. n : SubSeq(s, k + 1, k + n)[i] = s[k + i]
    BY <1>1, Slice
  <1> QED BY <1>1, <1>2 DEF n

\* Where the cards of a place begin in the shuffled deck, and how many it gets.
Offset(p) == IF p \in ColumnSet THEN DealtBefore(ColumnIndex(p)) ELSE DealtBefore(Len(Columns) + 1)
Share(p) ==
    IF p \in ColumnSet THEN ColumnIndex(p)
    ELSE IF p = "stock" THEN DeckSize - DealtBefore(Len(Columns) + 1) ELSE 0

\* The deal gives every place its share of the deck, taken from where its offset points.
LEMMA DealtShares ==
  ASSUME NEW d \in Deals
  PROVE  /\ Dealt(d) \in Tables
         /\ \A p \in Places :
               /\ Share(p) \in Nat /\ Offset(p) \in Nat /\ Offset(p) + Share(p) <= DeckSize
               /\ Len(Dealt(d)[p]) = Share(p)
               /\ \A k \in 1 .. Share(p) : Dealt(d)[p][k] = d[Offset(p) + k]
  <1>1. d \in Seq(Deck) /\ Len(d) = DeckSize
    <2>1. d \in [1 .. DeckSize -> Deck] /\ DeckSize \in Nat
      BY DealsAssumption, DeckFinite
    <2> QED BY <2>1
  <1>2. ASSUME NEW p \in Places
        PROVE  /\ Share(p) \in Nat /\ Offset(p) \in Nat /\ Offset(p) + Share(p) <= DeckSize
               /\ Dealt(d)[p] \in Seq(Deck) /\ Len(Dealt(d)[p]) = Share(p)
               /\ \A k \in 1 .. Share(p) : Dealt(d)[p][k] = d[Offset(p) + k]
    <2>1. CASE p \in ColumnSet
      <3> DEFINE i == ColumnIndex(p)
      <3>1. i \in 1 .. Len(Columns) /\ Len(Columns) \in Nat
        BY <2>1, ColumnIndices, DealtCounts
      <3> DEFINE b == DealtBefore(i)
      <3>2. b \in Nat /\ b + i <= DeckSize
        <4>1. i \in Nat \ {0} /\ Len(Columns) + 1 \in Nat \ {0} /\ i < Len(Columns) + 1
          BY <3>1
        <4>2. b \in Nat /\ b + i <= DealtBefore(Len(Columns) + 1) /\ DealtBefore(Len(Columns) + 1) \in Nat
          BY <4>1, DealtCounts
        <4> QED BY <4>1, <4>2, DealtCounts, DeckFinite
      <3>3. Dealt(d)[p] = SubSeq(d, b + 1, b + i)
        BY <2>1 DEF Dealt
      <3>4. Share(p) = i /\ Offset(p) = b
        BY <2>1 DEF Share, Offset
      <3> HIDE DEF i, b
      <3>5. /\ SubSeq(d, b + 1, b + i) \in Seq(Deck) /\ Len(SubSeq(d, b + 1, b + i)) = i
            /\ \A k \in 1 .. i : SubSeq(d, b + 1, b + i)[k] = d[b + k]
        <4>1. i \in Nat /\ b \in Nat /\ b + i <= Len(d)
          BY <1>1, <3>1, <3>2
        <4> QED BY <1>1, <4>1, Slice
      <3> QED BY <3>1, <3>2, <3>3, <3>4, <3>5
    <2>2. CASE p = "stock"
      <3> DEFINE b == DealtBefore(Len(Columns) + 1)
      <3>1. b \in Nat /\ b <= DeckSize /\ DeckSize \in Nat
        BY DealtCounts, DeckFinite
      <3>2. p \notin ColumnSet
        BY <2>2, Names
      <3>3. Dealt(d)[p] = SubSeq(d, b + 1, DeckSize)
        BY <2>2, <3>2 DEF Dealt
      <3>4. Share(p) = DeckSize - b /\ Offset(p) = b
        BY <2>2, <3>2 DEF Share, Offset
      <3> HIDE DEF b
      <3>5. /\ SubSeq(d, b + 1, DeckSize) \in Seq(Deck) /\ Len(SubSeq(d, b + 1, DeckSize)) = DeckSize - b
            /\ \A k \in 1 .. DeckSize - b : SubSeq(d, b + 1, DeckSize)[k] = d[b + k]
        <4>1. DeckSize - b \in Nat /\ b + (DeckSize - b) = DeckSize /\ b + (DeckSize - b) <= Len(d)
          BY <1>1, <3>1
        <4> QED BY <1>1, <3>1, <4>1, Slice
      <3> QED BY <3>1, <3>3, <3>4, <3>5
    <2>3. CASE p \notin ColumnSet /\ p # "stock"
      <3>1. Dealt(d)[p] = <<>> /\ Share(p) = 0 /\ Offset(p) = DealtBefore(Len(Columns) + 1)
        BY <2>3 DEF Dealt, Share, Offset
      <3>2. Offset(p) \in Nat /\ Offset(p) <= DeckSize
        BY <3>1, DealtCounts
      <3> QED BY <3>1, <3>2
    <2> QED BY <2>1, <2>2, <2>3
  <1>3. Dealt(d) \in Tables
    <2>1. Dealt(d) = [p \in Places |-> Dealt(d)[p]]
      BY DEF Dealt
    <2> QED BY <1>2, <2>1 DEF Tables
  <1> QED BY <1>2, <1>3

\* No card is dealt twice, and all are.
LEMMA DealtWhole ==
  ASSUME NEW d \in Deals
  PROVE  Once(Dealt(d)) /\ All(Dealt(d))
  <1> DEFINE a == Dealt(d)
             n == Len(Columns)
  <1>1. /\ a \in Tables /\ \A p \in Places : DOMAIN a[p] = 1 .. Share(p)
        /\ \A p \in Places :
               /\ Share(p) \in Nat /\ Offset(p) \in Nat /\ Offset(p) + Share(p) <= DeckSize
               /\ \A k \in 1 .. Share(p) : a[p][k] = d[Offset(p) + k]
    BY DealtShares, PileType
  <1>2. /\ DOMAIN d = 1 .. DeckSize /\ DeckSize \in Nat
        /\ \A i, j \in 1 .. DeckSize : d[i] = d[j] => i = j
        /\ \A c \in Deck : \E i \in 1 .. DeckSize : d[i] = c
    BY DealsAssumption, DeckFinite DEF IsInjective
  <1>3. ASSUME NEW p \in Places, NEW q \in Places, NEW i \in 1 .. Share(p), NEW j \in 1 .. Share(q),
               Offset(p) + i = Offset(q) + j
        PROVE  p = q
    <2>1. CASE p \in ColumnSet /\ q \in ColumnSet
      <3> DEFINE x == ColumnIndex(p)
                 y == ColumnIndex(q)
      <3>0. /\ x \in 1 .. Len(Columns) /\ y \in 1 .. Len(Columns) /\ Columns[x] = p /\ Columns[y] = q
            /\ Share(p) = x /\ Share(q) = y
            /\ Offset(p) = DealtBefore(x) /\ Offset(q) = DealtBefore(y)
        BY <2>1, ColumnIndices DEF Share, Offset
      <3> HIDE DEF x, y
      <3>1. /\ x \in Nat \ {0} /\ y \in Nat \ {0} /\ Columns[x] = p /\ Columns[y] = q
            /\ Share(p) = x /\ Share(q) = y
            /\ Offset(p) = DealtBefore(x) /\ Offset(q) = DealtBefore(y)
            /\ x < y => DealtBefore(x) + x <= DealtBefore(y)
            /\ y < x => DealtBefore(y) + y <= DealtBefore(x)
        <4>1. x \in Nat \ {0} /\ y \in Nat \ {0}
          <5>1. x \in 1 .. Len(Columns) /\ y \in 1 .. Len(Columns) /\ Len(Columns) \in Nat
            BY <3>0, DealtCounts
          <5> QED BY <5>1
        <4>2. x < y => DealtBefore(x) + x <= DealtBefore(y)
          BY <4>1, DealtCounts
        <4>3. y < x => DealtBefore(y) + y <= DealtBefore(x)
          BY <4>1, DealtCounts
        <4> QED BY <3>0, <4>1, <4>2, <4>3
      <3>2. DealtBefore(x) \in Nat /\ DealtBefore(y) \in Nat
        BY <1>1, <3>1
      <3>3. x = y
        BY <1>3, <3>1, <3>2
      <3> QED BY <3>1, <3>3
    <2>2. ASSUME NEW r \in ColumnSet
          PROVE  Offset(r) + Share(r) <= DealtBefore(n + 1) /\ DealtBefore(n + 1) \in Nat
      <3> DEFINE x == ColumnIndex(r)
      <3>1. x \in 1 .. n /\ n \in Nat
        BY ColumnIndices, DealtCounts
      <3>2. Offset(r) = DealtBefore(x) /\ Share(r) = x
        BY DEF Share, Offset
      <3> HIDE DEF x
      <3>3. x \in Nat \ {0} /\ n + 1 \in Nat \ {0} /\ x < n + 1
        BY <3>1
      <3> QED BY <3>2, <3>3, DealtCounts
    <2>3. ASSUME NEW r \in Places \ ColumnSet, Share(r) # 0
          PROVE  r = "stock" /\ Offset(r) = DealtBefore(n + 1)
      BY <2>3 DEF Share, Offset
    <2>4. Share(p) # 0 /\ Share(q) # 0
      BY <1>1
    <2> QED BY <1>1, <1>3, <2>1, <2>2, <2>3, <2>4
  <1>4. Once(a)
    <2> SUFFICES ASSUME NEW p \in Places, NEW q \in Places, NEW i \in DOMAIN a[p], NEW j \in DOMAIN a[q],
                        a[p][i] = a[q][j]
                 PROVE  p = q /\ i = j
      BY DEF Once
    <2>1. i \in 1 .. Share(p) /\ j \in 1 .. Share(q)
      BY <1>1
    <2>2. d[Offset(p) + i] = d[Offset(q) + j]
      BY <1>1, <2>1
    <2>3. Offset(p) + i \in 1 .. DeckSize /\ Offset(q) + j \in 1 .. DeckSize
      <3>1. /\ Offset(p) \in Nat /\ Share(p) \in Nat /\ Offset(p) + Share(p) <= DeckSize
            /\ Offset(q) \in Nat /\ Share(q) \in Nat /\ Offset(q) + Share(q) <= DeckSize
        BY <1>1
      <3>2. DeckSize \in Nat
        BY DeckFinite
      <3>3. Offset(p) + i \in 1 .. DeckSize
        BY <2>1, <3>1, <3>2
      <3>4. Offset(q) + j \in 1 .. DeckSize
        BY <2>1, <3>1, <3>2
      <3> QED BY <3>3, <3>4
    <2>4. Offset(p) + i = Offset(q) + j
      BY <1>2, <2>2, <2>3
    <2> QED BY <1>1, <1>3, <2>1, <2>4
  <1>5. ASSUME NEW m \in 1 .. DeckSize
        PROVE  \E p \in Places : \E k \in 1 .. Share(p) : Offset(p) + k = m
    <2>1. CASE m > DealtBefore(n + 1)
      <3>1. /\ Offset("stock") = DealtBefore(n + 1) /\ Share("stock") = DeckSize - DealtBefore(n + 1)
            /\ "stock" \in Places /\ DealtBefore(n + 1) \in Nat
        BY Names, DealtCounts DEF Offset, Share
      <3>2. m - DealtBefore(n + 1) \in 1 .. Share("stock")
        BY <1>2, <2>1, <3>1
      <3> QED BY <3>1, <3>2
    <2>2. CASE m <= DealtBefore(n + 1)
      <3> DEFINE T == {i \in Nat : m <= DealtBefore(i + 1)}
      <3>1. T \in SUBSET Nat /\ n \in T
        BY <2>2, DealtCounts
      <3>2. PICK i \in T : \A j \in T : i <= j
        <4> HIDE DEF T
        <4> QED BY <3>1, LeastNat
      <3>3. i \in Nat /\ i <= n /\ m <= DealtBefore(i + 1) /\ n \in Nat
        BY <3>1, <3>2, DealtCounts
      <3>4. i # 0
        BY <3>3, DealtCounts
      <3>5. m > DealtBefore(i) /\ DealtBefore(i) \in Nat /\ DealtBefore(i + 1) = DealtBefore(i) + i
        <4>1. DealtBefore(i) \in Nat /\ DealtBefore(i + 1) = DealtBefore(i) + i
          BY <3>3, <3>4, DealtCounts
        <4>2. i - 1 \in Nat /\ i - 1 \notin T /\ (i - 1) + 1 = i
          BY <3>2, <3>3, <3>4
        <4>3. ~(m <= DealtBefore((i - 1) + 1))
          BY <4>2
        <4>4. ~(m <= DealtBefore(i))
          BY <4>2, <4>3
        <4>5. m \in Int /\ DealtBefore(i) \in Int
          BY <1>2, <4>1
        <4> HIDE DEF T
        <4> QED BY <4>1, <4>4, <4>5
      <3> HIDE DEF T
      <3>6. /\ Columns[i] \in Places /\ Offset(Columns[i]) = DealtBefore(i) /\ Share(Columns[i]) = i
        BY <3>3, <3>4, ColumnIndices, Names DEF Offset, Share
      <3>7. m - DealtBefore(i) \in 1 .. i /\ DealtBefore(i) + (m - DealtBefore(i)) = m
        BY <3>3, <3>5
      <3> QED BY <3>6, <3>7
    <2>3. DealtBefore(n + 1) \in Nat
      BY DealtCounts
    <2> QED BY <2>1, <2>2, <2>3
  <1>6. All(a)
    <2> SUFFICES ASSUME NEW c \in Deck PROVE \E p \in Places : \E i \in DOMAIN a[p] : a[p][i] = c
      BY DEF All
    <2>1. PICK m \in 1 .. DeckSize : d[m] = c
      BY <1>2
    <2>2. PICK p \in Places : \E k \in 1 .. Share(p) : Offset(p) + k = m
      BY <1>5
    <2> QED BY <1>1, <2>1, <2>2
  <1> QED BY <1>4, <1>6

\* A game that was just dealt: the tops of the columns are face up, and no other card.
FreshDeal(a, u) ==
    /\ a \in Tables /\ Once(a) /\ All(a) /\ u \subseteq Deck
    /\ \A p \in Suits \cup {"waste", "hand", "flight"} : a[p] = <<>> /\ Len(a[p]) = 0
    /\ Len(a["stock"]) = DeckSize - DealtBefore(Len(Columns) + 1)
    /\ \A p \in ColumnSet : /\ Len(a[p]) \in 1 .. Len(Columns) /\ Last(a[p]) \in u
                            /\ \A i \in 1 .. Len(a[p]) : a[p][i] \in u => i = Len(a[p])
    /\ Ordered(a) /\ ~Full(a)

\* A fresh deal is ordered, its only face-up cards are the tops of the columns, and no foundation is full.
LEMMA Fresh ==
  ASSUME NEW d \in Deals, NEW a, a = Dealt(d), NEW u, u = {Last(a[p]) : p \in ColumnSet}
  PROVE  FreshDeal(a, u)
  <1>1. a \in Tables /\ Once(a) /\ All(a)
    BY DealtShares, DealtWhole
  <1>2. \A p \in Suits \cup {"waste", "hand", "flight"} : a[p] = <<>> /\ Len(a[p]) = 0
    BY Names DEF Dealt
  <1>3. "stock" \in Places /\ "stock" \notin ColumnSet /\ Len(a["stock"]) = Share("stock")
    BY DealtShares, Names
  <1>4. \A p \in ColumnSet : p \in Places /\ Len(a[p]) \in 1 .. Len(Columns) /\ Last(a[p]) \in u
    BY DealtShares, ColumnIndices, Names DEF Share
  <1>5. \A p \in ColumnSet : /\ DOMAIN a[p] = 1 .. Len(a[p]) /\ Len(a[p]) \in 1 .. Len(a[p])
                             /\ Last(a[p]) = a[p][Len(a[p])] /\ Last(a[p]) \in Deck
    BY <1>1, <1>4, PileType DEF Last
  <1>6. u \subseteq Deck
    BY <1>5
  <1>7. ASSUME NEW p \in ColumnSet, NEW i \in 1 .. Len(a[p]), a[p][i] \in u PROVE i = Len(a[p])
    <2>1. PICK q \in ColumnSet : a[p][i] = a[q][Len(a[q])]
      BY <1>5, <1>7
    <2>2. p \in Places /\ q \in Places /\ i \in DOMAIN a[p] /\ Len(a[q]) \in DOMAIN a[q]
      BY <1>4, <1>5
    <2> QED BY <1>1, <2>1, <2>2 DEF Once
  <1>8. Ordered(a)
    <2>1. \A s \in Suits : DOMAIN a[s] = {}
      BY <1>1, <1>2, PileType, Names
    <2> QED BY <2>1 DEF Ordered
  <1>9. ~Full(a)
    BY <1>1, <1>2, <1>8, FullMeans, NamesAssumption
  <1> QED BY <1>1, <1>2, <1>3, <1>4, <1>6, <1>7, <1>8, <1>9 DEF Share, FreshDeal

\* Reverse counts from the other end.
LEMMA Reversed ==
  ASSUME NEW s \in Seq(Deck)
  PROVE  /\ Reverse(s) \in Seq(Deck) /\ Len(Reverse(s)) = Len(s)
         /\ \A i \in 1 .. Len(s) : Reverse(s)[i] = s[Len(s) - i + 1]
  BY DEF Reverse

\* b is a with the waste gone back to the empty stock, upside down.
Returned(a, b) ==
    /\ b \in Tables
    /\ \A p \in Places : p # "stock" /\ p # "waste" => b[p] = a[p]
    /\ Len(a["stock"]) = 0 /\ Len(b["waste"]) = 0 /\ Len(b["stock"]) = Len(a["waste"])
    /\ \A i \in 1 .. Len(a["waste"]) : b["stock"][i] = a["waste"][Len(a["waste"]) - i + 1]

\* Turning the waste over gives the stock back in order, and nothing else moves.
LEMMA RecycleReturns ==
  ASSUME NEW a \in Tables, a["stock"] = <<>>
  PROVE  Returned(a, [a EXCEPT !["stock"] = Reverse(a["waste"]), !["waste"] = <<>>])
  <1> DEFINE r == Reverse(a["waste"])
             b == [a EXCEPT !["stock"] = r, !["waste"] = <<>>]
  <1>1. "stock" \in Places /\ "waste" \in Places /\ a["waste"] \in Seq(Deck)
    BY PileType, Names
  <1>2. /\ r \in Seq(Deck) /\ Len(r) = Len(a["waste"])
        /\ \A i \in 1 .. Len(a["waste"]) : r[i] = a["waste"][Len(a["waste"]) - i + 1]
    BY <1>1, Reversed
  <1> HIDE DEF r
  <1>3. /\ b["stock"] = r /\ b["waste"] = <<>> /\ b = [p \in Places |-> b[p]]
        /\ \A p \in Places : p # "stock" /\ p # "waste" => b[p] = a[p]
    BY <1>1 DEF Tables
  <1> HIDE DEF b
  <1>4. b \in Tables
    <2>1. ASSUME NEW p \in Places PROVE b[p] \in Seq(Deck)
      <3>1. CASE p = "stock"
        BY <1>2, <1>3, <3>1
      <3>2. CASE p = "waste"
        <4>1. <<>> \in Seq(Deck)
          BY EmptySeq
        <4> QED BY <1>3, <3>2, <4>1
      <3>3. CASE p # "stock" /\ p # "waste"
        BY <1>3, <3>3, PileType
      <3> QED BY <3>1, <3>2, <3>3
    <2> QED BY <1>3, <2>1 DEF Tables
  <1>5. Len(a["stock"]) = 0 /\ Len(b["waste"]) = 0
    BY <1>1, <1>3, <1>4, PileType
  <1>6. Returned(a, b)
    BY <1>2, <1>3, <1>4, <1>5 DEF Returned
  <1> QED BY <1>6 DEF b, r

\* So no card is lost or repeated.
LEMMA ReturnedWhole ==
  ASSUME NEW a \in Tables, NEW b, Returned(a, b), Once(a), All(a)
  PROVE  Once(b) /\ All(b)
  <1> DEFINE n == Len(a["waste"])
  <1>1. /\ "stock" \in Places /\ "waste" \in Places /\ n \in Nat /\ b \in Tables
        /\ DOMAIN a["waste"] = 1 .. n /\ DOMAIN a["stock"] = 1 .. 0
        /\ DOMAIN b["stock"] = 1 .. n /\ DOMAIN b["waste"] = 1 .. 0
    BY PileType, Names DEF Returned
  <1>2. /\ \A p \in Places : p # "stock" /\ p # "waste" => b[p] = a[p]
        /\ \A i \in 1 .. n : b["stock"][i] = a["waste"][n - i + 1]
    BY DEF Returned
  <1> HIDE DEF n
  <1> DEFINE Home(p) == IF p = "stock" THEN "waste" ELSE p
             Index(p, i) == IF p = "stock" THEN n - i + 1 ELSE i
  <1>3. ASSUME NEW p \in Places, NEW i \in DOMAIN b[p]
        PROVE  /\ Home(p) \in Places /\ Index(p, i) \in DOMAIN a[Home(p)]
               /\ b[p][i] = a[Home(p)][Index(p, i)] /\ p # "waste"
    <2>1. CASE p = "stock"
      <3>1. i \in 1 .. n /\ n - i + 1 \in 1 .. n
        BY <1>1, <2>1
      <3> QED BY <1>1, <1>2, <2>1, <3>1
    <2>2. CASE p = "waste"
      BY <1>1, <2>2
    <2>3. CASE p # "stock" /\ p # "waste"
      BY <1>2, <2>3
    <2> QED BY <2>1, <2>2, <2>3
  <1>4. ASSUME NEW p \in Places, NEW i \in DOMAIN b[p], NEW q \in Places, NEW j \in DOMAIN b[q],
               Home(p) = Home(q), Index(p, i) = Index(q, j), p # "waste", q # "waste"
        PROVE  p = q /\ i = j
    <2>1. p = q
      BY <1>4
    <2>2. CASE p = "stock"
      BY <1>1, <1>4, <2>1, <2>2
    <2>3. CASE p # "stock"
      BY <1>4, <2>1, <2>3
    <2> QED BY <2>1, <2>2, <2>3
  <1> HIDE DEF Home, Index
  <1>5. ASSUME NEW p \in Places, NEW q \in Places, NEW i \in DOMAIN b[p], NEW j \in DOMAIN b[q],
               b[p][i] = b[q][j]
        PROVE  p = q /\ i = j
    BY <1>3, <1>4, <1>5 DEF Once
  <1>6. ASSUME NEW c \in Deck PROVE \E p \in Places : \E i \in DOMAIN b[p] : b[p][i] = c
    <2>1. PICK p \in Places : \E i \in DOMAIN a[p] : a[p][i] = c
      BY DEF All
    <2>2. PICK i \in DOMAIN a[p] : a[p][i] = c
      BY <2>1
    <2>3. CASE p = "waste"
      <3> DEFINE j == n - i + 1
      <3>1. j \in 1 .. n /\ n - j + 1 = i
        BY <1>1, <2>3
      <3> HIDE DEF j
      <3>2. b["stock"][j] = c /\ j \in DOMAIN b["stock"]
        BY <1>1, <1>2, <2>2, <2>3, <3>1
      <3> QED BY <1>1, <3>2
    <2>4. CASE p # "waste"
      <3>1. p # "stock"
        BY <1>1, <2>2
      <3> QED BY <1>2, <2>2, <2>4, <3>1
    <2> QED BY <2>3, <2>4
  <1>7. Once(b)
    BY <1>5 DEF Once
  <1>8. All(b)
    BY <1>6 DEF All
  <1> QED BY <1>7, <1>8

-----------------------------------------------------------------------------
(* Runs, and the sizes of the arrays *)

\* A run is no longer than its suit: the values go down one by one.
LEMMA RunLength ==
  ASSUME NEW s \in Seq(Deck), IsRun(s)
  PROVE  Len(s) <= King
  <1> SUFFICES ASSUME Len(s) # 0 PROVE Len(s) <= King
    BY NamesAssumption
  <1> DEFINE m == Len(s) - 1
             S == {k \in 0 .. m : Value(s[k + 1]) = Value(s[1]) - k}
  <1>1. /\ m \in Nat /\ Len(s) = m + 1 /\ King \in Nat
        /\ \A i \in 1 .. m + 1 : Value(s[i]) \in 1 .. King
    <2>1. \A i \in 1 .. Len(s) : s[i] \in Deck
      OBVIOUS
    <2>2. Len(s) \in Nat
      OBVIOUS
    <2> QED BY <2>1, <2>2, DeckFinite, NamesAssumption
  <1>2. \A i \in 1 .. m : Value(s[i + 1]) = Value(s[i]) - 1
    BY DEF IsRun
  <1> HIDE DEF m
  <1>3. 0 \in S
    BY <1>1
  <1>4. ASSUME NEW k \in 0 .. m - 1, k \in S PROVE k + 1 \in S
    <2>1. k + 1 \in 1 .. m /\ k \in Nat /\ 1 \in 1 .. m + 1 /\ k + 1 \in 0 .. m
      BY <1>1
    <2>2. Value(s[(k + 1) + 1]) = Value(s[k + 1]) - 1
      BY <1>2, <2>1
    <2> QED BY <1>1, <1>4, <2>1, <2>2
  <1>5. m \in S
    <2>1. m \in 0 .. m
      BY <1>1
    <2>2. 0 .. m \subseteq S
      <3> HIDE DEF S
      <3> QED BY <1>1, <1>3, <1>4, UpTo
    <2> QED BY <2>1, <2>2
  <1>6. Value(s[m + 1]) = Value(s[1]) - m /\ Value(s[m + 1]) \in 1 .. King /\ Value(s[1]) \in 1 .. King
    <2>1. 1 \in 1 .. m + 1 /\ m + 1 \in 1 .. m + 1
      BY <1>1
    <2> QED BY <1>1, <1>5, <2>1
  <1> QED BY <1>1, <1>6

\* One column: on a card face up lies the next of its run (ColumnRuns).
RunIn(s, u) ==
    \A i \in 1 .. Len(s) :
        IF s[i] \in u THEN i < Len(s) => s[i + 1] \in u /\ Follows(s[i], s[i + 1])
        ELSE i < Len(Columns)

\* Dealt columns are in order.
LEMMA FreshRuns ==
  ASSUME NEW a, NEW u, FreshDeal(a, u), NEW p \in ColumnSet
  PROVE  RunIn(a[p], u)
  <1>1. /\ Len(a[p]) \in 1 .. Len(Columns) /\ a[p][Len(a[p])] \in u
        /\ \A i \in 1 .. Len(a[p]) : a[p][i] \in u => i = Len(a[p])
    BY DEF FreshDeal, Last
  <1>2. Len(Columns) \in Nat
    BY DealtCounts
  <1>3. ASSUME NEW i \in 1 .. Len(a[p]), a[p][i] \notin u PROVE i < Len(Columns)
    BY <1>1, <1>2, <1>3
  <1>4. ASSUME NEW i \in 1 .. Len(a[p]), a[p][i] \in u PROVE ~(i < Len(a[p]))
    BY <1>1, <1>2, <1>4
  <1> QED BY <1>3, <1>4 DEF RunIn

\* Such a column is some cards face down and a run on them.
LEMMA ColumnShape ==
  ASSUME NEW s \in Seq(Deck), NEW u, RunIn(s, u)
  PROVE  \E k \in 0 .. Len(s) : /\ \A i \in 1 .. Len(s) : s[i] \in u <=> i > k
                                /\ IsRun(SubSeq(s, k + 1, Len(s)))
                                /\ k = 0 \/ k < Len(Columns)
  <1> DEFINE T == {i \in Nat : i \in 1 .. Len(s) /\ s[i] \in u} \cup {Len(s) + 1}
  <1>1. T \in SUBSET Nat /\ T # {} /\ Len(s) \in Nat
    OBVIOUS
  <1>2. PICK m \in T : \A i \in T : m <= i
    <2> HIDE DEF T
    <2> QED BY <1>1, LeastNat
  <1> DEFINE k == m - 1
  <1>3. m \in Nat /\ m >= 1 /\ m <= Len(s) + 1 /\ k \in 0 .. Len(s) /\ m = k + 1
    BY <1>1, <1>2
  <1>4. ASSUME NEW i \in 1 .. Len(s), s[i] \in u PROVE i > k
    <2>1. i \in T
      BY <1>4
    <2> QED BY <1>1, <1>2, <1>3, <2>1
  <1>5. ASSUME NEW i \in 1 .. Len(s), i > k PROVE s[i] \in u
    <2> DEFINE n == Len(s) - m
               S == {j \in 0 .. n : s[m + j] \in u}
    <2>1. n \in Nat /\ i - m \in 0 .. n /\ m + (i - m) = i /\ m \in 1 .. Len(s)
      BY <1>1, <1>3, <1>5
    <2>2. 0 \in S
      BY <1>2, <1>3, <2>1
    <2>3. ASSUME NEW j \in 0 .. n - 1, j \in S PROVE j + 1 \in S
      <3>1. m + j \in 1 .. Len(s) /\ m + j < Len(s) /\ (m + j) + 1 = m + (j + 1) /\ j + 1 \in 0 .. n
        BY <1>3, <2>1
      <3> QED BY <2>3, <3>1 DEF RunIn
    <2>4. 0 .. n \subseteq S
      <3> HIDE DEF S, n
      <3> QED BY <2>1, <2>2, <2>3, UpTo
    <2> QED BY <2>1, <2>4
  <1>6. IsRun(SubSeq(s, k + 1, Len(s)))
    <2> DEFINE r == SubSeq(s, k + 1, Len(s))
    <2>1. /\ Len(r) = Len(s) - k
          /\ \A i \in 1 .. Len(s) - k : r[i] = s[k + i]
      BY <1>3, SliceAbove
    <2> HIDE DEF r
    <2> SUFFICES ASSUME NEW i \in 1 .. Len(r) - 1
                 PROVE  OppositeColours(r[i], r[i + 1]) /\ Value(r[i + 1]) = Value(r[i]) - 1
      BY DEF IsRun, r
    <2>2. /\ i \in 1 .. Len(s) - k /\ i + 1 \in 1 .. Len(s) - k /\ k + (i + 1) = (k + i) + 1
          /\ k + i \in 1 .. Len(s) /\ k + i > k /\ k + i < Len(s)
      BY <1>1, <1>3, <2>1
    <2>3. Follows(s[k + i], s[(k + i) + 1])
      BY <1>5, <2>2 DEF RunIn
    <2> QED BY <2>1, <2>2, <2>3 DEF Follows
  <1>7. k = 0 \/ k < Len(Columns)
    <2> SUFFICES ASSUME k # 0 PROVE k < Len(Columns)
      OBVIOUS
    <2>1. k \in 1 .. Len(s) /\ ~(k > k)
      BY <1>3
    <2>2. s[k] \notin u
      BY <1>4, <2>1
    <2> QED BY <2>1, <2>2 DEF RunIn
  <1> HIDE DEF T
  <1>8. \A i \in 1 .. Len(s) : s[i] \in u <=> i > k
    BY <1>4, <1>5
  <1> QED BY <1>3, <1>6, <1>7, <1>8

\* Every pile fits its array, and what is dragged fits the hand.
LEMMA SizesFit ==
  ASSUME NEW a \in Tables, NEW u, Ordered(a), \A p \in ColumnSet : RunIn(a[p], u),
         Len(a["stock"]) + Len(a["waste"]) <= DeckSize - DealtBefore(Len(Columns) + 1),
         IsRun(a["hand"])
  PROVE  /\ \A p \in Piles : Len(a[p]) <= PileCells
         /\ Len(a["hand"]) <= DragCells
  <1>1. ASSUME NEW p \in ColumnSet PROVE Len(a[p]) <= PileCells
    <2> DEFINE s == a[p]
    <2>1. s \in Seq(Deck) /\ Len(s) \in Nat /\ Len(Columns) \in Nat /\ King \in Nat
      BY PileType, Names, NamesAssumption
    <2>2. RunIn(s, u)
      OBVIOUS
    <2> HIDE DEF s
    <2>3. PICK k \in 0 .. Len(s) : /\ IsRun(SubSeq(s, k + 1, Len(s)))
                                   /\ k = 0 \/ k < Len(Columns)
      BY <2>1, <2>2, ColumnShape
    <2>4. SubSeq(s, k + 1, Len(s)) \in Seq(Deck) /\ Len(SubSeq(s, k + 1, Len(s))) = Len(s) - k
      BY <2>1, SliceAbove
    <2>5. Len(s) - k <= King
      BY <2>3, <2>4, RunLength
    <2>6. Len(Columns) - 1 + King <= PileCells /\ King <= PileCells
      BY RoomAssumption
    <2>7. Len(s) <= PileCells
      <3>1. CASE k = 0
        BY <2>1, <2>5, <2>6, <3>1, NamesAssumption
      <3>2. CASE k < Len(Columns)
        BY <2>1, <2>5, <2>6, <3>2, NamesAssumption
      <3> QED BY <2>3, <3>1, <3>2
    <2> QED BY <2>7 DEF s
  <1>2. ASSUME NEW p \in Suits PROVE Len(a[p]) <= PileCells
    BY FoundationHeight, RoomAssumption, NamesAssumption
  <1>3. Len(a["stock"]) \in Nat /\ Len(a["waste"]) \in Nat
    BY PileType, Names
  <1>4. Len(a["stock"]) <= PileCells /\ Len(a["waste"]) <= PileCells
    <2>1. /\ DeckSize - DealtBefore(Len(Columns) + 1) <= PileCells
          /\ DealtBefore(Len(Columns) + 1) \in Nat /\ DeckSize \in Nat /\ PileCells \in Nat
      BY RoomAssumption, DealtCounts, DeckFinite, NamesAssumption
    <2> DEFINE x == Len(a["stock"])
               y == Len(a["waste"])
               z == DealtBefore(Len(Columns) + 1)
    <2>2. x \in Nat /\ y \in Nat /\ x + y <= DeckSize - z /\ DeckSize - z <= PileCells /\ z \in Nat
      BY <1>3, <2>1
    <2> HIDE DEF x, y, z
    <2>3. x <= PileCells /\ y <= PileCells
      BY <2>1, <2>2
    <2> QED BY <2>3 DEF x, y
  <1>5. a["hand"] \in Seq(Deck)
    BY PileType, Names
  <1>6. Len(a["hand"]) <= DragCells
    BY <1>5, RunLength, RoomAssumption, NamesAssumption
  <1> QED BY <1>1, <1>2, <1>4, <1>6 DEF Piles

-----------------------------------------------------------------------------
(* Columns that change *)

\* Fewer cards, or the same cards seen by others, keep a column in order.
LEMMA RunCut ==
  ASSUME NEW s \in Seq(Deck), NEW t \in Seq(Deck), NEW u, NEW v, RunIn(s, u), Len(t) <= Len(s),
         \A i \in 1 .. Len(t) : t[i] = s[i] /\ (t[i] \in v <=> t[i] \in u)
  PROVE  RunIn(t, v)
  <1> SUFFICES ASSUME NEW i \in 1 .. Len(t)
               PROVE  IF t[i] \in v THEN i < Len(t) => t[i + 1] \in v /\ Follows(t[i], t[i + 1])
                      ELSE i < Len(Columns)
    BY DEF RunIn
  <1>1. i \in 1 .. Len(s) /\ (i < Len(t) => i < Len(s) /\ i + 1 \in 1 .. Len(t))
    OBVIOUS
  <1> QED BY <1>1 DEF RunIn

\* So does a top card that is turned.
LEMMA RunTurn ==
  ASSUME NEW s \in Seq(Deck), NEW u, NEW x, RunIn(s, u),
         \A i \in 1 .. Len(s) : s[i] = x => i = Len(s)
  PROVE  RunIn(s, u \cup {x})
  <1> SUFFICES ASSUME NEW i \in 1 .. Len(s)
               PROVE  IF s[i] \in u \cup {x}
                      THEN i < Len(s) => s[i + 1] \in u \cup {x} /\ Follows(s[i], s[i + 1])
                      ELSE i < Len(Columns)
    BY DEF RunIn
  <1> QED BY DEF RunIn

\* And a run that is laid on it, if it follows the top card or that one is face down.
LEMMA RunJoin ==
  ASSUME NEW s \in Seq(Deck), NEW h \in Seq(Deck), NEW t \in Seq(Deck), NEW u,
         RunIn(s, u), IsRun(h), \A i \in 1 .. Len(h) : h[i] \in u,
         h # <<>>, s # <<>> => (Last(s) \in u => Follows(Last(s), h[1])),
         Len(t) = Len(s) + Len(h), \A i \in 1 .. Len(s) : t[i] = s[i],
         \A i \in 1 .. Len(h) : t[Len(s) + i] = h[i]
  PROVE  RunIn(t, u)
  <1> SUFFICES ASSUME NEW i \in 1 .. Len(t)
               PROVE  IF t[i] \in u THEN i < Len(t) => t[i + 1] \in u /\ Follows(t[i], t[i + 1])
                      ELSE i < Len(Columns)
    BY DEF RunIn
  <1>1. Len(s) \in Nat /\ Len(h) \in Nat \ {0}
    BY EmptySeq
  <1>2. CASE i < Len(s)
    <2>1. i \in 1 .. Len(s) /\ i + 1 \in 1 .. Len(s)
      BY <1>1, <1>2
    <2> QED BY <1>2, <2>1 DEF RunIn
  <1>3. CASE i = Len(s)
    <2>1. i \in 1 .. Len(s) /\ 1 \in 1 .. Len(h) /\ s # <<>> /\ ~(i < Len(s))
      BY <1>1, <1>3, EmptySeq
    <2>2. t[i + 1] = h[1] /\ h[1] \in u /\ t[i] = Last(s)
      BY <1>3, <2>1 DEF Last
    <2>3. Last(s) \notin u => i < Len(Columns)
      BY <1>3, <2>1 DEF RunIn, Last
    <2> QED BY <2>1, <2>2, <2>3
  <1>4. CASE i > Len(s)
    <2> DEFINE j == i - Len(s)
    <2>1. j \in 1 .. Len(h) /\ i = Len(s) + j /\ i + 1 = Len(s) + (j + 1)
          /\ (i < Len(t) => j \in 1 .. Len(h) - 1 /\ j + 1 \in 1 .. Len(h))
      BY <1>1, <1>4
    <2> HIDE DEF j
    <2>2. t[i] = h[j] /\ t[i] \in u
      BY <2>1
    <2>3. i < Len(t) => t[i + 1] = h[j + 1] /\ h[j + 1] \in u /\ Follows(h[j], h[j + 1])
      BY <2>1 DEF IsRun, Follows
    <2> QED BY <2>2, <2>3
  <1> QED BY <1>1, <1>2, <1>3, <1>4

\* What canAutoFinishGame says of the piles it is asked about.
LEMMA CanFinish ==
  ASSUME NEW a \in Tables, Ordered(a), Once(a), NEW u, NEW w, CanAutoFinish(a, u, w)
  PROVE  /\ ~w /\ Finishable(a)
         /\ a["stock"] = <<>> /\ a["hand"] = <<>> /\ a["flight"] = <<>>
         /\ \A p \in ColumnSet : \A i \in 1 .. Len(a[p]) : a[p][i] \in u
  BY SimulationFinishes DEF CanAutoFinish

-----------------------------------------------------------------------------
(* Steps *)

\* The invariant of the piles, in the words of the lemmas above.
LEMMA SoundState ==
  ASSUME IInv, ~spoiled
  PROVE  /\ at \in Tables /\ Once(at) /\ All(at) /\ Ordered(at)
         /\ \A p \in ColumnSet : RunIn(at[p], up)
         /\ TypeOK /\ TopsUp /\ OthersUp /\ StockRoom /\ PressFits /\ DragReturns /\ FlightFits
         /\ AutoFinishes /\ WinNoticed /\ ArraysFit
  BY DEF IInv, Sound, TypeOK, Tables, NoCardTwice, Once, NoCardMissing, All, FoundationsOrdered,
         Ordered, ColumnRuns, RunIn

\* And back; the sizes follow.
LEMMA NextSound ==
  ASSUME at' \in Tables, Once(at'), All(at'), Ordered(at'), \A p \in ColumnSet : RunIn(at'[p], up'),
         TypeOK', TopsUp', OthersUp', StockRoom', PressFits', DragReturns', FlightFits',
         AutoFinishes', WinNoticed'
  PROVE  IInv'
  <1>1. /\ NoCardTwice' /\ NoCardMissing' /\ FoundationsOrdered' /\ ColumnRuns'
    BY DEF NoCardTwice, Once, NoCardMissing, All, FoundationsOrdered, Ordered, ColumnRuns, RunIn
  <1>2. Len(at'["stock"]) + Len(at'["waste"]) <= DeckSize - DealtBefore(Len(Columns) + 1)
    <2> DEFINE d == DeckSize - DealtBefore(Len(Columns) + 1)
               x == Len(at'["stock"])
               y == Len(at'["waste"])
    <2>1. x \in Nat /\ y \in Nat
      BY PileType, Names
    <2>2. d \in Nat
      BY StockShare
    <2>3. x + y + 1 <= d \/ x + y + 0 <= d
      BY DEF StockRoom
    <2> HIDE DEF d, x, y
    <2>4. x + y <= d
      BY <2>1, <2>2, <2>3
    <2> QED BY <2>4 DEF d, x, y
  <1>3. IsRun(at'["hand"])
    <2>1. CASE source' = None
      <3>1. at'["hand"] = <<>>
        BY <2>1 DEF TypeOK
      <3> QED BY <3>1 DEF IsRun
    <2>2. CASE source' # None
      BY <2>2 DEF DragReturns
    <2> QED BY <2>1, <2>2
  <1>4. ArraysFit'
    BY <1>2, <1>3, SizesFit DEF ArraysFit
  <1> QED BY <1>1, <1>4 DEF IInv, Sound

\* The first deal ...
LEMMA InitSound ==
  ASSUME Init
  PROVE  IInv
  <1>1. PICK d \in Deals : at = Dealt(d)
    BY DEF Init
  <1>2. /\ up = {Last(at[p]) : p \in ColumnSet}
        /\ held = FALSE /\ pressed = None /\ source = None /\ last = None
        /\ auto = FALSE /\ flight = None /\ won = FALSE /\ spoiled = FALSE
    BY DEF Init
  <1>3. /\ at \in Tables /\ Once(at) /\ All(at) /\ up \subseteq Deck /\ Ordered(at) /\ ~Full(at)
        /\ \A p \in Suits \cup {"waste", "hand", "flight"} : at[p] = <<>> /\ Len(at[p]) = 0
        /\ Len(at["stock"]) = DeckSize - DealtBefore(Len(Columns) + 1)
        /\ \A p \in ColumnSet : RunIn(at[p], up) /\ Last(at[p]) \in up
    <2>1. FreshDeal(at, up)
      BY <1>1, <1>2, Fresh
    <2> QED BY <2>1, FreshRuns DEF FreshDeal
  <1>4. None \notin ColumnSet /\ None # "waste" /\ DeckSize - DealtBefore(Len(Columns) + 1) \in Int
    BY Names, StockShare
  <1>5. TypeOK
    BY <1>2, <1>3 DEF TypeOK, Tables
  <1>6. TopsUp /\ OthersUp /\ StockRoom /\ PressFits
    BY <1>2, <1>3, <1>4 DEF TopsUp, OthersUp, StockRoom, PressFits
  <1>7. DragReturns /\ FlightFits /\ AutoFinishes /\ WinNoticed
    BY <1>2, <1>3 DEF DragReturns, FlightFits, AutoFinishes, WinNoticed
  <1>8. NoCardTwice /\ NoCardMissing /\ FoundationsOrdered /\ ColumnRuns
    BY <1>3 DEF NoCardTwice, Once, NoCardMissing, All, FoundationsOrdered, Ordered, ColumnRuns, RunIn
  <1>9. ArraysFit
    <2>1. IsRun(at["hand"])
      BY <1>3 DEF IsRun
    <2>2. Len(at["stock"]) + Len(at["waste"]) <= DeckSize - DealtBefore(Len(Columns) + 1)
      BY <1>3, <1>4
    <2> QED BY <1>3, <2>1, <2>2, SizesFit DEF ArraysFit
  <1> QED BY <1>5, <1>6, <1>7, <1>8, <1>9 DEF IInv, Sound

\* ... and every other one.
LEMMA NewGameSound ==
  ASSUME NewGame, spoiled' = FALSE, held \in BOOLEAN
  PROVE  IInv'
  <1>1. PICK d \in Deals : at' = Dealt(d)
    BY DEF NewGame
  <1>2. /\ up' = {Last(at'[p]) : p \in ColumnSet}
        /\ held' \in BOOLEAN /\ pressed' = None /\ source' = None /\ last' = None
        /\ auto' = FALSE /\ flight' = None /\ won' = FALSE
    BY DEF NewGame
  <1>3. /\ at' \in Tables /\ Once(at') /\ All(at') /\ up' \subseteq Deck /\ Ordered(at') /\ ~Full(at')
        /\ \A p \in Suits \cup {"waste", "hand", "flight"} : at'[p] = <<>> /\ Len(at'[p]) = 0
        /\ Len(at'["stock"]) = DeckSize - DealtBefore(Len(Columns) + 1)
        /\ \A p \in ColumnSet : RunIn(at'[p], up') /\ Last(at'[p]) \in up'
    <2>1. FreshDeal(at', up')
      BY <1>1, <1>2, Fresh
    <2> QED BY <2>1, FreshRuns DEF FreshDeal
  <1>4. None \notin ColumnSet /\ None # "waste" /\ DeckSize - DealtBefore(Len(Columns) + 1) \in Int
    BY Names, StockShare
  <1>5. TypeOK'
    BY <1>2, <1>3 DEF TypeOK, Tables
  <1>6. TopsUp' /\ OthersUp' /\ StockRoom' /\ PressFits'
    BY <1>2, <1>3, <1>4 DEF TopsUp, OthersUp, StockRoom, PressFits
  <1>7. DragReturns' /\ FlightFits' /\ AutoFinishes' /\ WinNoticed'
    BY <1>2, <1>3 DEF DragReturns, FlightFits, AutoFinishes, WinNoticed
  <1> QED BY <1>3, <1>5, <1>6, <1>7, NextSound

\* Steps that leave the piles alone.
LEMMA QuietSound ==
  ASSUME IInv, ~spoiled, UNCHANGED <<at, up, source, auto, flight, won, spoiled>>, held' \in BOOLEAN,
         last' = None \/ last' \in Piles \X Nat,
         pressed' = None \/ pressed' = pressed
             \/ (pressed' \in Presses /\ pressed'.index \in 1 .. Len(pressed'.cells)
                 /\ Len(pressed'.cells) <= PileCells)
  PROVE  IInv'
  <1>1. TypeOK' /\ PressFits'
    BY DEF IInv, Sound, TypeOK, PressFits
  <1>2. NoCardTwice' /\ NoCardMissing' /\ FoundationsOrdered' /\ ColumnRuns' /\ ArraysFit'
    BY DEF IInv, Sound, NoCardTwice, NoCardMissing, FoundationsOrdered, ColumnRuns, ArraysFit
  <1>4. TopsUp' /\ OthersUp' /\ StockRoom' /\ FlightFits' /\ WinNoticed'
    BY DEF IInv, Sound, TopsUp, OthersUp, StockRoom, FlightFits, WinNoticed
  <1>3. DragReturns' /\ AutoFinishes'
    BY DEF IInv, Sound, DragReturns, AutoFinishes
  <1> QED BY <1>1, <1>2, <1>3, <1>4 DEF IInv, Sound

\* b is a after a step of the stock: only stock and waste changed, and only the
\* cards in them were turned.
Restocked(a, b, u, v) ==
    /\ b \in Tables /\ Once(b) /\ All(b) /\ v \subseteq Deck
    /\ \A p \in Places : p # "stock" /\ p # "waste" => b[p] = a[p]
    /\ \A p \in Places : p # "stock" /\ p # "waste" =>
           \A i \in 1 .. Len(a[p]) : a[p][i] \in v <=> a[p][i] \in u
    /\ \A i \in 1 .. Len(b["waste"]) : b["waste"][i] \in v
    /\ Len(b["stock"]) + Len(b["waste"]) = Len(a["stock"]) + Len(a["waste"])

\* drawFromStock with cards in the stock ...
LEMMA DrawRestocks ==
  ASSUME NEW a \in Tables, Once(a), All(a), NEW u \in SUBSET Deck, a["stock"] # <<>>,
         \A i \in 1 .. Len(a["waste"]) : a["waste"][i] \in u,
         NEW b, b = Shift(a, "stock", "waste", 1), NEW v, v = u \cup {Last(a["stock"])}
  PROVE  Restocked(a, b, u, v)
  <1> DEFINE n == Len(a["stock"])
  <1>1. /\ "stock" \in Places /\ "waste" \in Places /\ n \in Nat \ {0} /\ 1 \in 0 .. n /\ n \in 1 .. n
        /\ a["stock"][n] \in Deck /\ DOMAIN a["stock"] = 1 .. n /\ Last(a["stock"]) = a["stock"][n]
    BY PileType, Names DEF Last
  <1>2. Moved(a, b, "stock", "waste", 1)
    BY <1>1, ShiftMoves
  <1>3. b \in Tables /\ Once(b) /\ All(b)
    <2>1. b \in Tables
      BY <1>2 DEF Moved
    <2>2. Once(b)
      BY <1>1, <1>2, MovedOnce
    <2>3. All(b)
      BY <1>1, <1>2, MovedAll
    <2> QED BY <2>1, <2>2, <2>3
  <1>4. \A p \in Places : p # "stock" /\ p # "waste" => b[p] = a[p]
    BY <1>2 DEF Moved
  <1>5. ASSUME NEW p \in Places, p # "stock", NEW i \in 1 .. Len(a[p]), a[p][i] = a["stock"][n]
        PROVE  FALSE
    BY <1>1, <1>5, PileType DEF Once
  <1>6. ASSUME NEW i \in 1 .. Len(b["waste"]) PROVE b["waste"][i] \in v
    <2>1. Len(a["waste"]) \in Nat /\ Len(b["waste"]) = Len(a["waste"]) + 1
      BY <1>1, <1>2, PileType DEF Moved
    <2>2. CASE i <= Len(a["waste"])
      <3>1. b["waste"][i] = a["waste"][i] /\ i \in 1 .. Len(a["waste"])
        BY <1>2, <2>1, <2>2 DEF Moved
      <3> QED BY <3>1
    <2>3. CASE i = Len(a["waste"]) + 1
      <3>1. b["waste"][Len(a["waste"]) + 1] = a["stock"][n - 1 + 1] /\ n - 1 + 1 = n
        BY <1>1, <1>2 DEF Moved
      <3> QED BY <1>1, <2>3, <3>1
    <2> QED BY <2>1, <2>2, <2>3
  <1>7. Len(b["stock"]) + Len(b["waste"]) = n + Len(a["waste"])
    <2> DEFINE m == Len(a["waste"])
               x == Len(b["stock"])
               y == Len(b["waste"])
    <2>1. n \in Nat /\ m \in Nat /\ y = m + 1 /\ x = n - 1
      BY <1>1, <1>2, PileType DEF Moved
    <2> HIDE DEF n, m, x, y
    <2>2. x + y = n + m
      BY <2>1
    <2> QED BY <2>2 DEF m, x, y
  <1>8. v \subseteq Deck
    BY <1>1
  <1> HIDE DEF n
  <1>9. \A p \in Places : p # "stock" /\ p # "waste" =>
           \A i \in 1 .. Len(a[p]) : a[p][i] \in v <=> a[p][i] \in u
    BY <1>1, <1>5
  <1> QED BY <1>3, <1>4, <1>6, <1>7, <1>8, <1>9 DEF Restocked, n

\* ... and without: the waste goes back, face down.
LEMMA RecycleRestocks ==
  ASSUME NEW a \in Tables, Once(a), All(a), NEW u \in SUBSET Deck, a["stock"] = <<>>,
         NEW b, b = [a EXCEPT !["stock"] = Reverse(a["waste"]), !["waste"] = <<>>],
         NEW v, v = u \ {a["waste"][i] : i \in DOMAIN a["waste"]}
  PROVE  Restocked(a, b, u, v)
  <1>1. "stock" \in Places /\ "waste" \in Places
    BY Names
  <1>2. Returned(a, b)
    BY RecycleReturns
  <1>3. Once(b) /\ All(b)
    BY <1>2, ReturnedWhole
  <1>4. /\ b \in Tables /\ \A p \in Places : p # "stock" /\ p # "waste" => b[p] = a[p]
        /\ Len(a["stock"]) = 0 /\ Len(b["waste"]) = 0 /\ Len(b["stock"]) = Len(a["waste"])
    BY <1>2 DEF Returned
  <1>5. ASSUME NEW p \in Places, p # "waste", NEW i \in 1 .. Len(a[p]), NEW j \in DOMAIN a["waste"],
               a[p][i] = a["waste"][j]
        PROVE  FALSE
    BY <1>1, <1>5, PileType DEF Once
  <1>6. \A p \in Places : p # "stock" /\ p # "waste" =>
           \A i \in 1 .. Len(a[p]) : a[p][i] \in v <=> a[p][i] \in u
    BY <1>5
  <1>7. Len(b["stock"]) + Len(b["waste"]) = Len(a["stock"]) + Len(a["waste"])
    <2> DEFINE n == Len(a["waste"])
               m == Len(a["stock"])
               x == Len(b["stock"])
               y == Len(b["waste"])
    <2>1. n \in Nat /\ m = 0 /\ y = 0 /\ x = n
      BY <1>1, <1>4, PileType
    <2> HIDE DEF n, m, x, y
    <2>2. x + y = m + n
      BY <2>1
    <2> QED BY <2>2 DEF n, m, x, y
  <1>8. \A i \in 1 .. Len(b["waste"]) : b["waste"][i] \in v
    BY <1>4
  <1> QED BY <1>3, <1>4, <1>6, <1>7, <1>8 DEF Restocked

\* A step of the stock, by key or by mouse.
LEMMA StockSound ==
  ASSUME IInv, ~spoiled, Idle, DrawOne \/ Recycle, UNCHANGED <<source, flight, won, spoiled>>,
         held' \in BOOLEAN, pressed' = None \/ pressed' = pressed, last' = None \/ last' = last
  PROVE  IInv'
  <1>1. /\ at \in Tables /\ Once(at) /\ All(at) /\ Ordered(at)
        /\ \A p \in ColumnSet : RunIn(at[p], up)
        /\ TypeOK /\ TopsUp /\ OthersUp /\ StockRoom /\ PressFits /\ DragReturns /\ FlightFits
        /\ WinNoticed
    BY SoundState
  <1>2. Restocked(at, at', up, up')
    <2>1. up \in SUBSET Deck
      BY <1>1 DEF TypeOK
    <2>2. CASE DrawOne
      <3>1. \A i \in 1 .. Len(at["waste"]) : at["waste"][i] \in up
        BY <1>1 DEF OthersUp
      <3> QED BY <1>1, <2>1, <2>2, <3>1, DrawRestocks DEF DrawOne
    <2>3. CASE Recycle
      BY <1>1, <2>1, <2>3, RecycleRestocks DEF Recycle
    <2> QED BY <2>2, <2>3
  <1>3. at' \in Tables /\ Once(at') /\ All(at') /\ up' \subseteq Deck
    BY <1>2 DEF Restocked
  <1>4. \A p \in Suits \cup ColumnSet \cup {"hand", "flight"} :
           at'[p] = at[p] /\ \A i \in 1 .. Len(at[p]) : at[p][i] \in up' <=> at[p][i] \in up
    BY <1>2, Names DEF Restocked
  <1>5. flight = None /\ ~auto /\ auto' = CanAutoFinish(at', up', won)
    <2>1. auto' = Request(at', up', won)
      BY DEF DrawOne, Recycle
    <2>2. flight = None /\ auto = FALSE
      BY <1>1 DEF Idle, TypeOK
    <2>3. CanAutoFinish(at', up', won) \in BOOLEAN
      BY DEF CanAutoFinish
    <2> QED BY <2>1, <2>2, <2>3 DEF Request
  <1>6. Ordered(at')
    BY <1>1, <1>4 DEF Ordered
  <1>7. ASSUME NEW p \in ColumnSet PROVE RunIn(at'[p], up')
    BY <1>1, <1>4 DEF RunIn
  <1>8. TypeOK'
    <2>1. source' = None => at'["hand"] = <<>>
      BY <1>1, <1>4 DEF TypeOK
    <2>2. auto' \in BOOLEAN
      BY <1>5 DEF CanAutoFinish
    <2>3. Len(at'["flight"]) = IF flight' = None THEN 0 ELSE 1
      BY <1>1, <1>4 DEF TypeOK
    <2> QED BY <1>1, <1>3, <2>1, <2>2, <2>3 DEF TypeOK, Tables
  <1>9. TopsUp'
    <2> SUFFICES ASSUME NEW p \in ColumnSet, at'[p] # <<>>, p # source'
                 PROVE  Last(at'[p]) \in up'
      BY DEF TopsUp
    <2>1. at'[p] = at[p] /\ Last(at[p]) \in up
      BY <1>1, <1>4, <1>5 DEF TopsUp
    <2>2. Len(at[p]) \in 1 .. Len(at[p])
      BY <1>1, <2>1, PileType, Names
    <2> QED BY <1>4, <2>1, <2>2 DEF Last
  <1>10. OthersUp'
    <2> SUFFICES ASSUME NEW p \in Suits \cup {"waste", "hand", "flight"}, NEW i \in 1 .. Len(at'[p])
                 PROVE  at'[p][i] \in up'
      BY DEF OthersUp
    <2>1. CASE p = "waste"
      BY <1>2, <2>1 DEF Restocked
    <2>2. CASE p # "waste"
      BY <1>1, <1>4, <2>2 DEF OthersUp
    <2> QED BY <2>1, <2>2
  <1>11. StockRoom'
    <2>1. Len(at'["stock"]) + Len(at'["waste"]) = Len(at["stock"]) + Len(at["waste"])
      BY <1>2 DEF Restocked
    <2> QED BY <1>1, <2>1 DEF StockRoom
  <1>12. PressFits' /\ FlightFits'
    BY <1>1, <1>5 DEF PressFits, FlightFits
  <1>13. WinNoticed'
    <2>1. Full(at') <=> Full(at)
      BY <1>1, <1>3, <1>4, FullCounts
    <2> QED BY <1>1, <2>1 DEF WinNoticed
  <1>14. ASSUME source # None PROVE Full(Shift(at', "hand", source, Len(at'["hand"]))) => won
    <2> DEFINE n == Len(at["hand"])
               x == Shift(at, "hand", source, n)
               y == Shift(at', "hand", source, n)
    <2>1. /\ "hand" \in Places /\ source \in Places /\ source # "hand" /\ source # "stock"
          /\ at'["hand"] = at["hand"] /\ n \in 0 .. n
      BY <1>1, <1>4, <1>14, PileType, Names DEF TypeOK
    <2>2. Moved(at, x, "hand", source, n) /\ Moved(at', y, "hand", source, n)
      BY <1>1, <1>3, <2>1, ShiftMoves
    <2>3. Full(x) => won
      BY <1>1, <1>14 DEF DragReturns
    <2> HIDE DEF n, x, y
    <2>4. x \in Tables /\ y \in Tables
      BY <2>2 DEF Moved
    <2>5. ASSUME NEW s \in Suits PROVE Len(x[s]) = Len(y[s])
      <3>1. at'[s] = at[s] /\ s \in Places /\ s # "hand"
        BY <1>4, Names
      <3>2. CASE s = source
        BY <2>2, <3>1, <3>2 DEF Moved
      <3>3. CASE s # source
        BY <2>2, <3>1, <3>3 DEF Moved
      <3> QED BY <3>2, <3>3
    <2>6. Full(y) => won
      BY <2>3, <2>4, <2>5, FullCounts
    <2> QED BY <2>1, <2>6 DEF y, n
  <1>15. DragReturns'
    <2> SUFFICES ASSUME source # None PROVE DragReturns'
      BY DEF DragReturns
    <2>1. /\ source \in Piles \ {"stock"} /\ at'["hand"] = at["hand"]
          /\ source \in Suits \cup ColumnSet => at'[source] = at[source]
      BY <1>1, <1>4 DEF TypeOK
    <2>2. source \in ColumnSet /\ at[source] # <<>> =>
             (Last(at[source]) \in up' <=> Last(at[source]) \in up)
      <3> SUFFICES ASSUME source \in ColumnSet, at[source] # <<>>
                   PROVE  Last(at[source]) \in up' <=> Last(at[source]) \in up
        OBVIOUS
      <3>1. Len(at[source]) \in 1 .. Len(at[source])
        BY <1>1, PileType, Names
      <3> QED BY <1>4, <3>1 DEF Last
    <2> QED BY <1>1, <1>14, <2>1, <2>2 DEF DragReturns
  <1>16. AutoFinishes'
    <2> SUFFICES ASSUME auto' PROVE AutoFinishes'
      BY DEF AutoFinishes
    <2>1. CanAutoFinish(at', up', won)
      BY <1>5
    <2>2. /\ ~won /\ Finishable(at') /\ at'["stock"] = <<>> /\ at'["hand"] = <<>>
          /\ \A p \in ColumnSet : \A i \in 1 .. Len(at'[p]) : at'[p][i] \in up'
      BY <1>3, <1>6, <2>1, CanFinish
    <2>3. source = None
      BY <1>1, <1>4, <2>2 DEF DragReturns
    <2> QED BY <2>2, <2>3 DEF AutoFinishes
  <1> QED BY <1>3, <1>6, <1>7, <1>8, <1>9, <1>10, <1>11, <1>12, <1>13, <1>15, <1>16, NextSound

\* beginDrag takes the cards from i on into the empty hand.
Taken(a, b, p, i) ==
    /\ Moved(a, b, p, "hand", Len(a[p]) - i + 1)
    /\ Len(b["hand"]) = Len(a[p]) - i + 1
    /\ \A k \in 1 .. Len(a[p]) - i + 1 : b["hand"][k] = a[p][i - 1 + k]

\* Taking a run puts the cards from its place up in the hand, and leaves those under it.
LEMMA TakeMoves ==
  ASSUME NEW a \in Tables, NEW p \in Piles, a["hand"] = <<>>, NEW i \in 1 .. Len(a[p]),
         NEW w \in Seq(Deck),
         NEW b, b = [a EXCEPT !["hand"] = SubSeq(a[p], i, Len(a[p])),
                              ![p] = SubSeq(a[p] \o w, 1, i - 1)]
  PROVE  Taken(a, b, p, i)
  <1> DEFINE s == a[p]
             n == Len(a[p]) - i + 1
             h == SubSeq(s, i, Len(s))
             t == SubSeq(s \o w, 1, i - 1)
  <1>1. /\ p \in Places /\ "hand" \in Places /\ p # "hand" /\ s \in Seq(Deck) /\ Len(s) \in Nat
        /\ i \in 1 .. Len(s) /\ n = Len(s) - i + 1
    BY PileType, Names
  <1>2. /\ b["hand"] = h /\ b[p] = t /\ b = [q \in Places |-> b[q]]
        /\ \A q \in Places : q # p /\ q # "hand" => b[q] = a[q]
    BY <1>1 DEF Tables
  <1> HIDE DEF s, n
  <1>3. h \in Seq(Deck) /\ Len(h) = n /\ \A k \in 1 .. n : h[k] = s[i - 1 + k]
    <2>1. i - 1 \in 0 .. Len(s) /\ (i - 1) + 1 = i /\ Len(s) - (i - 1) = n
      BY <1>1
    <2> HIDE DEF h
    <2>2. h = SubSeq(s, (i - 1) + 1, Len(s))
      BY <2>1 DEF h
    <2> QED BY <1>1, <2>1, <2>2, SliceAbove
  <1>4. t \in Seq(Deck) /\ Len(t) = i - 1 /\ \A k \in 1 .. i - 1 : t[k] = s[k]
    <2>1. /\ s \o w \in Seq(Deck) /\ Len(s \o w) = Len(s) + Len(w) /\ Len(w) \in Nat
          /\ \A k \in 1 .. Len(s) : (s \o w)[k] = s[k]
      BY <1>1
    <2> DEFINE r == s \o w
    <2>2. t = SubSeq(r, 1, i - 1)
      OBVIOUS
    <2> HIDE DEF r, t
    <2>3. /\ r \in Seq(Deck) /\ i - 1 \in 0 .. Len(r) /\ i - 1 <= Len(s)
          /\ \A k \in 1 .. i - 1 : r[k] = s[k]
      BY <1>1, <2>1 DEF r
    <2> QED BY <2>2, <2>3
  <1> HIDE DEF h, t
  <1>5. b \in Tables
    <2>1. \A q \in Places : b[q] \in Seq(Deck)
      BY <1>2, <1>3, <1>4, PileType
    <2> QED BY <1>2, <2>1 DEF Tables
  <1>6. n \in Nat /\ Len(s) - n = i - 1
    BY <1>1
  <1>7. Len(b["hand"]) = n /\ \A k \in 1 .. n : b["hand"][k] = s[i - 1 + k]
    BY <1>2, <1>3
  <1>8. Len(a["hand"]) = 0
    BY <1>1, PileType
  <1>9. Moved(a, b, p, "hand", n)
    <2>1. Len(b[p]) = Len(s) - n /\ \A k \in 1 .. Len(s) - n : b[p][k] = s[k]
      BY <1>2, <1>4, <1>6
    <2>2. /\ Len(b["hand"]) = Len(a["hand"]) + n
          /\ \A k \in 1 .. Len(a["hand"]) : b["hand"][k] = a["hand"][k]
      BY <1>6, <1>7, <1>8
    <2>3. ASSUME NEW k \in 1 .. n PROVE b["hand"][Len(a["hand"]) + k] = s[Len(s) - n + k]
      <3>1. Len(a["hand"]) + k = k
        BY <1>6, <1>8
      <3>2. Len(s) - n + k = i - 1 + k
        BY <1>6
      <3> QED BY <1>7, <3>1, <3>2
    <2> QED BY <1>2, <1>5, <2>1, <2>2, <2>3 DEF Moved, s
  <1> QED BY <1>7, <1>9 DEF Taken, s, n

\* canDragFrom: a face-up run, of a single card if it does not come from a column.
LEMMA DragRuns ==
  ASSUME at \in Tables, OthersUp, NEW p \in Piles \ {"stock"}, NEW i \in 1 .. Len(at[p]),
         CanDragFrom(p, i)
  PROVE  /\ p \notin ColumnSet => i = Len(at[p])
         /\ \A k \in i .. Len(at[p]) : at[p][k] \in up
         /\ \A k \in i .. Len(at[p]) - 1 : Follows(at[p][k], at[p][k + 1])
  <1>1. p \in Places /\ at[p] \in Seq(Deck) /\ Len(at[p]) \in Nat
    BY PileType, Names
  <1>2. CASE p \notin ColumnSet
    <2>1. i = Len(at[p]) /\ p \in Suits \cup {"waste"}
      BY <1>2 DEF CanDragFrom, Piles
    <2>2. at[p][i] \in up
      BY <2>1 DEF OthersUp
    <2> QED BY <1>1, <2>1, <2>2
  <1>3. CASE p \in ColumnSet
    <2> DEFINE s == at[p]
               h == SubSeq(s, i, Len(s))
    <2>1. ~(i > Len(s))
      BY <1>1
    <2>2. IsRun(h) /\ \A k \in 1 .. Len(h) : h[k] \in up
      BY <1>3, <2>1 DEF CanDragFrom
    <2>3. s \in Seq(Deck) /\ i \in 1 .. Len(s) /\ Len(s) \in Nat
      BY <1>1
    <2> HIDE DEF s
    <2>4. i - 1 \in 0 .. Len(s) /\ (i - 1) + 1 = i
      BY <2>3
    <2>5. Len(h) = Len(s) - (i - 1) /\ \A k \in 1 .. Len(s) - (i - 1) : h[k] = s[(i - 1) + k]
      <3> HIDE DEF h
      <3>1. h = SubSeq(s, (i - 1) + 1, Len(s))
        BY <2>4 DEF h
      <3> QED BY <2>3, <2>4, <3>1, SliceAbove
    <2> HIDE DEF h
    <2>6. ASSUME NEW k \in i .. Len(s)
          PROVE  s[k] \in up /\ (k < Len(s) => Follows(s[k], s[k + 1]))
      <3>1. /\ k - (i - 1) \in 1 .. Len(s) - (i - 1) /\ (i - 1) + (k - (i - 1)) = k
            /\ k < Len(s) => k - (i - 1) \in 1 .. Len(h) - 1
        BY <2>3, <2>5
      <3>2. h[k - (i - 1)] = s[k] /\ h[k - (i - 1)] \in up
        BY <2>2, <2>5, <3>1
      <3>3. CASE k < Len(s)
        <4>1. /\ (k - (i - 1)) + 1 \in 1 .. Len(s) - (i - 1)
              /\ (i - 1) + ((k - (i - 1)) + 1) = k + 1
          BY <2>3, <2>5, <3>3
        <4>2. h[(k - (i - 1)) + 1] = s[k + 1]
          BY <2>5, <4>1
        <4>3. Follows(h[k - (i - 1)], h[(k - (i - 1)) + 1])
          BY <2>2, <3>1, <3>3 DEF IsRun, Follows
        <4> QED BY <3>2, <4>2, <4>3
      <3> QED BY <3>2, <3>3
    <2>7. \A k \in i .. Len(s) - 1 : k \in i .. Len(s) /\ k < Len(s)
      BY <2>3
    <2> QED BY <1>3, <2>6, <2>7 DEF s
  <1> QED BY <1>2, <1>3

\* A drag begins.
LEMMA BeginDragSound ==
  ASSUME IInv, ~spoiled, BeginDrag, ~TakesNothing, UNCHANGED spoiled
  PROVE  IInv'
  <1> DEFINE p == pressed.pile
             i == pressed.index
             n == Len(at[p]) - i + 1
             w == SubSeq(pressed.cells, Len(at[p]) + 1, Len(pressed.cells))
  <1>1. /\ at \in Tables /\ Once(at) /\ All(at) /\ Ordered(at)
        /\ \A q \in ColumnSet : RunIn(at[q], up)
        /\ TypeOK /\ TopsUp /\ OthersUp /\ StockRoom /\ WinNoticed
    BY SoundState
  <1>2. /\ p \in Piles \ {"stock"} /\ i \in Nat \ {0} /\ pressed.cells \in Seq(Deck)
        /\ i \in 1 .. Len(pressed.cells)
    BY <1>1 DEF BeginDrag, TypeOK, Presses
  <1>3. p \in Places /\ Len(at[p]) \in Nat /\ i \in 1 .. Len(at[p])
    <2>1. p \in Places /\ Len(at[p]) \in Nat
      BY <1>1, <1>2, PileType, Names
    <2>2. ~(i > Len(at[p]))
      BY DEF TakesNothing
    <2> QED BY <1>2, <2>1, <2>2
  <1>4. w \in Seq(Deck)
    BY <1>2, <1>3
  <1>5. /\ source = None /\ auto = FALSE /\ flight = None /\ at["hand"] = <<>> /\ CanDragFrom(p, i)
        /\ at' = [at EXCEPT !["hand"] = SubSeq(at[p], i, Len(at[p])),
                            ![p] = SubSeq(at[p] \o w, 1, i - 1)]
        /\ source' = p /\ pressed' = None /\ last' = None
        /\ UNCHANGED <<up, held, auto, flight, won>>
    BY <1>1 DEF BeginDrag, Idle, TypeOK
  <1> HIDE DEF p, i, w
  <1>6. /\ Moved(at, at', p, "hand", n)
        /\ Len(at'["hand"]) = n
        /\ \A k \in 1 .. n : at'["hand"][k] = at[p][i - 1 + k]
    <2>1. p \in Piles /\ at["hand"] = <<>> /\ at \in Tables
      BY <1>1, <1>2, <1>5
    <2>2. at' = [at EXCEPT !["hand"] = SubSeq(at[p], i, Len(at[p])),
                           ![p] = SubSeq(at[p] \o w, 1, i - 1)]
      BY <1>5
    <2>3. Taken(at, at', p, i)
      BY <1>3, <1>4, <2>1, <2>2, TakeMoves
    <2> QED BY <2>3 DEF Taken
  <1>7. /\ n \in Nat \ {0} /\ n \in 0 .. Len(at[p]) /\ Len(at[p]) - n = i - 1
        /\ p # "hand" /\ "hand" \in Places
    BY <1>2, <1>3, Names
  <1>8. /\ p \notin ColumnSet => i = Len(at[p])
        /\ \A k \in i .. Len(at[p]) : at[p][k] \in up
        /\ \A k \in i .. Len(at[p]) - 1 : Follows(at[p][k], at[p][k + 1])
    <2>1. at \in Tables /\ OthersUp /\ p \in Piles \ {"stock"} /\ CanDragFrom(p, i)
      BY <1>1, <1>2, <1>5
    <2> QED BY <1>3, <2>1, DragRuns
  <1>9. at' \in Tables /\ Once(at') /\ All(at')
    <2>1. at' \in Tables
      BY <1>6 DEF Moved
    <2>2. at \in Tables /\ Once(at) /\ All(at) /\ Moved(at, at', p, "hand", n)
      BY <1>1, <1>6
    <2> HIDE DEF n
    <2>3. Once(at')
      BY <1>3, <1>7, <2>2, MovedOnce
    <2>4. All(at')
      BY <1>3, <1>7, <2>2, MovedAll
    <2> QED BY <2>1, <2>3, <2>4
  <1>10. /\ \A q \in Places : q # p /\ q # "hand" => at'[q] = at[q]
         /\ Len(at'[p]) = i - 1 /\ \A k \in 1 .. i - 1 : at'[p][k] = at[p][k]
    BY <1>6, <1>7 DEF Moved
  <1> HIDE DEF n
  <1>11. \A k \in 1 .. n : i - 1 + k \in i .. Len(at[p])
    BY <1>3, <1>7
  <1>12. IsRun(at'["hand"]) /\ \A k \in 1 .. n : at'["hand"][k] \in up
    <2>1. \A k \in 1 .. n : at'["hand"][k] \in up
      BY <1>6, <1>8, <1>11
    <2>2. ASSUME NEW k \in 1 .. n - 1 PROVE Follows(at'["hand"][k], at'["hand"][k + 1])
      <3>1. /\ k \in 1 .. n /\ k + 1 \in 1 .. n /\ i - 1 + k \in i .. Len(at[p]) - 1
            /\ i - 1 + (k + 1) = (i - 1 + k) + 1
        BY <1>3, <1>7
      <3>2. at'["hand"][k] = at[p][i - 1 + k] /\ at'["hand"][k + 1] = at[p][(i - 1 + k) + 1]
        BY <1>6, <3>1
      <3> QED BY <1>8, <3>1, <3>2
    <2> QED BY <1>6, <2>1, <2>2 DEF IsRun, Follows
  <1>13. ASSUME NEW q \in Piles
         PROVE  /\ Len(at'[q]) \in Nat /\ Len(at[q]) \in Nat /\ Len(at'[q]) <= Len(at[q])
                /\ \A k \in 1 .. Len(at'[q]) : at'[q][k] = at[q][k]
    <2>1. q \in Places /\ q # "hand" /\ Len(at'[q]) \in Nat /\ Len(at[q]) \in Nat
      BY <1>1, <1>9, PileType, Names
    <2>2. CASE q = p
      BY <1>2, <1>3, <1>10, <2>1, <2>2
    <2>3. CASE q # p
      BY <1>10, <2>1, <2>3
    <2> QED BY <2>2, <2>3
  <1>14. Ordered(at')
    <2> SUFFICES ASSUME NEW s \in Suits, NEW k \in DOMAIN at'[s] PROVE at'[s][k] = <<s, k>>
      BY DEF Ordered
    <2>1. /\ s \in Piles /\ DOMAIN at'[s] = 1 .. Len(at'[s]) /\ DOMAIN at[s] = 1 .. Len(at[s])
      BY <1>1, <1>9, PileType, Names
    <2>2. k \in DOMAIN at[s] /\ at'[s][k] = at[s][k]
      BY <1>13, <2>1
    <2> QED BY <1>1, <2>2 DEF Ordered
  <1>15. ASSUME NEW q \in ColumnSet PROVE RunIn(at'[q], up')
    <2>1. q \in Piles /\ at[q] \in Seq(Deck) /\ at'[q] \in Seq(Deck) /\ up' = up
      BY <1>1, <1>5, <1>9, PileType, Names
    <2>2. RunIn(at[q], up)
      BY <1>1
    <2>3. /\ Len(at'[q]) <= Len(at[q])
          /\ \A k \in 1 .. Len(at'[q]) : at'[q][k] = at[q][k] /\ (at'[q][k] \in up <=> at'[q][k] \in up)
      BY <1>13, <2>1
    <2>4. RunIn(at'[q], up)
      BY <2>1, <2>2, <2>3, RunCut
    <2> QED BY <2>1, <2>4
  <1>16. TypeOK'
    <2>1. Len(at'["flight"]) = IF flight' = None THEN 0 ELSE 1
      BY <1>1, <1>2, <1>5, <1>10, Names DEF TypeOK
    <2>2. source' # None
      BY <1>2, <1>5, Names
    <2> QED BY <1>1, <1>2, <1>5, <1>9, <2>1, <2>2 DEF TypeOK, Tables
  <1>17. TopsUp'
    <2> SUFFICES ASSUME NEW q \in ColumnSet, at'[q] # <<>>, q # p PROVE Last(at'[q]) \in up
      BY <1>5 DEF TopsUp
    <2>1. at'[q] = at[q]
      BY <1>10, Names
    <2>2. q # source /\ flight = None
      BY <1>5, Names
    <2> QED BY <1>1, <2>1, <2>2 DEF TopsUp
  <1>18. OthersUp'
    <2> SUFFICES ASSUME NEW q \in Suits \cup {"waste", "hand", "flight"}, NEW k \in 1 .. Len(at'[q])
                 PROVE  at'[q][k] \in up
      BY <1>5 DEF OthersUp
    <2>1. CASE q = "hand"
      BY <1>6, <1>12, <2>1
    <2>2. CASE q = "flight"
      BY <1>1, <1>2, <1>10, <2>2, Names DEF OthersUp
    <2>3. CASE q \in Suits \cup {"waste"}
      <3>1. q \in Piles
        BY <2>3, Names
      <3>2. k \in 1 .. Len(at[q]) /\ at'[q][k] = at[q][k]
        BY <1>13, <3>1
      <3> QED BY <1>1, <2>3, <3>2 DEF OthersUp
    <2> QED BY <2>1, <2>2, <2>3
  <1>19. StockRoom'
    <2>1. "stock" \in Piles /\ "waste" \in Piles /\ at'["stock"] = at["stock"]
      BY <1>2, <1>10, Names
    <2> DEFINE d == DeckSize - DealtBefore(Len(Columns) + 1)
               x == Len(at["stock"])
               y == Len(at["waste"])
               z == Len(at'["waste"])
    <2>2. x \in Nat /\ y \in Nat /\ z \in Nat /\ z <= y /\ d \in Nat
      BY <1>13, <2>1, StockShare
    <2>3. x + y + 0 <= d
      BY <1>1, <1>5, Names DEF StockRoom
    <2>4. p = "waste" => z + 1 <= y
      BY <1>2, <1>3, <1>10
    <2> HIDE DEF d, x, y, z
    <2>5. x + z + (IF p = "waste" THEN 1 ELSE 0) <= d
      <3>1. CASE p = "waste"
        BY <2>2, <2>3, <2>4, <3>1
      <3>2. CASE p # "waste"
        BY <2>2, <2>3, <3>2
      <3> QED BY <3>1, <3>2
    <2> QED BY <1>5, <2>1, <2>5 DEF StockRoom, d, x, y, z
  <1>20. PressFits' /\ FlightFits' /\ AutoFinishes'
    BY <1>5 DEF PressFits, FlightFits, AutoFinishes
  <1>21. WinNoticed'
    <2> SUFFICES ASSUME Full(at') PROVE Full(at)
      BY <1>1, <1>5 DEF WinNoticed
    <2>1. ASSUME NEW s \in Suits PROVE Len(at[s]) = King
      <3>1. Len(at'[s]) = King
        BY <1>9, <1>14, FullMeans
      <3>2. Len(at[s]) \in 0 .. King /\ s \in Piles
        BY <1>1, FoundationHeight, Names
      <3>3. King \in Nat /\ Len(at'[s]) <= Len(at[s])
        BY <1>13, <3>2, NamesAssumption
      <3> QED BY <3>1, <3>2, <3>3
    <2> QED BY <1>1, <2>1, FullMeans
  <1>22. Full(Shift(at', "hand", p, n)) => won
    <2> DEFINE y == Shift(at', "hand", p, n)
    <2>1. Moved(at', y, "hand", p, n)
      BY <1>3, <1>6, <1>7, <1>9, ShiftMoves
    <2> HIDE DEF y
    <2>2. y \in Tables
      BY <2>1 DEF Moved
    <2>3. ASSUME NEW s \in Suits PROVE Len(y[s]) = Len(at[s])
      <3>1. s \in Places /\ s # "hand"
        BY Names
      <3>2. CASE s = p
        <4>1. Len(y[s]) = Len(at'[s]) + n
          BY <2>1, <3>2 DEF Moved
        <4> QED BY <1>3, <1>7, <1>10, <3>2, <4>1
      <3>3. CASE s # p
        BY <1>10, <2>1, <3>1, <3>3 DEF Moved
      <3> QED BY <3>2, <3>3
    <2>4. Full(y) => Full(at)
      BY <1>1, <2>2, <2>3, FullCounts
    <2> QED BY <1>1, <2>4 DEF WinNoticed, y
  <1>23. DragReturns'
    <2>1. 1 \in 1 .. n /\ at'["hand"] # <<>> /\ at'["hand"][1] = at[p][i]
      <3>1. 1 \in 1 .. n /\ i - 1 + 1 = i
        BY <1>3, <1>7
      <3> QED BY <1>6, <1>7, <1>9, <3>1, PileType
    <2>2. p \in Suits \cup {"waste"} => n = 1 /\ i = Len(at[p])
      BY <1>3, <1>7, <1>8, Names
    <2>3. p \in Suits => at[p][i] = <<p, Len(at'[p]) + 1>>
      <3>1. p \in Suits => at[p][i] = <<p, i>>
        BY <1>1, <1>3, PileType DEF Ordered
      <3>2. Len(at'[p]) + 1 = i
        BY <1>3, <1>10
      <3> QED BY <3>1, <3>2
    <2>4. ASSUME p \in ColumnSet, at'[p] # <<>>, Last(at'[p]) \in up
          PROVE  Follows(Last(at'[p]), at[p][i])
      <3>1. Len(at'[p]) \in Nat /\ Len(at'[p]) # 0
        BY <1>3, <1>9, <2>4, PileType
      <3>2. i - 1 \in 1 .. i - 1 /\ i - 1 \in 1 .. Len(at[p]) /\ i - 1 < Len(at[p]) /\ (i - 1) + 1 = i
        BY <1>3, <1>10, <3>1
      <3>3. Last(at'[p]) = at[p][i - 1]
        BY <1>10, <3>2 DEF Last
      <3> QED BY <1>1, <2>4, <3>2, <3>3 DEF RunIn
    <2>5. /\ source' \in Suits \cup {"waste"} => Len(at'["hand"]) = 1
          /\ source' \in Suits => at'["hand"][1] = <<source', Len(at'[source']) + 1>>
      BY <1>5, <1>6, <2>1, <2>2, <2>3
    <2>6. source' \in ColumnSet /\ at'[source'] # <<>> =>
             (Last(at'[source']) \in up' => Follows(Last(at'[source']), at'["hand"][1]))
      <3>1. source' = p /\ up' = up
        BY <1>5
      <3>2. p \in ColumnSet /\ at'[p] # <<>> => (Last(at'[p]) \in up => Follows(Last(at'[p]), at'["hand"][1]))
        BY <2>1, <2>4
      <3> QED BY <3>1, <3>2
    <2>7. Full(Shift(at', "hand", source', Len(at'["hand"]))) => won'
      BY <1>5, <1>6, <1>22
    <2> QED BY <1>12, <2>1, <2>5, <2>6, <2>7 DEF DragReturns
  <1> QED BY <1>9, <1>14, <1>15, <1>16, <1>17, <1>18, <1>19, <1>20, <1>21, <1>23, NextSound

\* A drag that begins at a card that has left takes nothing, and leaves a pile no
\* higher than it was when the button went down.
LEMMA TakesNothingSound ==
  ASSUME IInv, ~spoiled, BeginDrag, TakesNothing, spoiled' = TRUE
  PROVE  IInv'
  <1> DEFINE p == pressed.pile
             i == pressed.index
             s == at[p]
             c == pressed.cells
             w == SubSeq(c, Len(s) + 1, Len(c))
             h == SubSeq(s, i, Len(s))
             t == SubSeq(s \o w, 1, i - 1)
  <1>1. at \in Tables /\ TypeOK /\ ArraysFit /\ PressFits
    BY SoundState
  <1>2. /\ p \in Piles \ {"stock"} /\ c \in Seq(Deck) /\ i \in 1 .. Len(c) /\ Len(c) <= PileCells
    BY <1>1 DEF BeginDrag, TypeOK, PressFits, Presses
  <1>3. /\ at["hand"] = <<>> /\ source' = p /\ pressed' = None /\ last' = None
        /\ at' = [at EXCEPT !["hand"] = h, ![p] = t]
        /\ UNCHANGED <<up, held, auto, flight, won>>
    BY <1>1 DEF BeginDrag, TypeOK
  <1>4. i > Len(s)
    BY DEF TakesNothing
  <1> HIDE DEF p, i, c
  <1>5. /\ p \in Places /\ p # "hand" /\ p # "flight" /\ "hand" \in Places /\ p # None
        /\ s \in Seq(Deck) /\ Len(s) \in Nat /\ Len(c) \in Nat
    BY <1>1, <1>2, PileType, Names
  <1> HIDE DEF s
  <1>6. Len(s) + 1 <= Len(c) /\ i \in Nat \ {0} /\ i - 1 \in 0 .. Len(c)
    BY <1>2, <1>4, <1>5
  <1>7. h = <<>>
    BY <1>4, <1>5, <1>6
  <1>8. w \in Seq(Deck) /\ Len(w) = Len(c) - Len(s)
    BY <1>2, <1>5, <1>6, SliceAbove
  <1> HIDE DEF h, w
  <1>9. t \in Seq(Deck) /\ Len(t) = i - 1
    <2>1. s \o w \in Seq(Deck) /\ Len(s \o w) = Len(c)
      BY <1>5, <1>8
    <2> QED BY <1>6, <2>1
  <1> HIDE DEF t
  <1>10. /\ at'["hand"] = <<>> /\ at'[p] = t
         /\ at' = [q \in Places |-> at'[q]]
         /\ \A q \in Places : q # p /\ q # "hand" => at'[q] = at[q]
    BY <1>1, <1>3, <1>5, <1>7 DEF Tables
  <1>11. at' \in Tables
    <2>1. ASSUME NEW q \in Places PROVE at'[q] \in Seq(Deck)
      <3>1. <<>> \in Seq(Deck)
        BY EmptySeq
      <3> QED BY <1>1, <1>9, <1>10, <3>1, PileType
    <2> QED BY <1>10, <2>1 DEF Tables
  <1>12. TypeOK'
    <2>1. Len(at'["flight"]) = IF flight' = None THEN 0 ELSE 1
      BY <1>1, <1>3, <1>5, <1>10, Names DEF TypeOK
    <2> QED BY <1>1, <1>2, <1>3, <1>5, <1>11, <2>1 DEF TypeOK, Tables
  <1>13. ArraysFit'
    <2>1. ASSUME NEW q \in Piles PROVE Len(at'[q]) <= PileCells
      <3>1. CASE q = p
        <4>1. PileCells \in Nat /\ Len(at'[q]) = i - 1
          BY <1>9, <1>10, <3>1, NamesAssumption
        <4> QED BY <1>2, <1>5, <1>6, <4>1
      <3>2. CASE q # p
        BY <1>1, <1>10, <3>2, Names DEF ArraysFit
      <3> QED BY <3>1, <3>2
    <2>2. Len(at'["hand"]) <= DragCells
      BY <1>10, NamesAssumption
    <2> QED BY <2>1, <2>2 DEF ArraysFit
  <1> QED BY <1>12, <1>13 DEF IInv

\* The card that is turned is the top of its column.
LEMMA Revealed ==
  ASSUME NEW b \in Tables, Once(b), NEW u \in SUBSET Deck, NEW p
  PROVE  /\ u \subseteq Reveal(u, b, p) /\ Reveal(u, b, p) \subseteq Deck
         /\ p \in ColumnSet /\ b[p] # <<>> => Last(b[p]) \in Reveal(u, b, p)
         /\ \A r \in ColumnSet : RunIn(b[r], u) => RunIn(b[r], Reveal(u, b, p))
  <1>1. CASE p \in ColumnSet /\ b[p] # <<>>
    <2> DEFINE x == Last(b[p])
    <2>1. Reveal(u, b, p) = u \cup {x}
      BY <1>1 DEF Reveal
    <2>2. p \in Places /\ Len(b[p]) \in DOMAIN b[p] /\ x = b[p][Len(b[p])] /\ x \in Deck
      BY <1>1, PileType, Names DEF Last
    <2> HIDE DEF x
    <2>3. ASSUME NEW r \in ColumnSet, RunIn(b[r], u) PROVE RunIn(b[r], u \cup {x})
      <3>1. r \in Places /\ b[r] \in Seq(Deck) /\ DOMAIN b[r] = 1 .. Len(b[r])
        BY PileType, Names
      <3>2. ASSUME NEW i \in 1 .. Len(b[r]), b[r][i] = x PROVE i = Len(b[r])
        BY <2>2, <3>1, <3>2 DEF Once
      <3> QED BY <2>3, <3>1, <3>2, RunTurn
    <2> QED BY <2>1, <2>2, <2>3 DEF x
  <1>2. CASE ~(p \in ColumnSet /\ b[p] # <<>>)
    <2>1. Reveal(u, b, p) = u
      BY <1>2 DEF Reveal
    <2> QED BY <1>2, <2>1
  <1> QED BY <1>1, <1>2

\* The hand is emptied on a pile that takes what is in it, or where that came from.
LEMMA HandSound ==
  ASSUME IInv, ~spoiled, source # None, ~auto, flight = None, UNCHANGED <<flight, spoiled>>,
         held' = FALSE, pressed' = None, source' = None, last' = None,
         NEW q \in Piles \ {"stock"}, at' = Shift(at, "hand", q, Len(at["hand"])),
         q \in Suits => Len(at["hand"]) = 1 /\ at["hand"][1] = <<q, Len(at[q]) + 1>>,
         q \in ColumnSet /\ at[q] # <<>> =>
             (Last(at[q]) \in up => Follows(Last(at[q]), at["hand"][1])),
         q = "waste" => source = "waste",
         (q = source /\ up' = up) \/ up' = Reveal(up, at', source),
         won' \in BOOLEAN, Full(at') => won',
         auto' \in BOOLEAN, auto' => CanAutoFinish(at', up', won')
  PROVE  IInv'
  <1> DEFINE n == Len(at["hand"])
  <1>1. /\ at \in Tables /\ Once(at) /\ All(at) /\ Ordered(at)
        /\ \A r \in ColumnSet : RunIn(at[r], up)
        /\ TypeOK /\ TopsUp /\ OthersUp /\ StockRoom /\ DragReturns
    BY SoundState
  <1>2. /\ at["hand"] # <<>> /\ IsRun(at["hand"])
        /\ source = "waste" => n = 1
    BY <1>1 DEF DragReturns
  <1>3. /\ "hand" \in Places /\ "hand" \notin Suits /\ q \in Places /\ q # "hand" /\ q # "flight"
        /\ at["hand"] \in Seq(Deck) /\ n \in Nat \ {0} /\ n \in 0 .. n /\ 1 \in 1 .. n
        /\ source \in Piles /\ up \in SUBSET Deck
    BY <1>1, <1>2, PileType, Names DEF TypeOK
  <1>4. Moved(at, at', "hand", q, n)
    BY <1>1, <1>3, ShiftMoves
  <1>5. at' \in Tables /\ Once(at') /\ All(at')
    <2>1. at' \in Tables
      BY <1>4 DEF Moved
    <2>2. Once(at')
      BY <1>1, <1>3, <1>4, MovedOnce
    <2>3. All(at')
      BY <1>1, <1>3, <1>4, MovedAll
    <2> QED BY <2>1, <2>2, <2>3
  <1> HIDE DEF n
  <1>6. /\ \A r \in Places : r # q /\ r # "hand" => at'[r] = at[r]
        /\ Len(at'["hand"]) = 0
        /\ Len(at[q]) \in Nat /\ Len(at'[q]) = Len(at[q]) + n
        /\ \A k \in 1 .. Len(at[q]) : at'[q][k] = at[q][k]
        /\ \A k \in 1 .. n : at'[q][Len(at[q]) + k] = at["hand"][k]
    <2>1. n - n = 0 /\ \A k \in 1 .. n : n - n + k = k
      BY <1>3
    <2>2. /\ \A r \in Places : r # q /\ r # "hand" => at'[r] = at[r]
          /\ Len(at'["hand"]) = n - n /\ Len(at'[q]) = Len(at[q]) + n
          /\ \A k \in 1 .. Len(at[q]) : at'[q][k] = at[q][k]
          /\ \A k \in 1 .. n : at'[q][Len(at[q]) + k] = at["hand"][n - n + k]
      BY <1>4 DEF Moved, n
    <2>3. Len(at[q]) \in Nat
      BY <1>1, <1>3, PileType
    <2> QED BY <2>1, <2>2, <2>3
  <1>7. at'["hand"] = <<>>
    BY <1>3, <1>5, <1>6, PileType
  <1>8. \A k \in 1 .. n : at["hand"][k] \in up
    BY <1>1 DEF OthersUp, n
  <1>9. /\ up \subseteq up' /\ up' \subseteq Deck
        /\ \A r \in ColumnSet : RunIn(at'[r], up) => RunIn(at'[r], up')
        /\ q # source /\ source \in ColumnSet /\ at'[source] # <<>> => Last(at'[source]) \in up'
    <2>1. CASE q = source /\ up' = up
      BY <1>3, <2>1
    <2>2. CASE up' = Reveal(up, at', source)
      BY <1>3, <1>5, <2>2, Revealed
    <2> QED BY <2>1, <2>2
  <1>10. Ordered(at')
    <2>1. CASE q \in Suits
      <3>1. n = 1 /\ Last(at["hand"]) = <<q, Len(at[q]) + 1>>
        BY <2>1 DEF Last, n
      <3>2. SentHome(at, at', "hand", q)
        BY <1>2, <1>4, <3>1 DEF SentHome
      <3> QED BY <1>1, <1>3, <2>1, <3>2, HomeOrdered
    <2>2. CASE q \notin Suits
      <3>1. \A s \in Suits : at'[s] = at[s]
        BY <1>6, <2>2, Names
      <3> QED BY <1>1, <3>1 DEF Ordered
    <2> QED BY <2>1, <2>2
  <1>11. ASSUME NEW r \in ColumnSet PROVE RunIn(at'[r], up')
    <2>1. CASE r = q
      <3>1. at[q] \in Seq(Deck) /\ at'[q] \in Seq(Deck) /\ RunIn(at[q], up) /\ q \in ColumnSet
        BY <1>1, <1>3, <1>5, <2>1, PileType
      <3>2. at[q] # <<>> => (Last(at[q]) \in up => Follows(Last(at[q]), at["hand"][1]))
        BY <3>1
      <3>3. /\ IsRun(at["hand"]) /\ at["hand"] # <<>> /\ at["hand"] \in Seq(Deck)
            /\ \A k \in 1 .. Len(at["hand"]) : at["hand"][k] \in up
        BY <1>2, <1>3, <1>8 DEF n
      <3>4. /\ Len(at'[q]) = Len(at[q]) + Len(at["hand"])
            /\ \A k \in 1 .. Len(at[q]) : at'[q][k] = at[q][k]
            /\ \A k \in 1 .. Len(at["hand"]) : at'[q][Len(at[q]) + k] = at["hand"][k]
        BY <1>6 DEF n
      <3>5. RunIn(at'[q], up)
        BY <3>1, <3>2, <3>3, <3>4, RunJoin
      <3> QED BY <1>9, <2>1, <3>5
    <2>2. CASE r # q
      <3>1. at'[r] = at[r]
        BY <1>6, <2>2, Names
      <3>2. RunIn(at'[r], up)
        BY <1>1, <3>1
      <3> QED BY <1>9, <3>2
    <2> QED BY <2>1, <2>2
  <1>12. TypeOK'
    <2>1. Len(at'["flight"]) = IF flight' = None THEN 0 ELSE 1
      BY <1>1, <1>3, <1>6, Names DEF TypeOK
    <2> QED BY <1>1, <1>5, <1>7, <1>9, <2>1 DEF TypeOK, Tables
  <1>13. Last(at'[q]) \in up
    <2>1. n \in 1 .. n /\ at'[q][Len(at'[q])] = at["hand"][n]
      BY <1>3, <1>6
    <2> QED BY <1>8, <2>1 DEF Last
  <1>14. TopsUp'
    <2> SUFFICES ASSUME NEW r \in ColumnSet, at'[r] # <<>> PROVE Last(at'[r]) \in up'
      BY DEF TopsUp
    <2>1. CASE r = q
      BY <1>9, <1>13, <2>1
    <2>2. CASE r # q /\ r = source
      BY <1>9, <2>2
    <2>3. CASE r # q /\ r # source
      <3>1. at'[r] = at[r]
        BY <1>6, <2>3, Names
      <3>2. Last(at[r]) \in up
        BY <1>1, <2>3, <3>1 DEF TopsUp
      <3> QED BY <1>9, <3>1, <3>2
    <2> QED BY <2>1, <2>2, <2>3
  <1>15. OthersUp'
    <2> SUFFICES ASSUME NEW r \in Suits \cup {"waste", "hand", "flight"}, NEW k \in 1 .. Len(at'[r])
                 PROVE  at'[r][k] \in up
      BY <1>9 DEF OthersUp
    <2>1. CASE r = "hand"
      BY <1>6, <2>1
    <2>2. CASE r # "hand" /\ r # q
      <3>1. at'[r] = at[r]
        BY <1>6, <2>2, Names
      <3> QED BY <1>1, <3>1 DEF OthersUp
    <2>3. CASE r = q /\ k <= Len(at[q])
      <3>1. k \in 1 .. Len(at[q]) /\ at'[r][k] = at[q][k]
        BY <1>6, <2>3
      <3> QED BY <1>1, <2>3, <3>1 DEF OthersUp
    <2>4. CASE r = q /\ k > Len(at[q])
      <3>1. k - Len(at[q]) \in 1 .. n /\ Len(at[q]) + (k - Len(at[q])) = k
        BY <1>3, <1>6, <2>4
      <3>2. at'[r][k] = at["hand"][k - Len(at[q])]
        BY <1>6, <2>4, <3>1
      <3> QED BY <1>8, <3>1, <3>2
    <2> QED BY <1>6, <2>1, <2>2, <2>3, <2>4
  <1>16. StockRoom'
    <2> DEFINE d == DeckSize - DealtBefore(Len(Columns) + 1)
               x == Len(at["stock"])
               y == Len(at["waste"])
               z == Len(at'["waste"])
    <2>1. at'["stock"] = at["stock"]
      BY <1>6, Names
    <2>2. x \in Nat /\ y \in Nat /\ z \in Nat /\ d \in Nat
      BY <1>1, <1>5, PileType, Names, StockShare
    <2>3. source = "waste" => x + y + 1 <= d
      BY <1>1 DEF StockRoom
    <2>4. source # "waste" => x + y + 0 <= d
      BY <1>1 DEF StockRoom
    <2>5. q = "waste" => z = y + 1 /\ source = "waste"
      BY <1>2, <1>6
    <2>6. q # "waste" => z = y
      BY <1>6, Names
    <2> HIDE DEF d, x, y, z
    <2>7. x + z + 0 <= d
      BY <2>2, <2>3, <2>4, <2>5, <2>6
    <2> QED BY <2>1, <2>7, Names DEF StockRoom, d, x, y, z
  <1>17. PressFits' /\ FlightFits' /\ DragReturns' /\ WinNoticed'
    BY DEF PressFits, FlightFits, DragReturns, WinNoticed
  <1>18. AutoFinishes'
    <2> SUFFICES ASSUME auto' PROVE AutoFinishes'
      BY DEF AutoFinishes
    <2>1. /\ ~won' /\ Finishable(at') /\ at'["stock"] = <<>>
          /\ \A p \in ColumnSet : \A i \in 1 .. Len(at'[p]) : at'[p][i] \in up'
      BY <1>5, <1>10, CanFinish
    <2> QED BY <2>1 DEF AutoFinishes
  <1> QED BY <1>5, <1>10, <1>11, <1>12, <1>14, <1>15, <1>16, <1>17, <1>18, NextSound

\* A drag ends.
LEMMA UpDropSound ==
  ASSUME IInv, ~spoiled, UpDrop, UNCHANGED spoiled
  PROVE  IInv'
  <1>1. /\ at \in Tables /\ Ordered(at) /\ TypeOK /\ DragReturns
    BY SoundState
  <1>2. /\ source # None /\ ~auto /\ flight = None /\ UNCHANGED flight
        /\ held' = FALSE /\ pressed' = None /\ source' = None /\ last' = None
    BY DEF UpDrop, Idle
  <1>3. /\ source \in Piles \ {"stock"}
        /\ at["hand"] # <<>> /\ at["hand"] \in Seq(Deck) /\ at["hand"][1] \in Deck
        /\ auto \in BOOLEAN /\ won \in BOOLEAN
    BY <1>1, <1>2, PileType, Names DEF TypeOK, DragReturns
  <1>4. CASE \E p \in Targets : DropOn(p)
    <2>1. PICK q \in Targets : DropOn(q)
      BY <1>4
    <2>2. /\ at' = Shift(at, "hand", q, Len(at["hand"]))
          /\ up' = Reveal(up, at', source)
          /\ won' = (won \/ Full(at'))
          /\ auto' = Request(at', up', won')
      BY <2>1 DEF DropOn
    <2>3. q \in Suits \/ q \in ColumnSet
      BY <2>1 DEF Targets
    <2>4. q \in Piles \ {"stock"} /\ q # "waste"
      BY <2>3, Names
    <2>5. q \in Suits => Len(at["hand"]) = 1 /\ at["hand"][1] = <<q, Len(at[q]) + 1>>
      <3> SUFFICES ASSUME q \in Suits
                   PROVE  Len(at["hand"]) = 1 /\ at["hand"][1] = <<q, Len(at[q]) + 1>>
        OBVIOUS
      <3>1. Len(at["hand"]) = 1 /\ FitsFoundation(at["hand"][1], q, at[q])
        BY Names DEF Targets
      <3> QED BY <1>1, <1>3, <3>1, NextHome
    <2>6. q \in ColumnSet /\ at[q] # <<>> =>
             (Last(at[q]) \in up => Follows(Last(at[q]), at["hand"][1]))
      <3> SUFFICES ASSUME q \in ColumnSet, at[q] # <<>>
                   PROVE  Follows(Last(at[q]), at["hand"][1])
        OBVIOUS
      <3>1. FitsColumn(at["hand"][1], at[q])
        BY Names DEF Targets
      <3> QED BY <3>1 DEF FitsColumn, Follows, OppositeColours
    <2>7. won' \in BOOLEAN /\ (Full(at') => won')
      BY <2>2
    <2>8. auto' = CanAutoFinish(at', up', won')
      <3>1. auto = FALSE /\ CanAutoFinish(at', up', won') \in BOOLEAN
        BY <1>2, <1>3 DEF CanAutoFinish
      <3> QED BY <1>2, <2>2, <3>1 DEF Request
    <2>9. auto' \in BOOLEAN /\ (auto' => CanAutoFinish(at', up', won'))
      BY <2>8 DEF CanAutoFinish
    <2> QED BY <1>2, <2>2, <2>4, <2>5, <2>6, <2>7, <2>9, HandSound
  <1>5. CASE PutBack
    <2>1. /\ at' = Shift(at, "hand", source, Len(at["hand"]))
          /\ UNCHANGED <<up, auto, won>>
      BY <1>5 DEF PutBack
    <2>2. /\ source \in Suits => Len(at["hand"]) = 1 /\ at["hand"][1] = <<source, Len(at[source]) + 1>>
          /\ source \in ColumnSet /\ at[source] # <<>> =>
             (Last(at[source]) \in up => Follows(Last(at[source]), at["hand"][1]))
          /\ Full(at') => won
      BY <1>1, <1>2, <2>1 DEF DragReturns
    <2> QED BY <1>2, <1>3, <2>1, <2>2, HandSound
  <1> QED BY <1>4, <1>5 DEF UpDrop

\* The top card of p takes off.
LEMMA LaunchSound ==
  ASSUME IInv, ~spoiled, flight = None, source = None,
         UNCHANGED <<up, source, auto, won, spoiled>>,
         held' \in BOOLEAN, pressed' = None \/ pressed' = pressed, last' = None \/ last' = last,
         NEW p \in FinishSet, at[p] # <<>>, Homes(at, Last(at[p])) # {},
         NEW trigger \in BOOLEAN, Launch(p, trigger)
  PROVE  IInv'
  <1> DEFINE c == Last(at[p])
             d == CHOOSE s \in Homes(at, c) : TRUE
             n == Len(at[p])
  <1>1. /\ at \in Tables /\ Once(at) /\ All(at) /\ Ordered(at)
        /\ \A r \in ColumnSet : RunIn(at[r], up)
        /\ TypeOK /\ TopsUp /\ OthersUp /\ StockRoom /\ PressFits /\ AutoFinishes /\ WinNoticed
    BY SoundState
  <1>2. /\ p \in Places /\ p \in Piles /\ p \notin Suits /\ p # "flight" /\ p # "stock" /\ p # "hand"
        /\ "flight" \in Places
    BY Names DEF FinishSet
  <1>3. /\ n \in Nat \ {0} /\ n \in 1 .. n /\ c = at[p][n] /\ c \in Deck /\ at[p] \in Seq(Deck)
        /\ 1 \in 0 .. n
    BY <1>1, <1>2, PileType DEF Last
  <1>4. d \in Suits /\ c = <<d, Len(at[d]) + 1>>
    BY <1>1, <1>3, HomeChosen
  <1>5. /\ at' = Shift(at, p, "flight", 1)
        /\ flight' = [src |-> p, dst |-> d, reveal |-> p \in ColumnSet /\ n > 1, trigger |-> trigger]
    BY DEF Launch
  <1> HIDE DEF c, d, n
  <1>6. c \in up
    <2>1. CASE p = "waste"
      BY <1>1, <1>3, <2>1 DEF OthersUp, n
    <2>2. CASE p \in ColumnSet
      BY <1>1, <2>2, Names DEF TopsUp, c
    <2> QED BY <2>1, <2>2 DEF FinishSet
  <1>7. /\ flight' \in Flights /\ flight' # None
        /\ flight'.src = p /\ flight'.dst = d /\ flight'.reveal = (p \in ColumnSet /\ n > 1)
    <2>1. flight' \in Flights
      BY <1>2, <1>4, <1>5 DEF Flights
    <2>2. None \notin Flights
      BY NamesAssumption
    <2> QED BY <1>5, <2>1, <2>2
  <1>8. Moved(at, at', p, "flight", 1)
    BY <1>1, <1>2, <1>3, <1>5, ShiftMoves DEF n
  <1>9. at' \in Tables /\ Once(at') /\ All(at')
    <2>1. at' \in Tables
      BY <1>8 DEF Moved
    <2>2. Once(at')
      BY <1>1, <1>2, <1>3, <1>8, MovedOnce DEF n
    <2>3. All(at')
      BY <1>1, <1>2, <1>3, <1>8, MovedAll DEF n
    <2> QED BY <2>1, <2>2, <2>3
  <1>10. /\ \A r \in Places : r # p /\ r # "flight" => at'[r] = at[r]
         /\ Len(at'[p]) = n - 1 /\ \A k \in 1 .. n - 1 : at'[p][k] = at[p][k]
         /\ Len(at'["flight"]) = 1 /\ at'["flight"][1] = c
    <2>1. /\ \A r \in Places : r # p /\ r # "flight" => at'[r] = at[r]
          /\ Len(at'[p]) = n - 1 /\ \A k \in 1 .. n - 1 : at'[p][k] = at[p][k]
          /\ Len(at'["flight"]) = Len(at["flight"]) + 1
          /\ \A k \in 1 .. 1 : at'["flight"][Len(at["flight"]) + k] = at[p][n - 1 + k]
      BY <1>8 DEF Moved, n
    <2>2. Len(at["flight"]) = 0
      BY <1>1 DEF TypeOK
    <2>3. at'["flight"][0 + 1] = at[p][n - 1 + 1] /\ n - 1 + 1 = n
      BY <1>3, <2>1, <2>2
    <2> QED BY <1>3, <2>1, <2>2, <2>3
  <1>11. ASSUME NEW r \in Piles
         PROVE  /\ Len(at'[r]) \in Nat /\ Len(at[r]) \in Nat /\ Len(at'[r]) <= Len(at[r])
                /\ \A k \in 1 .. Len(at'[r]) : at'[r][k] = at[r][k]
    <2>1. r \in Places /\ r # "flight" /\ Len(at'[r]) \in Nat /\ Len(at[r]) \in Nat
      BY <1>1, <1>9, PileType, Names
    <2>2. CASE r = p
      BY <1>3, <1>10, <2>1, <2>2 DEF n
    <2>3. CASE r # p
      BY <1>10, <2>1, <2>3
    <2> QED BY <2>2, <2>3
  <1>12. \A s \in Suits : at'[s] = at[s]
    BY <1>2, <1>10, Names
  <1>13. Ordered(at')
    BY <1>1, <1>12 DEF Ordered
  <1>14. ASSUME NEW r \in ColumnSet PROVE RunIn(at'[r], up')
    <2>1. r \in Piles /\ at[r] \in Seq(Deck) /\ at'[r] \in Seq(Deck)
      BY <1>1, <1>9, PileType, Names
    <2>2. RunIn(at[r], up)
      BY <1>1
    <2>3. /\ Len(at'[r]) <= Len(at[r])
          /\ \A k \in 1 .. Len(at'[r]) : at'[r][k] = at[r][k] /\ (at'[r][k] \in up <=> at'[r][k] \in up)
      BY <1>11, <2>1
    <2>4. RunIn(at'[r], up)
      BY <2>1, <2>2, <2>3, RunCut
    <2> QED BY <2>4
  <1>15. TypeOK'
    <2>1. at'["hand"] = <<>>
      BY <1>1, <1>2, <1>10, Names DEF TypeOK
    <2>2. Len(at'["flight"]) = IF flight' = None THEN 0 ELSE 1
      BY <1>7, <1>10
    <2> QED BY <1>1, <1>7, <1>9, <2>1, <2>2 DEF TypeOK, Tables
  <1>16. TopsUp'
    <2> SUFFICES ASSUME NEW r \in ColumnSet, at'[r] # <<>>, r # p PROVE Last(at'[r]) \in up
      BY <1>7 DEF TopsUp
    <2>1. at'[r] = at[r] /\ r # source
      BY <1>10, Names
    <2> QED BY <1>1, <2>1 DEF TopsUp
  <1>17. OthersUp'
    <2> SUFFICES ASSUME NEW r \in Suits \cup {"waste", "hand", "flight"}, NEW k \in 1 .. Len(at'[r])
                 PROVE  at'[r][k] \in up
      BY DEF OthersUp
    <2>1. CASE r = "flight"
      <3>1. k \in 1 .. 1
        <4>1. Len(at'[r]) = 1
          BY <1>10, <2>1
        <4> QED BY <4>1
      <3> QED BY <1>6, <1>10, <2>1, <3>1
    <2>2. CASE r = "hand"
      <3>1. at'[r] = at[r]
        BY <1>2, <1>10, <2>2, Names
      <3> QED BY <1>1, <2>2, <3>1 DEF OthersUp
    <2>3. CASE r \in Suits \cup {"waste"}
      <3>1. r \in Piles
        BY <2>3, Names
      <3>2. k \in 1 .. Len(at[r]) /\ at'[r][k] = at[r][k]
        BY <1>11, <3>1
      <3> QED BY <1>1, <2>3, <3>2 DEF OthersUp
    <2> QED BY <2>1, <2>2, <2>3
  <1>18. StockRoom'
    <2> DEFINE e == DeckSize - DealtBefore(Len(Columns) + 1)
               x == Len(at["stock"])
               y == Len(at["waste"])
               z == Len(at'["waste"])
    <2>1. "stock" \in Piles /\ "waste" \in Piles /\ at'["stock"] = at["stock"]
      BY <1>2, <1>10, Names
    <2>2. x \in Nat /\ y \in Nat /\ z \in Nat /\ z <= y /\ e \in Nat
      BY <1>11, <2>1, StockShare
    <2>3. x + y + 0 <= e
      BY <1>1, Names DEF StockRoom
    <2> HIDE DEF e, x, y, z
    <2>4. x + z + 0 <= e
      BY <2>2, <2>3
    <2> QED BY <2>1, <2>4, Names DEF StockRoom, e, x, y, z
  <1>19. PressFits' /\ DragReturns'
    BY <1>1 DEF PressFits, DragReturns
  <1>20. FlightFits'
    <2>1. at'[d] = at[d]
      BY <1>4, <1>12
    <2>2. p \in ColumnSet /\ at'[p] # <<>> => n > 1
      <3>1. at'[p] # <<>> => n - 1 # 0
        BY <1>2, <1>9, <1>10, PileType
      <3> QED BY <1>3, <3>1
    <2> QED BY <1>4, <1>7, <1>10, <2>1, <2>2 DEF FlightFits
  <1>21. AutoFinishes'
    <2> SUFFICES ASSUME auto PROVE AutoFinishes'
      BY DEF AutoFinishes
    <2>1. /\ ~won /\ at["stock"] = <<>> /\ Finishable(at)
          /\ \A r \in ColumnSet : \A i \in 1 .. Len(at[r]) : at[r][i] \in up
      BY <1>1 DEF AutoFinishes
    <2>2. at'["stock"] = <<>>
      BY <1>2, <1>10, <2>1, Names
    <2>3. Finishable(at')
      <3>1. \A r \in FinishSet : r \in Piles
        BY Names DEF FinishSet
      <3> QED BY <1>1, <1>9, <1>11, <2>1, <3>1, FewerFinishable
    <2>4. ASSUME NEW r \in ColumnSet, NEW i \in 1 .. Len(at'[r]) PROVE at'[r][i] \in up
      <3>1. i \in 1 .. Len(at[r]) /\ at'[r][i] = at[r][i]
        BY <1>11, Names
      <3> QED BY <2>1, <3>1
    <2> QED BY <2>1, <2>2, <2>3, <2>4 DEF AutoFinishes
  <1>22. WinNoticed'
    <2>1. Full(at') <=> Full(at)
      BY <1>1, <1>9, <1>12, FullCounts
    <2> QED BY <1>1, <2>1 DEF WinNoticed
  <1> QED BY <1>9, <1>13, <1>14, <1>15, <1>16, <1>17, <1>18, <1>19, <1>20, <1>21, <1>22, NextSound

\* The card in flight lands.
LEMMA LandSound ==
  ASSUME IInv, ~spoiled, flight # None, Land(at), UNCHANGED <<held, pressed, source, last, spoiled>>,
         auto' \in BOOLEAN, auto' => ~won' /\ (auto \/ CanAutoFinish(at', up', won'))
  PROVE  IInv'
  <1> DEFINE c == at["flight"][1]
             d == flight.dst
             p == flight.src
  <1>1. /\ at \in Tables /\ Once(at) /\ All(at) /\ Ordered(at)
        /\ \A r \in ColumnSet : RunIn(at[r], up)
        /\ TypeOK /\ TopsUp /\ OthersUp /\ StockRoom /\ PressFits /\ FlightFits /\ AutoFinishes
    BY SoundState
  <1>2. /\ source = None /\ c = <<d, Len(at[d]) + 1>>
        /\ p \in ColumnSet /\ at[p] # <<>> => flight.reveal
    BY <1>1 DEF FlightFits
  <1>3. /\ d \in Suits /\ p \in Piles /\ flight.reveal \in BOOLEAN
        /\ Len(at["flight"]) = 1 /\ up \in SUBSET Deck /\ won \in BOOLEAN
    BY <1>1 DEF TypeOK, Flights
  <1>4. /\ at' = Shift(at, "flight", d, 1)
        /\ up' = (IF flight.reveal THEN Reveal(up, at, p) ELSE up)
        /\ won' = (won \/ Full(at')) /\ flight' = None
    BY DEF Land
  <1>5. /\ "flight" \in Places /\ "flight" \notin Suits /\ d \in Places /\ d # "flight"
        /\ at["flight"] \in Seq(Deck) /\ at["flight"] # <<>> /\ Last(at["flight"]) = c /\ c \in Deck
        /\ 1 \in 0 .. Len(at["flight"])
    BY <1>1, <1>3, PileType, Names DEF Last
  <1> HIDE DEF c, d, p
  <1>6. Moved(at, at', "flight", d, 1)
    BY <1>1, <1>4, <1>5, ShiftMoves
  <1>7. at' \in Tables /\ Once(at') /\ All(at')
    <2>1. at' \in Tables
      BY <1>6 DEF Moved
    <2>2. Once(at')
      BY <1>1, <1>5, <1>6, MovedOnce
    <2>3. All(at')
      BY <1>1, <1>5, <1>6, MovedAll
    <2> QED BY <2>1, <2>2, <2>3
  <1>8. Ordered(at')
    <2>1. SentHome(at, at', "flight", d)
      BY <1>2, <1>5, <1>6 DEF SentHome
    <2> QED BY <1>1, <1>3, <1>5, <2>1, HomeOrdered
  <1>9. /\ \A r \in Places : r # d /\ r # "flight" => at'[r] = at[r]
        /\ Len(at'["flight"]) = 0
        /\ Len(at[d]) \in Nat /\ Len(at'[d]) = Len(at[d]) + 1
        /\ \A k \in 1 .. Len(at[d]) : at'[d][k] = at[d][k]
        /\ at'[d][Len(at[d]) + 1] = c
    <2>1. /\ \A r \in Places : r # d /\ r # "flight" => at'[r] = at[r]
          /\ Len(at'["flight"]) = 1 - 1 /\ Len(at'[d]) = Len(at[d]) + 1
          /\ \A k \in 1 .. Len(at[d]) : at'[d][k] = at[d][k]
          /\ \A k \in 1 .. 1 : at'[d][Len(at[d]) + k] = at["flight"][1 - 1 + k]
      BY <1>3, <1>6 DEF Moved
    <2>2. at'[d][Len(at[d]) + 1] = at["flight"][1]
      BY <2>1
    <2>3. Len(at[d]) \in Nat
      BY <1>1, <1>5, PileType
    <2> QED BY <2>1, <2>2, <2>3 DEF c
  <1>10. \A r \in ColumnSet \cup {"stock", "waste", "hand"} : at'[r] = at[r]
    BY <1>3, <1>9, Names
  <1>11. /\ up \subseteq up' /\ up' \subseteq Deck
         /\ p \in ColumnSet /\ at[p] # <<>> => Last(at[p]) \in up'
         /\ \A r \in ColumnSet : RunIn(at[r], up')
    <2>1. CASE flight.reveal
      <3>1. up' = Reveal(up, at, p)
        BY <1>4, <2>1
      <3> QED BY <1>1, <1>3, <3>1, Revealed
    <2>2. CASE ~flight.reveal
      BY <1>1, <1>2, <1>3, <1>4, <2>2
    <2> QED BY <2>1, <2>2
  <1>12. ASSUME NEW r \in ColumnSet PROVE RunIn(at'[r], up')
    BY <1>10, <1>11
  <1>13. TypeOK'
    <2>1. at'["hand"] = <<>>
      BY <1>1, <1>2, <1>10 DEF TypeOK
    <2>2. Len(at'["flight"]) = IF flight' = None THEN 0 ELSE 1
      BY <1>4, <1>9
    <2>3. won' \in BOOLEAN
      BY <1>4
    <2> QED BY <1>1, <1>2, <1>4, <1>7, <1>11, <2>1, <2>2, <2>3 DEF TypeOK, Tables
  <1>14. TopsUp'
    <2> SUFFICES ASSUME NEW r \in ColumnSet, at'[r] # <<>> PROVE Last(at'[r]) \in up'
      BY DEF TopsUp
    <2>1. at'[r] = at[r] /\ r # source
      BY <1>2, <1>10, Names
    <2>2. CASE r = p
      BY <1>11, <2>1, <2>2
    <2>3. CASE r # p
      <3>1. Last(at[r]) \in up
        BY <1>1, <2>1, <2>3 DEF TopsUp, p
      <3> QED BY <1>11, <2>1, <3>1
    <2> QED BY <2>2, <2>3
  <1>15. OthersUp'
    <2> SUFFICES ASSUME NEW r \in Suits \cup {"waste", "hand", "flight"}, NEW k \in 1 .. Len(at'[r])
                 PROVE  at'[r][k] \in up
      BY <1>11 DEF OthersUp
    <2>1. CASE r = "flight"
      BY <1>9, <2>1
    <2>2. CASE r # "flight" /\ r # d
      <3>1. at'[r] = at[r]
        BY <1>9, <2>2, Names
      <3> QED BY <1>1, <3>1 DEF OthersUp
    <2>3. CASE r = d /\ k <= Len(at[d])
      <3>1. k \in 1 .. Len(at[d]) /\ at'[r][k] = at[d][k]
        BY <1>9, <2>3
      <3> QED BY <1>1, <2>3, <3>1 DEF OthersUp
    <2>4. CASE r = d /\ k > Len(at[d])
      <3>1. k = Len(at[d]) + 1
        BY <1>9, <2>4
      <3>2. c \in up
        BY <1>1, <1>3 DEF OthersUp, c
      <3> QED BY <1>9, <2>4, <3>1, <3>2
    <2> QED BY <1>9, <2>1, <2>2, <2>3, <2>4
  <1>16. StockRoom' /\ PressFits' /\ FlightFits' /\ DragReturns' /\ WinNoticed'
    <2>1. StockRoom'
      <3>1. at'["stock"] = at["stock"] /\ at'["waste"] = at["waste"] /\ source' = source
        BY <1>10
      <3>2. StockRoom' <=> StockRoom
        BY <3>1 DEF StockRoom
      <3> QED BY <1>1, <3>2
    <2>2. PressFits' /\ FlightFits' /\ DragReturns' /\ WinNoticed'
      BY <1>1, <1>2, <1>4 DEF PressFits, FlightFits, DragReturns, WinNoticed
    <2> QED BY <2>1, <2>2
  <1>17. AutoFinishes'
    <2> SUFFICES ASSUME auto' PROVE AutoFinishes'
      BY DEF AutoFinishes
    <2>1. CASE auto
      <3>1. /\ at["stock"] = <<>> /\ Finishable(at)
            /\ \A r \in ColumnSet : \A i \in 1 .. Len(at[r]) : at[r][i] \in up
        BY <1>1, <2>1 DEF AutoFinishes
      <3>2. at'["stock"] = <<>>
        BY <1>10, <3>1
      <3>3. Finishable(at')
        <4>1. ASSUME NEW r \in FinishSet
              PROVE  Len(at'[r]) <= Len(at[r]) /\ \A i \in 1 .. Len(at'[r]) : at'[r][i] = at[r][i]
          <5>1. at'[r] = at[r] /\ Len(at[r]) \in Nat
            BY <1>1, <1>10, PileType, Names DEF FinishSet
          <5> QED BY <5>1
        <4> QED BY <1>1, <1>7, <3>1, <4>1, FewerFinishable
      <3>4. \A r \in ColumnSet : \A i \in 1 .. Len(at'[r]) : at'[r][i] \in up'
        BY <1>10, <1>11, <3>1
      <3> QED BY <1>2, <3>2, <3>3, <3>4 DEF AutoFinishes
    <2>2. CASE CanAutoFinish(at', up', won')
      <3>1. /\ ~won' /\ Finishable(at') /\ at'["stock"] = <<>>
            /\ \A r \in ColumnSet : \A i \in 1 .. Len(at'[r]) : at'[r][i] \in up'
        BY <1>7, <1>8, <2>2, CanFinish
      <3> QED BY <1>2, <3>1 DEF AutoFinishes
    <2> QED BY <2>1, <2>2
  <1> QED BY <1>7, <1>8, <1>12, <1>13, <1>14, <1>15, <1>16, <1>17, NextSound

\* An auto-finish ends, or the game is won, and the piles stay.
LEMMA ConcludeSound ==
  ASSUME IInv, ~spoiled, UNCHANGED <<at, up, held, pressed, source, last, flight, spoiled>>,
         auto' = FALSE, won' \in BOOLEAN, won => won'
  PROVE  IInv'
  <1>1. TypeOK' /\ PressFits'
    BY DEF IInv, Sound, TypeOK, PressFits
  <1>2. NoCardTwice' /\ NoCardMissing' /\ FoundationsOrdered' /\ ColumnRuns' /\ ArraysFit'
    BY DEF IInv, Sound, NoCardTwice, NoCardMissing, FoundationsOrdered, ColumnRuns, ArraysFit
  <1>3. TopsUp' /\ OthersUp' /\ StockRoom' /\ FlightFits' /\ WinNoticed'
    BY DEF IInv, Sound, TopsUp, OthersUp, StockRoom, FlightFits, WinNoticed
  <1>4. DragReturns' /\ AutoFinishes'
    BY DEF IInv, Sound, DragReturns, AutoFinishes
  <1> QED BY <1>1, <1>2, <1>3, <1>4 DEF IInv, Sound

\* The timer's steps.
LEMMA TimerSound ==
  ASSUME IInv, ~spoiled, TimerFinish \/ TimerBegin, UNCHANGED spoiled
  PROVE  IInv'
  <1>1. /\ at \in Tables /\ TypeOK /\ FlightFits /\ AutoFinishes
    BY SoundState
  <1>2. CASE TimerFinish
    <2>1. /\ flight # None /\ Land(at) /\ auto' = FinishesOn
          /\ UNCHANGED <<held, pressed, source, last>>
      BY <1>2 DEF TimerFinish
    <2>2. auto' \in BOOLEAN /\ (auto' => ~won' /\ (auto \/ CanAutoFinish(at', up', won')))
      BY <2>1 DEF FinishesOn
    <2> QED BY <2>1, <2>2, LandSound
  <1>3. CASE TimerBegin /\ Movable(at) # {}
    <2> DEFINE i == Min(Movable(at))
               p == FinishOrder[i]
    <2>1. /\ auto /\ flight = None /\ Launch(p, FALSE)
          /\ UNCHANGED <<up, held, pressed, source, last, auto, won>>
      BY <1>3 DEF TimerBegin
    <2>2. i \in Movable(at)
      <3> DEFINE T == Movable(at)
      <3>1. T \in SUBSET Nat
        BY FinishPiles DEF Movable
      <3> HIDE DEF T
      <3>2. \E m \in T : \A k \in T : m <= k
        BY <1>3, <3>1, LeastNat DEF T
      <3>3. Min(T) \in T
        BY <3>2 DEF Min
      <3> QED BY <3>3 DEF T
    <2> HIDE DEF i
    <2>3. p \in FinishSet /\ at[p] # <<>> /\ Homes(at, Last(at[p])) # {}
      BY <2>2, FinishPiles DEF Movable, FinishSet
    <2>4. source = None
      BY <1>1, <2>1 DEF AutoFinishes
    <2>5. held' \in BOOLEAN
      BY <1>1, <2>1 DEF TypeOK
    <2> HIDE DEF p
    <2> QED BY <2>1, <2>3, <2>4, <2>5, LaunchSound
  <1>4. CASE TimerBegin /\ Movable(at) = {}
    <2>1. /\ auto' = FALSE /\ won' = (won \/ Full(at))
          /\ UNCHANGED <<at, up, held, pressed, source, last, flight>>
      BY <1>4 DEF TimerBegin
    <2>2. won' \in BOOLEAN /\ (won => won')
      BY <2>1
    <2> QED BY <2>1, <2>2, ConcludeSound
  <1> QED BY <1>2, <1>3, <1>4

\* A double click sends a card home if it can.
LEMMA DoubleClickSound ==
  ASSUME IInv, ~spoiled, DoubleClick, UNCHANGED spoiled
  PROVE  IInv'
  <1> DEFINE p == pressed.pile
             i == pressed.index
  <1>1. /\ at \in Tables /\ Ordered(at) /\ TypeOK
    BY SoundState
  <1>2. /\ flight = None /\ source = None /\ Hit /\ pressed # None
        /\ held' = FALSE /\ pressed' = None /\ last' = None
        /\ UNCHANGED <<up, source, auto, won>>
    BY DEF DoubleClick, Idle, Hit
  <1>3. p \in Piles \ {"stock"} /\ i \in Nat \ {0}
    BY <1>1, <1>2 DEF TypeOK, Presses
  <1>4. at[p] # <<>>
    <2>1. Len(at[p]) \in Nat /\ (at[p] = <<>> <=> Len(at[p]) = 0)
      BY <1>1, <1>3, PileType, Names
    <2>2. i <= Len(at[p]) \/ i = Len(at[p])
      BY <1>2 DEF Hit
    <2> QED BY <1>3, <2>1, <2>2
  <1>5. CASE Last(at[p]) \in up /\ Homes(at, Last(at[p])) # {}
    <2>1. Launch(p, TRUE)
      BY <1>5 DEF DoubleClick
    <2>2. p \notin Suits
      <3> SUFFICES ASSUME p \in Suits PROVE FALSE
        OBVIOUS
      <3>1. Len(at[p]) \in DOMAIN at[p] /\ Last(at[p]) \in Deck /\ Len(at[p]) \in Nat
        BY <1>1, <1>4, PileType, Names DEF Last
      <3>2. Last(at[p]) = <<p, Len(at[p])>>
        BY <1>1, <3>1 DEF Ordered, Last
      <3>3. \E s \in Suits : Last(at[p]) = <<s, Len(at[s]) + 1>>
        BY <1>1, <1>5, <3>1, HomeChosen
      <3> QED BY <3>1, <3>2, <3>3
    <2>3. p \in FinishSet
      BY <1>3, <2>2 DEF FinishSet, Piles
    <2> HIDE DEF p
    <2> QED BY <1>2, <1>4, <1>5, <2>1, <2>3, LaunchSound
  <1>6. CASE ~(Last(at[p]) \in up /\ Homes(at, Last(at[p])) # {})
    <2>1. UNCHANGED <<at, flight>>
      BY <1>6 DEF DoubleClick
    <2> QED BY <1>2, <2>1, QuietSound
  <1> QED BY <1>5, <1>6

\* A resize ends what moves and forgets what is dragged.
LEMMA ResizeSound ==
  ASSUME IInv, ~spoiled, Resize, spoiled' = Forgets
  PROVE  IInv'
  <1>1. /\ at \in Tables /\ TypeOK /\ ArraysFit /\ FlightFits /\ DragReturns
    BY SoundState
  <1> DEFINE a == [at EXCEPT !["hand"] = <<>>]
  <1>2. /\ IF flight # None THEN Land(a) ELSE at' = a /\ UNCHANGED <<up, flight, won>>
        /\ auto' = FALSE /\ source' = None
        /\ UNCHANGED <<held, pressed, last>>
    BY DEF Resize
  <1>3. a \in Tables /\ a["hand"] = <<>> /\ \A r \in Places : r # "hand" => a[r] = at[r]
    <2>1. <<>> \in Seq(Deck)
      BY EmptySeq
    <2> QED BY <1>1, <2>1, Names DEF Tables
  <1>4. CASE at["hand"] = <<>>
    <2>1. a = at
      BY <1>1, <1>4 DEF Tables
    <2> HIDE DEF a
    <2>2. source = None /\ spoiled' = spoiled
      BY <1>1, <1>4 DEF DragReturns, Forgets, TypeOK
    <2>3. CASE flight # None
      BY <1>2, <2>1, <2>2, <2>3, LandSound
    <2>4. CASE flight = None
      <3>1. won \in BOOLEAN
        BY <1>1 DEF TypeOK
      <3> QED BY <1>2, <2>1, <2>2, <2>4, <3>1, ConcludeSound
    <2> QED BY <2>3, <2>4
  <1>5. CASE at["hand"] # <<>>
    <2>1. source # None /\ flight = None /\ spoiled' = TRUE
      BY <1>1, <1>5 DEF TypeOK, FlightFits, Forgets
    <2>2. at' = a /\ UNCHANGED <<up, flight, won>>
      BY <1>2, <2>1
    <2> HIDE DEF a
    <2>3. TypeOK'
      <3>1. Len(at'["flight"]) = IF flight' = None THEN 0 ELSE 1
        BY <1>1, <1>3, <2>2, Names DEF TypeOK
      <3> QED BY <1>1, <1>2, <1>3, <2>1, <2>2, <3>1 DEF TypeOK, Tables
    <2>4. ArraysFit'
      <3>1. \A r \in Piles : at'[r] = at[r]
        BY <1>3, <2>2, Names
      <3>2. Len(at'["hand"]) <= DragCells
        BY <1>3, <2>2, NamesAssumption
      <3> QED BY <1>1, <3>1, <3>2 DEF ArraysFit
    <2> QED BY <2>1, <2>3, <2>4 DEF IInv
  <1> QED BY <1>4, <1>5

\* The stock, by key or mouse; a draw from nothing changes nothing.
LEMMA DrawSound ==
  ASSUME IInv, ~spoiled, KeyS \/ DownStock, UNCHANGED spoiled
  PROVE  IInv'
  <1>1. TypeOK
    BY SoundState
  <1>2. /\ Idle /\ DrawFromStock /\ UNCHANGED <<source, flight, won>>
        /\ held' \in BOOLEAN /\ (pressed' = None \/ pressed' = pressed) /\ (last' = None \/ last' = last)
    BY <1>1 DEF KeyS, DownStock, TypeOK
  <1>3. CASE DrawOne \/ Recycle
    BY <1>2, <1>3, StockSound
  <1>4. CASE UNCHANGED <<at, up, auto>>
    <2>1. last' = None \/ last' \in Piles \X Nat
      BY <1>1, <1>2 DEF TypeOK
    <2> QED BY <1>2, <1>4, <2>1, QuietSound
  <1> QED BY <1>2, <1>3, <1>4 DEF DrawFromStock

\* The button goes down on a card, on nothing, or while cards move; or it is released.
LEMMA ButtonSound ==
  ASSUME IInv, ~spoiled, DownCard \/ DownElsewhere \/ Swallowed \/ Click, UNCHANGED spoiled
  PROVE  IInv'
  <1>1. at \in Tables /\ TypeOK /\ ArraysFit
    BY SoundState
  <1>2. UNCHANGED <<at, up, source, auto, flight, won>> /\ held' \in BOOLEAN
    BY DEF DownCard, DownElsewhere, Swallowed, Click
  <1>3. CASE DownCard
    <2>1. PICK p \in Piles : \E i \in 1 .. Len(at[p]) :
             CanDragFrom(p, i) /\ pressed' = [pile |-> p, index |-> i, cells |-> at[p]]
      BY <1>3 DEF DownCard
    <2>2. PICK i \in 1 .. Len(at[p]) :
             CanDragFrom(p, i) /\ pressed' = [pile |-> p, index |-> i, cells |-> at[p]]
      BY <2>1
    <2>3. at[p] \in Seq(Deck) /\ Len(at[p]) \in Nat /\ Len(at[p]) <= PileCells
      BY <1>1, PileType, Names DEF ArraysFit
    <2>4. p # "stock"
      BY <2>2, Names DEF CanDragFrom
    <2>5. pressed' \in Presses
      BY <2>2, <2>3, <2>4 DEF Presses
    <2>6. pressed'.index \in 1 .. Len(pressed'.cells) /\ Len(pressed'.cells) <= PileCells
      BY <2>2, <2>3
    <2>7. last' = None \/ last' \in Piles \X Nat
      BY <1>1, <1>3 DEF DownCard, TypeOK
    <2> QED BY <1>2, <2>5, <2>6, <2>7, QuietSound
  <1>4. CASE DownElsewhere \/ Swallowed \/ Click
    <2>1. pressed' = None \/ pressed' = pressed
      BY <1>4 DEF DownElsewhere, Swallowed, Click
    <2>2. last' = None \/ last' \in Piles \X Nat
      <3>1. CASE last' = last
        BY <1>1, <3>1 DEF TypeOK
      <3>2. CASE Hit /\ last' = <<pressed.pile, pressed.index>>
        BY <1>1, <3>2 DEF Hit, TypeOK, Presses
      <3> QED BY <1>4, <3>1, <3>2 DEF DownElsewhere, Swallowed, Click
    <2> QED BY <1>2, <2>1, <2>2, QuietSound
  <1> QED BY <1>3, <1>4

\* Every step keeps the invariant.
LEMMA StepSound ==
  ASSUME IInv, [Next]_vars
  PROVE  IInv'
  <1>1. CASE UNCHANGED vars
    <2>1. UNCHANGED <<at, up, held, pressed, source, last, auto, flight, won, spoiled>>
      BY <1>1 DEF vars, game
    <2>2. TypeOK' /\ ArraysFit'
      BY <2>1 DEF IInv, TypeOK, ArraysFit
    <2>3. CASE ~spoiled
      <3>1. held' \in BOOLEAN /\ (last' = None \/ last' \in Piles \X Nat)
        BY <2>1 DEF IInv, TypeOK
      <3> QED BY <2>1, <2>3, <3>1, QuietSound
    <2>4. CASE spoiled
      BY <2>1, <2>2, <2>4 DEF IInv
    <2> QED BY <2>3, <2>4
  <1>2. CASE NewGame /\ spoiled' = FALSE
    <2>1. held \in BOOLEAN
      BY DEF IInv, TypeOK
    <2> QED BY <1>2, <2>1, NewGameSound
  <1>3. CASE ~spoiled /\ BeginDrag /\ spoiled' = TakesNothing
    <2>1. CASE TakesNothing
      BY <1>3, <2>1, TakesNothingSound
    <2>2. CASE ~TakesNothing
      <3>1. UNCHANGED spoiled
        BY <1>3, <2>2 DEF IInv, TypeOK, TakesNothing
      <3> QED BY <1>3, <2>2, <3>1, BeginDragSound
    <2> QED BY <2>1, <2>2
  <1>4. CASE ~spoiled /\ Resize /\ spoiled' = Forgets
    BY <1>4, ResizeSound
  <1>5. CASE /\ ~spoiled /\ UNCHANGED spoiled
             /\ KeyS \/ DownStock \/ DownCard \/ DownElsewhere \/ Swallowed
                \/ UpDrop \/ Click \/ DoubleClick \/ TimerFinish \/ TimerBegin
    BY <1>5, DrawSound, ButtonSound, UpDropSound, DoubleClickSound, TimerSound
  <1> QED BY <1>1, <1>2, <1>3, <1>4, <1>5 DEF Next

-----------------------------------------------------------------------------
(* Theorems *)

\* The inductive invariant holds for every deck, number of columns and deal.
THEOREM Invariance == Spec => []IInv
  <1>1. Init => IInv
    BY InitSound
  <1>2. IInv /\ [Next]_vars => IInv'
    BY StepSound
  <1> QED BY <1>1, <1>2, PTL DEF Spec

\* No card is lost or repeated, by drawing, recycling, dragging, dropping, refusing, double
\* clicking or an animation, and no pile outgrows its array (Pile.cards, DragInfo.cards).
THEOREM CardsStay == Spec => []DeckComplete
  <1>1. IInv => DeckComplete
    BY DEF IInv, Sound, DeckComplete
  <1> QED BY <1>1, Invariance, PTL

\* Foundations count up from the ace, columns are a face-up run on face-down cards, and the
\* top of a column is turned (canPlaceOn, canDragFrom, the reveals).
THEOREM PilesKeepTheirRules == Spec => []PilesOrdered
  <1>1. IInv => PilesOrdered
    <2> SUFFICES ASSUME IInv, ~spoiled PROVE FoundationsOrdered /\ ColumnsOrdered /\ IdleTopsFaceUp
      BY DEF PilesOrdered
    <2>1. /\ at \in Tables /\ Ordered(at) /\ \A p \in ColumnSet : RunIn(at[p], up) /\ TopsUp
      BY SoundState
    <2>2. FoundationsOrdered
      BY <2>1 DEF FoundationsOrdered, Ordered
    <2>3. ColumnsOrdered
      <3> SUFFICES ASSUME NEW p \in ColumnSet
                   PROVE  \E k \in 0 .. Len(at[p]) :
                             /\ \A i \in 1 .. Len(at[p]) : at[p][i] \in up <=> i > k
                             /\ IsRun(SubSeq(at[p], k + 1, Len(at[p])))
        BY DEF ColumnsOrdered
      <3>1. at[p] \in Seq(Deck) /\ RunIn(at[p], up)
        BY <2>1, PileType, Names
      <3> QED BY <3>1, ColumnShape
    <2>4. IdleTopsFaceUp
      BY <2>1, Names DEF IdleTopsFaceUp, TopsUp
    <2> QED BY <2>2, <2>3, <2>4
  <1> QED BY <1>1, Invariance, PTL

\* An auto-finish that was begun always has a next move: the simulation of canAutoFinishGame
\* answers for the timer's moves.  And full foundations are always noticed as a win.
THEOREM GamesEnd == Spec => []GameEnds
  <1>1. IInv => GameEnds
    <2> SUFFICES ASSUME IInv, ~spoiled PROVE AutoFinishNeverStuck /\ WinNoticed
      BY DEF GameEnds
    <2>1. /\ at \in Tables /\ Once(at) /\ All(at) /\ Ordered(at)
          /\ TypeOK /\ FlightFits /\ AutoFinishes /\ WinNoticed
      BY SoundState
    <2>2. auto \/ flight # None => source = None
      BY <2>1 DEF FlightFits, AutoFinishes
    <2>3. ASSUME auto, flight = None PROVE Movable(at) # {}
      <3>1. ~won /\ source = None /\ at["stock"] = <<>> /\ Finishable(at)
        BY <2>1, <2>3 DEF AutoFinishes
      <3>2. at["hand"] = <<>> /\ at["flight"] = <<>>
        <4>1. Len(at["flight"]) = 0
          BY <2>1, <2>3 DEF TypeOK
        <4> QED BY <2>1, <3>1, <4>1, PileType, Names DEF TypeOK
      <3>3. ~Full(at)
        BY <2>1, <3>1 DEF WinNoticed
      <3> QED BY <2>1, <3>1, <3>2, <3>3, FinishableMoves
    <2> QED BY <2>1, <2>2, <2>3 DEF AutoFinishNeverStuck
  <1> QED BY <1>1, Invariance, PTL

\* What the mouse holds is a face-up run, whatever was moved since it was picked up (the S
\* key draws during a drag, beginDrag takes the cards from the index on).
THEOREM DragsAreRuns == Spec => []DragIsARun
  <1>1. IInv => DragIsARun
    <2> SUFFICES ASSUME IInv, ~spoiled, source # None
                 PROVE  /\ at["hand"] # <<>> /\ IsRun(at["hand"])
                        /\ \A i \in DOMAIN at["hand"] : at["hand"][i] \in up
      BY DEF DragIsARun
    <2>1. at \in Tables /\ DragReturns /\ OthersUp
      BY SoundState
    <2>2. DOMAIN at["hand"] = 1 .. Len(at["hand"])
      BY <2>1, PileType, Names
    <2> QED BY <2>1, <2>2 DEF DragReturns, OthersUp
  <1> QED BY <1>1, Invariance, PTL

=============================================================================
