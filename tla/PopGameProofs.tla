--------------------------- MODULE PopGameProofs ---------------------------
(***************************************************************************)
(* Proofs about PopGame, for a table of any (even) size, any layout of the *)
(* screen and any sequence of samples.                                     *)
(*                                                                         *)
(* The inductive invariant Inductive is the type invariant with, for the   *)
(* game, GameOK: the cards lie on distinct indices, pairs stay complete,   *)
(* the counter counts and the selection exists.  GameOK is stated of a     *)
(* game record, so that each operation of pop.c is one lemma and an        *)
(* iteration of main() is the composition of the lemmas it calls.  The     *)
(* last section shows that PopGame implements PairGame.                    *)
(***************************************************************************)
EXTENDS PopGame, FiniteSetTheorems, TLAPS

Games == [block   : [Pos -> Blocks],
          pressed : Pos \cup {NoBlock},
          left    : Int,
          screen  : [Pos -> Int]]

Present(g) == {i \in Pos : g.block[i].exist}

GameOK(g) ==
  /\ g \in Games
  /\ \A i, j \in Pos : g.block[i].card = g.block[j].card => i = j
  /\ \A i, j \in Pos : Img(g.block[i].card) = Img(g.block[j].card)
                         => g.block[i].exist = g.block[j].exist
  /\ g.left = Cardinality(Present(g))
  /\ g.pressed # NoBlock => g.block[g.pressed].exist

-----------------------------------------------------------------------------
(* The positions of the table.                                             *)
LEMMA PosFacts ==
  /\ N \in Nat \ {0}
  /\ Pos \subseteq Int
  /\ NoBlock \notin Pos
  /\ IsFiniteSet(Pos)
  /\ Cardinality(Pos) = N
<1>1. N \in Nat \ {0}
  BY PopAssumption DEF N
<1>2. Pos \subseteq Int /\ NoBlock \notin Pos
  BY <1>1 DEF Pos, NoBlock
<1>3. IsFiniteSet(Pos) /\ Cardinality(Pos) = N
  <2>1. 0 \in Int /\ N - 1 \in Int /\ ~(0 > N - 1) /\ (N - 1) - 0 + 1 = N
    BY <1>1
  <2>. QED  BY <2>1, FS_Interval DEF Pos
<1>. QED  BY <1>1, <1>2, <1>3

(* No more blocks exist than the table has places.                         *)
LEMMA PresentFacts ==
  ASSUME NEW g
  PROVE  /\ IsFiniteSet(Present(g))
         /\ Cardinality(Present(g)) \in 0 .. N
<1>1. Present(g) \in SUBSET Pos
  BY DEF Present
<1>2. IsFiniteSet(Present(g)) /\ Cardinality(Present(g)) <= N
  BY <1>1, PosFacts, FS_Subset
<1>. QED  BY <1>2, PosFacts, FS_CardinalityType

(* get_block_id answers with the index of a block that exists, or -1.      *)
LEMMA GetBlockIdFacts ==
  ASSUME NEW g \in Games, NEW q \in Int \X Int
  PROVE  \/ GetBlockId(g, q) = NoBlock
         \/ GetBlockId(g, q) \in Pos /\ g.block[GetBlockId(g, q)].exist
<1> DEFINE idy == (q[2] - YOff) \div BHgt
           idx == (q[1] - XOff) \div BLen
<1>1. CASE q[2] >= YOff /\ idy < YN /\ q[1] >= XOff /\ idx < XN
  <2>1. idx \in 0 .. XN - 1
    BY <1>1, PopAssumption, SMT
  <2>2. idy \in 0 .. YN - 1
    BY <1>1, PopAssumption, SMT
  <2> HIDE DEF idx, idy
  <2>3. idx + idy * XN \in Pos
    <3>1. idy + 1 <= YN /\ idy * XN \in Nat /\ XN * YN \in Nat
      BY <2>2, PopAssumption
    <3>2. (idy + 1) * XN <= YN * XN
      BY <3>1, <2>2, PopAssumption
    <3>. QED  BY <3>1, <3>2, <2>1, <2>2, PopAssumption DEF Pos, N
  <2>4. GetBlockId(g, q) = IF g.block[idx + idy * XN].exist
                           THEN idx + idy * XN ELSE NoBlock
    BY <1>1 DEF GetBlockId, idx, idy
  <2>. QED  BY <2>3, <2>4
<1>2. CASE ~(q[2] >= YOff /\ idy < YN /\ q[1] >= XOff /\ idx < XN)
  BY <1>2 DEF GetBlockId
<1>. QED  BY <1>1, <1>2

(* A picture is a number.                                                  *)
LEMMA PictureType ==
  ASSUME NEW c \in Pos, NEW on \in BOOLEAN
  PROVE  Picture(c, on) \in Int /\ Img(c) \in Int
BY PosFacts DEF Picture, Img

(* A card has one mate.                                                    *)
LEMMA OneMate ==
  ASSUME NEW a \in Int, NEW b \in Int, NEW c \in Int,
         Img(a) = Img(b), Img(c) = Img(b), a # b, c # b
  PROVE  a = c
BY SMT DEF Img

-----------------------------------------------------------------------------
(* Drawing changes nothing of the table.                                   *)
LEMMA SameTableOK ==
  ASSUME NEW g, GameOK(g), NEW h \in Games,
         h.block = g.block, h.left = g.left,
         h.pressed # NoBlock => h.block[h.pressed].exist
  PROVE  GameOK(h)
<1>1. Present(h) = Present(g)
  BY DEF Present
<1>. QED  BY <1>1 DEF GameOK

(* press_block on a block that exists leaves a well-formed game: deselect, *)
(* select and switch keep the table, a match removes exactly two blocks,   *)
(* which are a pair.                                                       *)
LEMMA PressBlockOK ==
  ASSUME NEW g, GameOK(g), NEW id \in Pos, g.block[id].exist
  PROVE  GameOK(PressBlock(g, id))
<1> SUFFICES ASSUME NEW h, h = PressBlock(g, id)
             PROVE  GameOK(h)
  OBVIOUS
<1> DEFINE card == g.block[id].card
           old  == g.block[g.pressed].card
<1>1. g \in Games /\ card \in Pos /\ card \in Int
  BY PosFacts DEF GameOK, Games, Blocks
<1>2. g.pressed # NoBlock => g.pressed \in Pos /\ old \in Pos /\ old \in Int
  BY <1>1, PosFacts DEF Games, Blocks
<1>8. g = [block |-> g.block, pressed |-> g.pressed, left |-> g.left, screen |-> g.screen]
  BY <1>1 DEF Games
<1>3. ASSUME h.block = g.block, h.left = g.left, h \in Games,
             h.pressed \in {NoBlock, id}
      PROVE  GameOK(h)
  BY <1>3, SameTableOK
<1>4. CASE g.pressed = id
  <2>1. h = [block |-> g.block, pressed |-> NoBlock, left |-> g.left,
             screen |-> [g.screen EXCEPT ![id] = Picture(card, FALSE)]]
    BY <1>4, <1>8 DEF PressBlock
  <2>2. Picture(card, FALSE) \in Int
    BY <1>1, PictureType
  <2>3. h \in Games /\ h.block = g.block /\ h.left = g.left /\ h.pressed = NoBlock
    BY ONLY <1>1, <2>1, <2>2 DEF Games
  <2>. QED  BY <2>3, <1>3
<1>5. CASE g.pressed # id /\ g.pressed = NoBlock
  <2>1. h = [block |-> g.block, pressed |-> id, left |-> g.left,
             screen |-> [g.screen EXCEPT ![id] = Picture(card, TRUE)]]
    BY <1>5, <1>8 DEF PressBlock
  <2>2. Picture(card, TRUE) \in Int
    BY <1>1, PictureType
  <2>3. h \in Games /\ h.block = g.block /\ h.left = g.left /\ h.pressed = id
    BY ONLY <1>1, <2>1, <2>2 DEF Games
  <2>. QED  BY <2>3, <1>3
<1>6. CASE g.pressed # id /\ g.pressed # NoBlock /\ Img(card) # Img(old)
  <2>1. h = [block |-> g.block, pressed |-> id, left |-> g.left,
             screen |-> [g.screen EXCEPT ![g.pressed] = Picture(old, FALSE),
                                         ![id] = Picture(card, TRUE)]]
    BY <1>6, <1>8 DEF PressBlock
  <2>2. Picture(card, TRUE) \in Int /\ Picture(old, FALSE) \in Int
    BY <1>1, <1>2, <1>6, PictureType
  <2>3. h \in Games /\ h.block = g.block /\ h.left = g.left /\ h.pressed = id
    BY ONLY <1>1, <2>1, <2>2 DEF Games
  <2>. QED  BY <2>3, <1>3
<1>7. CASE g.pressed # id /\ g.pressed # NoBlock /\ Img(card) = Img(old)
  <2> DEFINE p == g.pressed
  <2>1. h = [block   |-> [i \in Pos |-> IF i \in {id, p}
                                       THEN [card |-> g.block[i].card, exist |-> FALSE]
                                       ELSE g.block[i]],
             pressed |-> NoBlock,
             left    |-> g.left - 2,
             screen  |-> [g.screen EXCEPT ![id] = Blank, ![p] = Blank]]
    BY <1>7 DEF PressBlock, RemovePair
  <2>2. p \in Pos /\ g.block[p].exist /\ p # id
    BY <1>2, <1>7 DEF GameOK
  <2>3. g.left \in Int /\ g.block \in [Pos -> Blocks] /\ g.screen \in [Pos -> Int]
    BY <1>1 DEF Games
  <2>4. h \in Games
    <3>1. h.block \in [Pos -> Blocks]
      BY ONLY <2>1, <2>3 DEF Blocks
    <3>2. Blank \in Int
      BY DEF Blank
    <3>3. h.screen \in [Pos -> Int]
      BY ONLY <2>1, <2>3, <3>2
    <3>4. h = [block |-> h.block, pressed |-> NoBlock, left |-> h.left, screen |-> h.screen]
          /\ h.left \in Int
      BY ONLY <2>1, <2>3
    <3>. QED  BY ONLY <3>1, <3>3, <3>4 DEF Games
  <2>5. \A i \in Pos : /\ h.block[i].card = g.block[i].card
                       /\ h.block[i].exist = (g.block[i].exist /\ i # id /\ i # p)
    BY ONLY <2>1, <2>3 DEF Blocks
  <2>6. Cardinality(Present(h)) = Cardinality(Present(g)) - 2
    <3>1. Present(h) = (Present(g) \ {id}) \ {p}
      BY <2>5 DEF Present
    <3>2. id \in Present(g) /\ p \in Present(g) \ {id}
      BY <2>2 DEF Present
    <3>3. /\ IsFiniteSet(Present(g) \ {id})
          /\ Cardinality(Present(g) \ {id}) = Cardinality(Present(g)) - 1
      BY <3>2, PresentFacts, FS_RemoveElement
    <3>4. Cardinality((Present(g) \ {id}) \ {p}) = Cardinality(Present(g) \ {id}) - 1
      BY <3>2, <3>3, FS_RemoveElement
    <3>. QED  BY <3>1, <3>3, <3>4, PresentFacts
  <2>7. ASSUME NEW i \in Pos, NEW j \in Pos,
               Img(h.block[i].card) = Img(h.block[j].card)
        PROVE  h.block[i].exist = h.block[j].exist
    <3>1. Img(g.block[i].card) = Img(g.block[j].card)
      BY <2>5, <2>7
    <3>2. g.block[i].exist = g.block[j].exist
      BY <3>1 DEF GameOK
    <3>3. ASSUME NEW k \in Pos, Img(g.block[k].card) = Img(card)
          PROVE  k \in {id, p}
      <4>1. g.block[k].card \in Int /\ old \in Int
        BY <2>2, <2>3, PosFacts DEF Blocks
      <4>2. old # card
        BY <2>2 DEF GameOK
      <4>3. g.block[k].card # card => g.block[k].card = old
        BY <1>1, <1>7, <3>3, <4>1, <4>2, OneMate
      <4>. QED  BY <4>3, <2>2 DEF GameOK
    <3>4. i \in {id, p} <=> j \in {id, p}
      BY <3>1, <3>3, <1>7
    <3>. QED  BY <3>2, <3>4, <2>5
  <2>8. h.left = Cardinality(Present(h)) /\ h.pressed = NoBlock
    BY <2>1, <2>6 DEF GameOK
  <2>9. \A i, j \in Pos : h.block[i].card = h.block[j].card => i = j
    BY <2>5 DEF GameOK
  <2>. QED  BY <2>4, <2>7, <2>8, <2>9 DEF GameOK
<1>. QED  BY <1>4, <1>5, <1>6, <1>7

(* refresh_screen and show_map only draw.                                  *)
LEMMA DrawingOK ==
  ASSUME NEW g, GameOK(g)
  PROVE  GameOK(RefreshScreen(g)) /\ GameOK(ShowMap(g))
<1>1. g \in Games /\ g.block \in [Pos -> Blocks] /\ g.screen \in [Pos -> Int]
  BY DEF GameOK, Games
<1>2. GameOK(RefreshScreen(g))
  <2> SUFFICES ASSUME NEW h, h = RefreshScreen(g)
               PROVE  GameOK(h)
    OBVIOUS
  <2>1. h = [g EXCEPT !.screen = [i \in Pos |-> Blank]]
    BY DEF RefreshScreen
  <2>2. Blank \in Int
    BY DEF Blank
  <2>3. h \in Games /\ h.block = g.block /\ h.left = g.left /\ h.pressed = g.pressed
    BY ONLY <1>1, <2>1, <2>2 DEF Games
  <2>. QED  BY <2>3, SameTableOK DEF GameOK
<1>3. GameOK(ShowMap(g))
  <2> SUFFICES ASSUME NEW h, h = ShowMap(g)
               PROVE  GameOK(h)
    OBVIOUS
  <2> DEFINE s == [i \in Pos |-> IF g.block[i].exist
                                 THEN Picture(g.block[i].card, FALSE)
                                 ELSE g.screen[i]]
  <2>1. h = [g EXCEPT !.screen = s]
    BY <1>1 DEF ShowMap, Games
  <2>2. s \in [Pos -> Int]
    <3> SUFFICES ASSUME NEW i \in Pos
                 PROVE  Picture(g.block[i].card, FALSE) \in Int /\ g.screen[i] \in Int
      OBVIOUS
    <3>1. g.block[i].card \in Pos
      BY ONLY <1>1, i \in Pos DEF Blocks
    <3>. QED  BY <1>1, <3>1, PictureType
  <2> HIDE DEF s
  <2>3. h \in Games /\ h.block = g.block /\ h.left = g.left /\ h.pressed = g.pressed
    BY ONLY <1>1, <2>1, <2>2 DEF Games
  <2>. QED  BY <2>3, SameTableOK DEF GameOK
<1>. QED  BY <1>2, <1>3

(* reset_map puts every block back; the selection it keeps exists then.    *)
LEMMA ResetMapOK ==
  ASSUME NEW g, GameOK(g)
  PROVE  GameOK(ResetMap(g))
<1> SUFFICES ASSUME NEW h, h = ResetMap(g)
             PROVE  GameOK(h)
  OBVIOUS
<1> DEFINE b == [i \in Pos |-> [card |-> g.block[i].card, exist |-> TRUE]]
<1>1. g \in Games /\ g.block \in [Pos -> Blocks]
  BY DEF GameOK, Games
<1>2. h = [block |-> b, pressed |-> g.pressed, left |-> N, screen |-> g.screen]
  BY <1>1 DEF ResetMap, Games
<1>3. b \in [Pos -> Blocks] /\ N \in Int
  <2>1. b \in [Pos -> Blocks]
    BY ONLY <1>1 DEF Blocks
  <2>. QED  BY <2>1, PosFacts
<1>4. \A i \in Pos : b[i].card = g.block[i].card /\ b[i].exist = TRUE
  OBVIOUS
<1> HIDE DEF b
<1>5. h \in Games
  BY ONLY <1>1, <1>2, <1>3 DEF Games
<1>6. Present(h) = Pos
  BY <1>2, <1>4 DEF Present
<1>7. h.left = Cardinality(Present(h))
  BY <1>2, <1>6, PosFacts
<1>8. h.pressed # NoBlock => h.block[h.pressed].exist
  <2>1. h.block = b /\ h.pressed \in Pos \cup {NoBlock}
    BY ONLY <1>2, <1>5 DEF Games
  <2>. QED  BY <2>1, <1>4
<1>9. \A i, j \in Pos : h.block[i].card = h.block[j].card => i = j
  BY <1>2, <1>4 DEF GameOK
<1>10. \A i, j \in Pos : h.block[i].exist = h.block[j].exist
  <2>1. h.block = b
    BY <1>2
  <2>. QED  BY <2>1, <1>4
<1>. QED  BY <1>5, <1>7, <1>8, <1>9, <1>10 DEF GameOK

(* A shuffle takes every old block exactly once.                           *)
LEMMA ShuffleFacts ==
  ASSUME NEW p \in Shuffles, NEW S \in SUBSET Pos
  PROVE  Cardinality({i \in Pos : p[i] \in S}) = Cardinality(S)
<1> DEFINE T == {i \in Pos : p[i] \in S}
           f == [i \in T |-> p[i]]
<1>1. p \in Injection(Pos, Pos)
  BY DEF Shuffles, Injection, IsInjective
<1>2. p \in Surjection(Pos, Pos)
  BY <1>1, PosFacts, FS_Injection
<1>3. f \in Injection(T, S)
  BY DEF Shuffles, Injection, IsInjective
<1>4. f \in Surjection(T, S)
  BY <1>2 DEF Surjection
<1>5. ExistsBijection(T, S)
  BY <1>3, <1>4 DEF ExistsBijection, Bijection
<1>6. IsFiniteSet(T)
  BY PosFacts, FS_Subset, T \in SUBSET Pos
<1>. QED  BY <1>5, <1>6, FS_Bijection

(* change_map deselects and permutes: the table keeps its blocks.          *)
LEMMA ChangeMapOK ==
  ASSUME NEW g, GameOK(g), NEW p \in Shuffles
  PROVE  GameOK(ChangeMap(g, p)) /\ ChangeMap(g, p).pressed = NoBlock
<1> DEFINE h == IF g.pressed >= 0 THEN PressBlock(g, g.pressed) ELSE g
<1>1. g \in Games /\ g.pressed \in Pos \cup {NoBlock}
  BY DEF GameOK, Games
<1>2. GameOK(h) /\ h.pressed = NoBlock
  <2>1. CASE g.pressed = NoBlock
    <3>1. ~(g.pressed >= 0)
      BY <2>1 DEF NoBlock
    <3>. QED  BY <2>1, <3>1
  <2>2. CASE g.pressed \in Pos
    <3>1. g.pressed >= 0 /\ g.pressed # NoBlock
      BY <2>2, PosFacts DEF Pos, NoBlock
    <3>2. GameOK(PressBlock(g, g.pressed))
      BY <2>2, <3>1, PressBlockOK DEF GameOK
    <3>3. PressBlock(g, g.pressed).pressed = NoBlock
      <4> SUFFICES ASSUME NEW k, k = PressBlock(g, g.pressed)
                   PROVE  k.pressed = NoBlock
        OBVIOUS
      <4> DEFINE s == [g.screen EXCEPT ![g.pressed] =
                                      Picture(g.block[g.pressed].card, FALSE)]
      <4>1. k = [block |-> g.block, pressed |-> NoBlock, left |-> g.left, screen |-> s]
        BY <1>1 DEF PressBlock, Games
      <4>. QED  BY ONLY <4>1
    <3>. QED  BY <3>1, <3>2, <3>3
  <2>. QED  BY <1>1, <2>1, <2>2
<1>10. ChangeMap(g, p) = [h EXCEPT !.block = [i \in Pos |-> h.block[p[i]]]]
  BY Zenon DEF ChangeMap
<1> HIDE DEF h
<1>3. p \in [Pos -> Pos] /\ \A i, j \in Pos : p[i] = p[j] => i = j
  BY DEF Shuffles
<1> SUFFICES ASSUME NEW k, k = [h EXCEPT !.block = [i \in Pos |-> h.block[p[i]]]]
             PROVE  GameOK(k) /\ k.pressed = NoBlock
  BY <1>10, Zenon
<1>4. h \in Games
  BY <1>2 DEF GameOK
<1>5. k \in Games /\ k.left = h.left /\ k.pressed = h.pressed
  BY ONLY <1>3, <1>4, k = [h EXCEPT !.block = [i \in Pos |-> h.block[p[i]]]] DEF Games
<1>6. \A i \in Pos : k.block[i] = h.block[p[i]]
  BY ONLY <1>3, <1>4, k = [h EXCEPT !.block = [i \in Pos |-> h.block[p[i]]]] DEF Games
<1>7. k.left = Cardinality(Present(k))
  <2>1. Present(k) = {i \in Pos : p[i] \in Present(h)}
    BY <1>3, <1>6 DEF Present
  <2>2. Cardinality(Present(k)) = Cardinality(Present(h))
    BY <2>1, ShuffleFacts DEF Present
  <2>. QED  BY <2>2, <1>2, <1>5 DEF GameOK
<1>8. \A i, j \in Pos : k.block[i].card = k.block[j].card => i = j
  BY <1>2, <1>3, <1>6 DEF GameOK
<1>9. \A i, j \in Pos : Img(k.block[i].card) = Img(k.block[j].card)
                           => k.block[i].exist = k.block[j].exist
  BY <1>2, <1>3, <1>6 DEF GameOK
<1>. QED  BY <1>2, <1>5, <1>7, <1>8, <1>9 DEF GameOK

-----------------------------------------------------------------------------
(* The iterations of main().                                               *)

(* The press at the end of an iteration keeps the game well-formed, and    *)
(* leaves mode one of its two values.                                      *)
LEMMA TappedOK ==
  ASSUME NEW g, GameOK(g), NEW m \in {0, 1}, at \in Int \X Int
  PROVE  GameOK(Tapped(g, m)) /\ ModeAfter(g, m) \in {0, 1}
<1>1. g \in Games
  BY DEF GameOK
<1>2. CASE GetBlockId(g, at) = NoBlock
  <2>1. ~(GetBlockId(g, at) >= 0)
    BY <1>2 DEF NoBlock
  <2>. QED  BY <2>1 DEF Tapped, ModeAfter
<1>3. CASE GetBlockId(g, at) \in Pos /\ g.block[GetBlockId(g, at)].exist
  <2>1. GameOK(PressBlock(g, GetBlockId(g, at)))
    BY <1>3, PressBlockOK
  <2>. QED  BY <2>1 DEF Tapped, ModeAfter
<1>. QED  BY <1>1, <1>2, <1>3, GetBlockIdFacts

(* A point lies in at most one of two disjoint rectangles.                 *)
LEMMA DisjointFacts ==
  ASSUME NEW r \in Rectangles, NEW s \in Rectangles, Disjoint(r, s),
         NEW q \in Int \X Int
  PROVE  ~(Within(q, r) /\ Within(q, s))
BY SMT DEF Rectangles, Disjoint, Within

(* Halving the sum of two numbers of an interval stays in it.              *)
LEMMA HalfBetween ==
  ASSUME NEW a \in Int, NEW b \in Int, NEW lo \in Int, NEW hi \in Int,
         lo <= a, a < hi, lo <= b, b < hi
  PROVE  lo <= (a + b) \div 2 /\ (a + b) \div 2 < hi
BY SMT

(* The average of two points is a point, and it stays in a rectangle that  *)
(* contains both.                                                          *)
LEMMA AverageInside ==
  ASSUME NEW q \in Int \X Int, NEW old \in Int \X Int
  PROVE  /\ Average(q, old) \in Int \X Int
         /\ \A r \in Rectangles :
               Within(q, r) /\ Within(old, r) => Within(Average(q, old), r)
<1>1. q[1] \in Int /\ q[2] \in Int /\ old[1] \in Int /\ old[2] \in Int
  OBVIOUS
<1>2. ASSUME NEW a \in Int, NEW b \in Int
      PROVE  (a + b) \div 2 \in Int
  BY SMT
<1>3. Average(q, old) \in Int \X Int
  BY <1>1, <1>2 DEF Average
<1>4. /\ Average(q, old)[1] = (q[1] + old[1]) \div 2
      /\ Average(q, old)[2] = (q[2] + old[2]) \div 2
  BY DEF Average
<1>5. ASSUME NEW r \in Rectangles, Within(q, r), Within(old, r)
      PROVE  Within(Average(q, old), r)
  <2>1. /\ r.x \in Int /\ r.y \in Int /\ r.x + r.w \in Int /\ r.y + r.h \in Int
    BY DEF Rectangles
  <2>. QED  BY <1>1, <1>4, <1>5, <2>1, HalfBetween DEF Within
<1>. QED  BY <1>3, <1>5

(* The rectangles around a point are rectangles, and contain it.           *)
LEMMA AroundFacts ==
  ASSUME NEW q
  PROVE  Around(q) \subseteq Rectangles /\ \A r \in Around(q) : Within(q, r)
<1>1. \A b \in Buttons : ButtonRect[b] \in Rectangles
  BY PopAssumption
<1>2. ASSUME NEW i \in Pos
      PROVE  BlockRect(i) \in Rectangles
  <2>1. i \in Int /\ XN \in Nat \ {0} /\ XOff \in Int /\ YOff \in Int
        /\ BLen \in Nat \ {0} /\ BHgt \in Nat \ {0}
    BY PosFacts, PopAssumption
  <2>2. i % XN \in Int /\ i \div XN \in Int
    BY <2>1, SMT
  <2>3. (i % XN) * BLen + XOff \in Int /\ (i \div XN) * BHgt + YOff \in Int
    BY <2>1, <2>2
  <2>. QED  BY <2>1, <2>3 DEF BlockRect, Rectangles
<1>. QED  BY <1>1, <1>2 DEF Around

-----------------------------------------------------------------------------
(* The inductive invariant.                                                *)
Inductive ==
  /\ GameOK(game)
  /\ mode \in {0, 1}
  /\ touching \in BOOLEAN
  /\ newclick = ~touching
  /\ at \in Int \X Int
  /\ active \in [Buttons -> BOOLEAN]
  /\ run \in {"loop", "quit", "dead"}
  /\ freed \in [Pos -> Nat]
  /\ span \subseteq Rectangles
  /\ OneActiveButton
  /\ AverageStaysInside
  /\ FreedOnce

LEMMA InitInductive == Init => Inductive
<1> SUFFICES ASSUME Init
             PROVE  Inductive
  OBVIOUS
<1>1. GameOK(InitMap)
  <2> SUFFICES ASSUME NEW g, g = InitMap
               PROVE  GameOK(g)
    OBVIOUS
  <2>1. g = [block   |-> [i \in Pos |-> [card |-> i, exist |-> TRUE]],
             pressed |-> NoBlock,
             left    |-> N,
             screen  |-> [i \in Pos |-> Blank]]
    BY DEF InitMap
  <2>2. Blank \in Int /\ N \in Int
    BY PosFacts DEF Blank
  <2>3. g.block \in [Pos -> Blocks]
    BY ONLY <2>1 DEF Blocks
  <2>4. g \in Games
    BY ONLY <2>1, <2>2, <2>3 DEF Games
  <2>5. \A i \in Pos : g.block[i].card = i /\ g.block[i].exist = TRUE
    BY ONLY <2>1
  <2>6. Present(g) = Pos /\ g.left = N /\ g.pressed = NoBlock
    BY <2>1, <2>5 DEF Present
  <2>7. g.left = Cardinality(Present(g))
    BY <2>6, PosFacts
  <2>8. \A i, j \in Pos : /\ g.block[i].card = g.block[j].card => i = j
                         /\ g.block[i].exist = g.block[j].exist
    BY ONLY <2>5
  <2>. QED  BY <2>4, <2>6, <2>7, <2>8 DEF GameOK
<1>2. Centre \in Int \X Int
  BY PopAssumption
<1>3. OneActiveButton /\ AverageStaysInside /\ FreedOnce
  BY DEF Init, OneActiveButton, AverageStaysInside, FreedOnce
<1>. QED  BY <1>1, <1>2, <1>3 DEF Init, Inductive

(* Each card lies at exactly one index: this is what exit_map relies on.   *)
LEMMA OneIndex ==
  ASSUME NEW g, GameOK(g), NEW c \in Pos
  PROVE  Cardinality({i \in Pos : g.block[i].card = c}) = 1
<1> DEFINE f == [i \in Pos |-> g.block[i].card]
<1>1. g.block \in [Pos -> Blocks]
  BY DEF GameOK, Games
<1>2. \A i \in Pos : g.block[i].card \in Pos
  BY ONLY <1>1 DEF Blocks
<1>3. f \in Injection(Pos, Pos)
  BY <1>2 DEF GameOK, Injection, IsInjective
<1>4. f \in Surjection(Pos, Pos)
  BY <1>3, PosFacts, FS_Injection
<1>5. PICK k \in Pos : f[k] = c
  BY <1>4 DEF Surjection
<1>6. {i \in Pos : g.block[i].card = c} = {k}
  BY <1>5 DEF GameOK
<1>. QED  BY <1>6, FS_Singleton

(* A finished touch: what every release leaves behind besides the game.    *)
LEMMA LiftFingerOK ==
  ASSUME Inductive, NEW m \in {0, 1}, LiftFinger(m), GameOK(game'),
         run' \in {"loop", "quit"}, freed' \in [Pos -> Nat], FreedOnce'
  PROVE  Inductive'
<1>1. OneActiveButton' /\ AverageStaysInside'
  BY DEF LiftFinger, OneActiveButton, AverageStaysInside
<1>2. at' \in Int \X Int
  BY DEF Inductive, LiftFinger
<1>. QED  BY <1>1, <1>2 DEF Inductive, LiftFinger, GameOK, Present

LEMMA TouchOK ==
  ASSUME Inductive, NEW q \in Points, Touch(q)
  PROVE  Inductive'
<1>1. q \in Int \X Int
  BY PopAssumption
<1>2. \A b, c \in Buttons : active'[b] /\ active'[c] => b = c
  <2> SUFFICES ASSUME NEW b \in Buttons, NEW c \in Buttons, b # c,
                      Within(q, ButtonRect[b]), Within(q, ButtonRect[c])
               PROVE  FALSE
    BY DEF Touch, ButtonsUnder
  <2>. QED  BY <1>1, PopAssumption, DisjointFacts
<1>3. OneActiveButton'
  BY <1>2 DEF OneActiveButton, Touch
<1>4. at' \in Int \X Int /\ span' \subseteq Rectangles /\ AverageStaysInside'
  <2>1. CASE newclick
    BY <2>1, <1>1, AroundFacts DEF Touch, AverageStaysInside, Inductive
  <2>2. CASE ~newclick
    <3>1. at' = Average(q, at) /\ span' = span \cap Around(q)
      BY <2>2 DEF Touch, Inductive
    <3>2. at \in Int \X Int
      BY DEF Inductive
    <3>3. span' \subseteq Rectangles
      BY <3>1, AroundFacts
    <3>4. ASSUME NEW r \in span'
          PROVE  Within(at', r)
      <4>1. Within(q, r) /\ Within(at, r) /\ r \in Rectangles
        BY <3>1, AroundFacts DEF Inductive, AverageStaysInside
      <4>. QED  BY <1>1, <3>1, <3>2, <4>1, AverageInside
    <3>5. at' \in Int \X Int
      BY <1>1, <3>1, <3>2, AverageInside
    <3>. QED  BY <3>3, <3>4, <3>5 DEF AverageStaysInside
  <2>. QED  BY <2>1, <2>2
<1>5. active' \in [Buttons -> BOOLEAN]
  BY DEF Touch, ButtonsUnder, Within
<1>6. GameOK(game') /\ FreedOnce'
  BY DEF Touch, Inductive, GameOK, Present, FreedOnce
<1>. QED  BY <1>3, <1>4, <1>5, <1>6 DEF Inductive, Touch

LEMMA ReleaseOK ==
  ASSUME Inductive, Release
  PROVE  Inductive'
<1>1. GameOK(game) /\ mode \in {0, 1} /\ at \in Int \X Int
  BY DEF Inductive
<1>2. CASE ReleaseIdle
  <2>1. GameOK(Tapped(game, mode)) /\ ModeAfter(game, mode) \in {0, 1}
    BY <1>1, TappedOK
  <2>2. run' \in {"loop", "quit"} /\ freed' \in [Pos -> Nat] /\ FreedOnce'
    BY <1>2 DEF ReleaseIdle, Inductive, FreedOnce
  <2>. QED  BY <1>2, <2>1, <2>2, LiftFingerOK DEF ReleaseIdle
<1>3. CASE ReleaseRestart
  <2>1. PICK p \in Shuffles :
          LET g == ShowMap(ChangeMap(ResetMap(RefreshScreen(game)), p))
          IN  game' = Tapped(g, 1) /\ LiftFinger(ModeAfter(g, 1))
    BY <1>3 DEF ReleaseRestart
  <2> DEFINE g == ShowMap(ChangeMap(ResetMap(RefreshScreen(game)), p))
  <2>2. GameOK(g)
    BY <1>1, DrawingOK, ResetMapOK, ChangeMapOK
  <2> HIDE DEF g
  <2>3. GameOK(Tapped(g, 1)) /\ ModeAfter(g, 1) \in {0, 1}
    BY <1>1, <2>2, TappedOK
  <2>4. run' \in {"loop", "quit"} /\ freed' \in [Pos -> Nat] /\ FreedOnce'
    BY <1>3 DEF ReleaseRestart, Inductive, FreedOnce
  <2>. QED  BY <2>1, <2>3, <2>4, LiftFingerOK DEF g
<1>4. CASE ReleaseRemap
  <2>1. PICK p \in Shuffles :
          LET g == ShowMap(ChangeMap(RefreshScreen(game), p))
          IN  game' = Tapped(g, 1) /\ LiftFinger(ModeAfter(g, 1))
    BY <1>4 DEF ReleaseRemap
  <2> DEFINE g == ShowMap(ChangeMap(RefreshScreen(game), p))
  <2>2. GameOK(g)
    BY <1>1, DrawingOK, ChangeMapOK
  <2> HIDE DEF g
  <2>3. GameOK(Tapped(g, 1)) /\ ModeAfter(g, 1) \in {0, 1}
    BY <1>1, <2>2, TappedOK
  <2>4. run' \in {"loop", "quit"} /\ freed' \in [Pos -> Nat] /\ FreedOnce'
    BY <1>4 DEF ReleaseRemap, Inductive, FreedOnce
  <2>. QED  BY <2>1, <2>3, <2>4, LiftFingerOK DEF g
<1>5. CASE ReleaseQuit
  <2>1. GameOK(Tapped(game, mode)) /\ ModeAfter(game, mode) \in {0, 1}
    BY <1>1, TappedOK
  <2>2. GameOK(game')
    BY <1>5, <2>1, DrawingOK DEF ReleaseQuit
  <2>3. \A c \in Pos : freed[c] = 0
    BY <1>5 DEF ReleaseQuit, Inductive, FreedOnce
  <2>4. freed' = [c \in Pos |-> 1]
    BY <1>1, <1>5, <2>3, OneIndex DEF ReleaseQuit
  <2>5. run' \in {"loop", "quit"} /\ freed' \in [Pos -> Nat] /\ FreedOnce'
    BY <1>5, <2>4 DEF ReleaseQuit, FreedOnce
  <2>. QED  BY <1>5, <2>1, <2>2, <2>5, LiftFingerOK DEF ReleaseQuit
<1>. QED  BY <1>2, <1>3, <1>4, <1>5 DEF Release

(* Every step keeps the inductive invariant.                               *)
LEMMA NextInductive == Inductive /\ [Next]_vars => Inductive'
<1> SUFFICES ASSUME Inductive, [Next]_vars
             PROVE  Inductive'
  OBVIOUS
<1>1. CASE \E q \in Points : Touch(q)
  BY <1>1, TouchOK
<1>2. CASE Release
  BY <1>2, ReleaseOK
<1>3. CASE Die
  BY <1>3 DEF Die, Inductive, GameOK, Present, OneActiveButton,
              AverageStaysInside, FreedOnce
<1>4. CASE UNCHANGED vars
  BY <1>4 DEF vars, Inductive, GameOK, Present, OneActiveButton,
              AverageStaysInside, FreedOnce
<1>. QED  BY <1>1, <1>2, <1>3, <1>4 DEF Next

LEMMA AlwaysInductive == Spec => []Inductive
BY InitInductive, NextInductive, PTL DEF Spec

-----------------------------------------------------------------------------
(* The game's fields and the locals of main() keep their types.            *)
THEOREM TypeCorrect == Spec => []TypeOK
<1>1. Inductive => TypeOK
  <2> SUFFICES ASSUME Inductive
               PROVE  TypeOK
    OBVIOUS
  <2>1. game \in Games /\ game.left \in 0 .. N
    BY PresentFacts DEF Inductive, GameOK
  <2>. QED  BY <2>1 DEF Inductive, TypeOK, Games
<1>. QED  BY <1>1, AlwaysInductive, PTL

(* Resets, shuffles and matches never lose, double or split a pair of      *)
(* blocks, whatever the size of the table.                                 *)
THEOREM TableSound == Spec => [](CardsOnce /\ PairsTogether)
<1>1. Inductive => CardsOnce /\ PairsTogether
  BY DEF Inductive, GameOK, CardsOnce, PairsTogether
<1>. QED  BY <1>1, AlwaysInductive, PTL

(* exist_blocks is the number of blocks that exist.                        *)
THEOREM CounterSound == Spec => []ExistCounted
<1>1. Inductive => ExistCounted
  BY DEF Inductive, GameOK, Present, ExistCounted
<1>. QED  BY <1>1, AlwaysInductive, PTL

(* The selected block has not been removed.                                *)
THEOREM SelectionSound == Spec => []SelectionExists
<1>1. Inductive => SelectionExists
  BY DEF Inductive, GameOK, SelectionExists
<1>. QED  BY <1>1, AlwaysInductive, PTL

(* A touch presses at most one button, and its averaged position does not  *)
(* leave what it touched.                                                  *)
THEOREM TouchSound == Spec => [](OneActiveButton /\ AverageStaysInside)
<1>1. Inductive => OneActiveButton /\ AverageStaysInside
  BY DEF Inductive
<1>. QED  BY <1>1, AlwaysInductive, PTL

(* exit_map frees every card's paths once.                                 *)
THEOREM NoDoubleFree == Spec => []FreedOnce
<1>1. Inductive => FreedOnce
  BY DEF Inductive
<1>. QED  BY <1>1, AlwaysInductive, PTL

(* A touch that stays on the Quit button presses no block after exit_map.  *)
THEOREM QuitSound == Spec => SteadyQuitPressesNothing
<1> DEFINE A == (active["quit"] /\ ButtonRect["quit"] \in span /\ run' = "quit")
                  => game' = RefreshScreen(game)
<1>1. Inductive /\ [Next]_vars => [A]_vars
  <2> SUFFICES ASSUME Inductive, Next, active["quit"],
                      ButtonRect["quit"] \in span, run' = "quit"
               PROVE  game' = RefreshScreen(game)
    OBVIOUS
  <2>1. at[2] < YOff
    <3>1. Within(at, ButtonRect["quit"])
      BY DEF Inductive, AverageStaysInside
    <3>2. ButtonRect["quit"].y + ButtonRect["quit"].h <= YOff
      BY PopAssumption DEF Buttons
    <3>3. ButtonRect["quit"] \in Rectangles /\ YOff \in Int /\ at \in Int \X Int
      BY PopAssumption DEF Buttons, Inductive
    <3>. QED  BY <3>1, <3>2, <3>3 DEF Within, Rectangles
  <2>2. GetBlockId(game, at) = NoBlock
    <3>1. ~(at[2] >= YOff)
      BY <2>1, PopAssumption DEF Inductive
    <3>. QED  BY <3>1 DEF GetBlockId
  <2>3. Tapped(game, mode) = game
    BY <2>2 DEF Tapped, NoBlock
  <2>4. ReleaseQuit
    <3>1. run = "loop" => run' # run
      OBVIOUS
    <3>. QED  BY <3>1 DEF Next, Touch, Release, ReleaseIdle, ReleaseRestart,
                          ReleaseRemap, Die, OneActiveButton, Inductive, Buttons
  <2>. QED  BY <2>3, <2>4 DEF ReleaseQuit
<1>. QED  BY <1>1, AlwaysInductive, PTL DEF Spec, SteadyQuitPressesNothing

(***************************************************************************)
(* The screen.                                                             *)
(***************************************************************************)
\* each block that exists has its picture where it is
Drawn(g) ==
  \A i \in Pos : g.block[i].exist => g.screen[i] = Picture(g.block[i].card, i = g.pressed)

(* press_block draws what it changes.                                      *)
LEMMA PressBlockDrawn ==
  ASSUME NEW g, GameOK(g), Drawn(g), NEW id \in Pos, g.block[id].exist
  PROVE  Drawn(PressBlock(g, id))
<1> SUFFICES ASSUME NEW h, h = PressBlock(g, id)
             PROVE  Drawn(h)
  OBVIOUS
<1> DEFINE card == g.block[id].card
           old  == g.block[g.pressed].card
<1>1. g \in Games /\ g.block \in [Pos -> Blocks] /\ g.screen \in [Pos -> Int]
      /\ g.pressed \in Pos \cup {NoBlock} /\ NoBlock \notin Pos
  BY PosFacts DEF GameOK, Games
<1>2. g = [block |-> g.block, pressed |-> g.pressed, left |-> g.left, screen |-> g.screen]
  BY <1>1 DEF Games
<1>3. CASE g.pressed = id
  <2>1. h = [block |-> g.block, pressed |-> NoBlock, left |-> g.left,
             screen |-> [g.screen EXCEPT ![id] = Picture(card, FALSE)]]
    BY <1>3, <1>2 DEF PressBlock
  <2>2. /\ h.block = g.block /\ h.pressed = NoBlock /\ h.screen[id] = Picture(card, FALSE)
        /\ \A i \in Pos : i # id => h.screen[i] = g.screen[i]
    BY ONLY <1>1, <2>1
  <2>. QED  BY <1>1, <1>3, <2>2 DEF Drawn, Picture
<1>4. CASE g.pressed # id /\ g.pressed = NoBlock
  <2>1. h = [block |-> g.block, pressed |-> id, left |-> g.left,
             screen |-> [g.screen EXCEPT ![id] = Picture(card, TRUE)]]
    BY <1>4, <1>2 DEF PressBlock
  <2>2. /\ h.block = g.block /\ h.pressed = id /\ h.screen[id] = Picture(card, TRUE)
        /\ \A i \in Pos : i # id => h.screen[i] = g.screen[i]
    BY ONLY <1>1, <2>1
  <2>. QED  BY <1>1, <1>4, <2>2 DEF Drawn, Picture
<1>5. CASE g.pressed # id /\ g.pressed # NoBlock /\ Img(card) # Img(old)
  <2>1. h = [block |-> g.block, pressed |-> id, left |-> g.left,
             screen |-> [g.screen EXCEPT ![g.pressed] = Picture(old, FALSE),
                                         ![id] = Picture(card, TRUE)]]
    BY <1>5, <1>2 DEF PressBlock
  <2>2. /\ h.block = g.block /\ h.pressed = id /\ h.screen[id] = Picture(card, TRUE)
        /\ g.pressed # id => h.screen[g.pressed] = Picture(old, FALSE)
        /\ \A i \in Pos : i # id /\ i # g.pressed => h.screen[i] = g.screen[i]
    BY ONLY <1>1, <1>5, <2>1
  <2>. QED  BY <1>1, <1>5, <2>2 DEF Drawn, Picture
<1>6. CASE g.pressed # id /\ g.pressed # NoBlock /\ Img(card) = Img(old)
  <2> DEFINE p == g.pressed
  <2>1. PICK l :
          h = [block   |-> [i \in Pos |-> IF i \in {id, p}
                                         THEN [card |-> g.block[i].card, exist |-> FALSE]
                                         ELSE g.block[i]],
               pressed |-> NoBlock, left |-> l,
               screen  |-> [g.screen EXCEPT ![id] = Blank, ![p] = Blank]]
    BY <1>6 DEF PressBlock, RemovePair
  <2>2. /\ h.pressed = NoBlock
        /\ \A i \in Pos : /\ i \in {id, p} => ~h.block[i].exist
                          /\ i \notin {id, p} => h.block[i] = g.block[i]
                                                 /\ h.screen[i] = g.screen[i]
    BY ONLY <1>1, <2>1
  <2>. QED  BY <1>1, <2>2 DEF Drawn, Picture
<1>. QED  BY <1>3, <1>4, <1>5, <1>6

(* After show_map everything is drawn, if nothing is selected.             *)
LEMMA ShowMapDrawn ==
  ASSUME NEW g, GameOK(g), g.pressed = NoBlock
  PROVE  Drawn(ShowMap(g))
<1> SUFFICES ASSUME NEW h, h = ShowMap(g)
             PROVE  Drawn(h)
  OBVIOUS
<1>1. g \in Games /\ NoBlock \notin Pos
  BY PosFacts DEF GameOK
<1> DEFINE s == [i \in Pos |-> IF g.block[i].exist THEN Picture(g.block[i].card, FALSE)
                               ELSE g.screen[i]]
<1>2. h = [g EXCEPT !.screen = s]
  BY <1>1 DEF ShowMap, Games
<1>3. \A i \in Pos : g.block[i].exist => s[i] = Picture(g.block[i].card, FALSE)
  OBVIOUS
<1> HIDE DEF s
<1>4. h.block = g.block /\ h.pressed = NoBlock /\ h.screen = s
  BY ONLY <1>1, <1>2, g.pressed = NoBlock DEF Games
<1>. QED  BY <1>1, <1>3, <1>4 DEF Drawn, Picture

LEMMA TappedDrawn ==
  ASSUME NEW g, GameOK(g), Drawn(g), NEW m, at \in Int \X Int
  PROVE  Drawn(Tapped(g, m))
<1>1. ~(NoBlock >= 0)
  BY DEF NoBlock
<1>. QED  BY <1>1, GetBlockIdFacts, PressBlockDrawn DEF Tapped, GameOK

(* The pictures of a round are right while it is played.                   *)
DrawnInRound == mode = 1 /\ run # "quit" => Drawn(game)

LEMMA ReleaseDrawn ==
  ASSUME Inductive, DrawnInRound, Release
  PROVE  DrawnInRound'
<1> USE DEF LiftFinger
<1>1. GameOK(game) /\ mode \in {0, 1} /\ at \in Int \X Int /\ run # "quit"
  BY DEF Inductive, Release, ReleaseIdle, ReleaseRestart, ReleaseRemap, ReleaseQuit
<1> SUFFICES ASSUME mode' = 1, run' # "quit"
             PROVE  Drawn(game')
  BY DEF DrawnInRound, Drawn
<1>2. CASE ReleaseIdle
  <2>1. mode = 1
    BY <1>1, <1>2 DEF ReleaseIdle, ModeAfter
  <2>. QED  BY <1>1, <1>2, <2>1, TappedDrawn DEF ReleaseIdle, DrawnInRound
<1>3. CASE ReleaseRestart
  <2>1. PICK p \in Shuffles :
          game' = Tapped(ShowMap(ChangeMap(ResetMap(RefreshScreen(game)), p)), 1)
    BY <1>3 DEF ReleaseRestart
  <2>. QED  BY <1>1, <2>1, DrawingOK, ResetMapOK, ChangeMapOK, ShowMapDrawn, TappedDrawn
<1>4. CASE ReleaseRemap
  <2>1. PICK p \in Shuffles : game' = Tapped(ShowMap(ChangeMap(RefreshScreen(game), p)), 1)
    BY <1>4 DEF ReleaseRemap
  <2>. QED  BY <1>1, <2>1, DrawingOK, ChangeMapOK, ShowMapDrawn, TappedDrawn
<1>5. CASE ReleaseQuit
  BY <1>5 DEF ReleaseQuit
<1>. QED  BY <1>2, <1>3, <1>4, <1>5 DEF Release

(* During a round each block is drawn where a touch finds it, as selected  *)
(* exactly when it is.                                                     *)
THEOREM ScreenSound == Spec => []ScreenShowsBlocks
<1>1. Init => DrawnInRound
  BY DEF Init, DrawnInRound
<1>2. Inductive /\ DrawnInRound /\ [Next]_vars => DrawnInRound'
  <2> SUFFICES ASSUME Inductive, DrawnInRound, [Next]_vars
               PROVE  DrawnInRound'
    OBVIOUS
  <2>1. CASE Release
    BY <2>1, ReleaseDrawn
  <2>2. CASE UNCHANGED <<game, mode>> /\ (run' = run \/ run = "loop")
    BY <2>2 DEF DrawnInRound, Drawn
  <2>. QED  BY <2>1, <2>2 DEF Next, Touch, Die, vars
<1>3. DrawnInRound => ScreenShowsBlocks
  BY DEF DrawnInRound, Drawn, ScreenShowsBlocks
<1>. QED  BY <1>1, <1>2, <1>3, AlwaysInductive, PTL DEF Spec
-----------------------------------------------------------------------------
(* PopGame implements PairGame.  Every step of the program that changes    *)
(* what the player sees of the table is built from three operations on the *)
(* game record: a block is pressed, all blocks come back, and blocks       *)
(* change places.  Each has a lemma that says what it makes of the cards.  *)

\* the cards that are left on the table of g, and the one that is selected
CardsLeft(g) == {g.block[i].card : i \in {j \in Pos : g.block[j].exist}}
CardSelected(g) == IF g.pressed = NoBlock THEN NoBlock ELSE g.block[g.pressed].card

LEMMA PlayerSees ==
  Remaining = CardsLeft(game) /\ Selected = CardSelected(game)
BY DEF Remaining, Selected, CardsLeft, CardSelected

LEMMA CardFacts ==
  ASSUME NEW g, GameOK(g)
  PROVE  /\ g \in Games
         /\ g.block \in [Pos -> Blocks]
         /\ \A i \in Pos : g.block[i].card \in Pos /\ g.block[i].card # NoBlock
         /\ g.pressed # NoBlock => g.pressed \in Pos
<1>1. g \in Games /\ g.block \in [Pos -> Blocks] /\ g.pressed \in Pos \cup {NoBlock}
  BY DEF GameOK, Games
<1>2. \A i \in Pos : g.block[i].card \in Pos
  BY ONLY <1>1 DEF Blocks
<1>. QED  BY <1>1, <1>2, PosFacts

(* The counter by which main() ends a round tells whether cards are left.  *)
LEMMA NoneLeft ==
  ASSUME NEW g, GameOK(g)
  PROVE  g.left = 0 <=> CardsLeft(g) = {}
<1>1. g.left = 0 <=> Present(g) = {}
  BY PresentFacts, FS_EmptySet DEF GameOK
<1>. QED  BY <1>1 DEF CardsLeft, Present

(* Only the table and the selection count.                                 *)
LEMMA SameCards ==
  ASSUME NEW g, NEW h, h.block = g.block
  PROVE  /\ CardsLeft(h) = CardsLeft(g)
         /\ h.pressed = g.pressed => CardSelected(h) = CardSelected(g)
BY DEF CardsLeft, CardSelected

LEMMA DrawingCards ==
  ASSUME NEW g, GameOK(g)
  PROVE  /\ RefreshScreen(g).block = g.block /\ RefreshScreen(g).pressed = g.pressed
         /\ ShowMap(g).block = g.block /\ ShowMap(g).pressed = g.pressed
<1>1. g = [block |-> g.block, pressed |-> g.pressed, left |-> g.left, screen |-> g.screen]
  BY DEF GameOK, Games
<1>2. PICK s : RefreshScreen(g) = [g EXCEPT !.screen = s]
  BY DEF RefreshScreen
<1>3. PICK t : ShowMap(g) = [g EXCEPT !.screen = t]
  BY DEF ShowMap
<1>. QED  BY ONLY <1>1, <1>2, <1>3

-----------------------------------------------------------------------------
(* What touching the card c may make of the table g, without the end of    *)
(* the round.                                                              *)
Touched(g, h, c) ==
  \/ /\ CardSelected(g) = c /\ CardSelected(h) = NoBlock
     /\ CardsLeft(h) = CardsLeft(g)
  \/ /\ CardSelected(g) = NoBlock /\ CardSelected(h) = c
     /\ CardsLeft(h) = CardsLeft(g)
  \/ /\ CardSelected(g) \notin {NoBlock, c} /\ ~Player!Mate(c, CardSelected(g))
     /\ CardSelected(h) = c
     /\ CardsLeft(h) = CardsLeft(g)
  \/ /\ CardSelected(g) # NoBlock /\ Player!Mate(c, CardSelected(g))
     /\ CardSelected(h) = NoBlock
     /\ CardsLeft(h) = CardsLeft(g) \ {c, CardSelected(g)}

LEMMA PressTouches ==
  ASSUME NEW g, GameOK(g), NEW id \in Pos, g.block[id].exist
  PROVE  /\ g.block[id].card \in CardsLeft(g)
         /\ Touched(g, PressBlock(g, id), g.block[id].card)
<1> SUFFICES ASSUME NEW h, h = PressBlock(g, id)
             PROVE  /\ g.block[id].card \in CardsLeft(g)
                    /\ Touched(g, h, g.block[id].card)
  OBVIOUS
<1> DEFINE card == g.block[id].card
           old  == g.block[g.pressed].card
<1>1. /\ g \in Games /\ g.block \in [Pos -> Blocks]
      /\ \A i \in Pos : g.block[i].card \in Pos /\ g.block[i].card # NoBlock
      /\ g.pressed # NoBlock => g.pressed \in Pos
  BY CardFacts
<1>2. card \in CardsLeft(g)
  BY DEF CardsLeft
<1>3. g = [block |-> g.block, pressed |-> g.pressed, left |-> g.left, screen |-> g.screen]
  BY <1>1 DEF Games
<1>4. id # NoBlock
  BY PosFacts
<1>5. CASE g.pressed = id
  <2>1. PICK s : h = [block |-> g.block, pressed |-> NoBlock, left |-> g.left, screen |-> s]
    BY <1>5, <1>3 DEF PressBlock
  <2>2. h.block = g.block /\ h.pressed = NoBlock
    BY ONLY <2>1
  <2>3. CardSelected(g) = card /\ CardSelected(h) = NoBlock
    BY <1>4, <1>5, <2>2 DEF CardSelected
  <2>. QED  BY <1>2, <2>2, <2>3, SameCards DEF Touched
<1>6. CASE g.pressed # id /\ g.pressed = NoBlock
  <2>1. PICK s : h = [block |-> g.block, pressed |-> id, left |-> g.left, screen |-> s]
    BY <1>6, <1>3 DEF PressBlock
  <2>2. h.block = g.block /\ h.pressed = id
    BY ONLY <2>1
  <2>3. CardSelected(g) = NoBlock /\ CardSelected(h) = card
    BY <1>4, <1>6, <2>2 DEF CardSelected
  <2>. QED  BY <1>2, <2>2, <2>3, SameCards DEF Touched
<1>7. CASE g.pressed # id /\ g.pressed # NoBlock /\ Img(card) # Img(old)
  <2>1. PICK s : h = [block |-> g.block, pressed |-> id, left |-> g.left, screen |-> s]
    BY <1>7, <1>3 DEF PressBlock
  <2>2. h.block = g.block /\ h.pressed = id
    BY ONLY <2>1
  <2>3. CardSelected(g) = old /\ CardSelected(h) = card /\ old # NoBlock
    BY <1>1, <1>4, <1>7, <2>2 DEF CardSelected
  <2>4. old # card /\ ~Player!Mate(card, old)
    BY <1>7 DEF Player!Mate, Img
  <2>. QED  BY <1>2, <2>2, <2>3, <2>4, SameCards DEF Touched
<1>8. CASE g.pressed # id /\ g.pressed # NoBlock /\ Img(card) = Img(old)
  <2> DEFINE p == g.pressed
  <2>1. PICK s, l :
          h = [block   |-> [i \in Pos |-> IF i \in {id, p}
                                         THEN [card |-> g.block[i].card, exist |-> FALSE]
                                         ELSE g.block[i]],
               pressed |-> NoBlock, left |-> l, screen |-> s]
    BY <1>8 DEF PressBlock, RemovePair
  <2>2. /\ h.pressed = NoBlock
        /\ \A i \in Pos : /\ h.block[i].card = g.block[i].card
                          /\ h.block[i].exist = (g.block[i].exist /\ i # id /\ i # p)
    BY ONLY <2>1, <1>1 DEF Blocks
  <2>3. p \in Pos /\ p # id
    BY <1>1, <1>8
  <2>4. CardSelected(g) = old /\ old # NoBlock /\ CardSelected(h) = NoBlock
    BY <1>1, <1>8, <2>2, <2>3 DEF CardSelected
  <2>5. card # old
    BY <2>3 DEF GameOK
  <2>6. Player!Mate(card, old)
    BY <2>5, <1>8 DEF Player!Mate, Img
  <2>7. \A i \in Pos : (g.block[i].card = card => i = id) /\ (g.block[i].card = old => i = p)
    BY <2>3 DEF GameOK
  <2>8. CardsLeft(h) = CardsLeft(g) \ {card, old}
    <3>1. ASSUME NEW c
          PROVE  c \in CardsLeft(h) <=> c \in CardsLeft(g) /\ c # card /\ c # old
      <4>1. c \in CardsLeft(h) <=> \E i \in Pos : h.block[i].exist /\ c = h.block[i].card
        BY DEF CardsLeft
      <4>2. c \in CardsLeft(g) <=> \E i \in Pos : g.block[i].exist /\ c = g.block[i].card
        BY DEF CardsLeft
      <4> HIDE DEF card, old, p
      <4>3. \A i \in Pos : /\ i = id => g.block[i].card = card
                           /\ i = p => g.block[i].card = old
        BY DEF card, old, p
      <4>. QED  BY <4>1, <4>2, <4>3, <2>2, <2>7
    <3>. QED  BY <3>1
  <2>. QED  BY <1>2, <2>4, <2>6, <2>8 DEF Touched
<1>. QED  BY <1>5, <1>6, <1>7, <1>8

(* Putting all blocks back puts back all cards.                            *)
LEMMA ResetCards ==
  ASSUME NEW g, GameOK(g)
  PROVE  CardsLeft(ResetMap(g)) = Pos
<1> DEFINE f == [i \in Pos |-> g.block[i].card]
<1>1. \A i \in Pos : g.block[i].card \in Pos
  BY CardFacts
<1>2. f \in Injection(Pos, Pos)
  BY <1>1 DEF GameOK, Injection, IsInjective
<1>3. f \in Surjection(Pos, Pos)
  BY <1>2, PosFacts, FS_Injection
<1> SUFFICES ASSUME NEW h, h = ResetMap(g)
             PROVE  CardsLeft(h) = Pos
  OBVIOUS
<1>4. PICK l : h = [block |-> [i \in Pos |-> [card |-> g.block[i].card, exist |-> TRUE]],
                    pressed |-> g.pressed, left |-> l, screen |-> g.screen]
  <2>1. g \in Games
    BY CardFacts
  <2>. QED  BY <2>1 DEF ResetMap, Games
<1>5. \A i \in Pos : h.block[i].card = g.block[i].card /\ h.block[i].exist = TRUE
  BY ONLY <1>4
<1>6. \A c \in Pos : \E i \in Pos : g.block[i].card = c
  BY <1>3 DEF Surjection
<1>. QED  BY <1>1, <1>5, <1>6 DEF CardsLeft

(* Changing places keeps the cards.                                        *)
LEMMA ChangeMapCards ==
  ASSUME NEW g, GameOK(g), NEW p \in Shuffles
  PROVE  /\ CardsLeft(ChangeMap(g, p)) = CardsLeft(g)
         /\ CardSelected(ChangeMap(g, p)) = NoBlock
<1> DEFINE h == IF g.pressed >= 0 THEN PressBlock(g, g.pressed) ELSE g
<1>1. h \in Games /\ h.block = g.block
  <2>1. g \in Games /\ g.pressed \in Pos \cup {NoBlock}
    BY DEF GameOK, Games
  <2>2. CASE g.pressed = NoBlock
    <3>1. ~(g.pressed >= 0)
      BY <2>2 DEF NoBlock
    <3>. QED  BY <2>1, <3>1
  <2>3. CASE g.pressed \in Pos
    <3>1. g.pressed >= 0 /\ g.block[g.pressed].exist
      BY <2>3, PosFacts DEF Pos, NoBlock, GameOK
    <3> SUFFICES ASSUME NEW k, k = PressBlock(g, g.pressed)
                 PROVE  k \in Games /\ k.block = g.block
      BY <3>1
    <3>2. k \in Games
      BY <2>3, <3>1, PressBlockOK DEF GameOK
    <3>3. PICK s : k = [block |-> g.block, pressed |-> NoBlock, left |-> g.left, screen |-> s]
      BY <2>1 DEF PressBlock, Games
    <3>. QED  BY ONLY <3>2, <3>3
  <2>. QED  BY <2>1, <2>2, <2>3
<1>2. ChangeMap(g, p) = [h EXCEPT !.block = [i \in Pos |-> h.block[p[i]]]]
  BY Zenon DEF ChangeMap
<1> HIDE DEF h
<1>3. ChangeMap(g, p).pressed = NoBlock
  BY ChangeMapOK
<1>4. p \in [Pos -> Pos] /\ \A c \in Pos : \E i \in Pos : p[i] = c
  <2>1. p \in Injection(Pos, Pos)
    BY DEF Shuffles, Injection, IsInjective
  <2>2. p \in Surjection(Pos, Pos)
    BY <2>1, PosFacts, FS_Injection
  <2>. QED  BY <2>2 DEF Surjection, Shuffles
<1> SUFFICES ASSUME NEW k, k = [h EXCEPT !.block = [i \in Pos |-> h.block[p[i]]]]
             PROVE  CardsLeft(k) = CardsLeft(g)
  BY <1>2, <1>3, Zenon DEF CardSelected
<1>5. \A i \in Pos : k.block[i] = g.block[p[i]]
  BY ONLY <1>1, <1>4, k = [h EXCEPT !.block = [i \in Pos |-> h.block[p[i]]]] DEF Games
<1>6. ASSUME NEW c
      PROVE  c \in CardsLeft(k) <=> c \in CardsLeft(g)
  <2>1. c \in CardsLeft(k) <=> \E i \in Pos : k.block[i].exist /\ c = k.block[i].card
    BY DEF CardsLeft
  <2>2. c \in CardsLeft(g) <=> \E j \in Pos : g.block[j].exist /\ c = g.block[j].card
    BY DEF CardsLeft
  <2>. QED  BY <2>1, <2>2, <1>4, <1>5
<1>. QED  BY <1>6

-----------------------------------------------------------------------------
(* The press at the end of an iteration is the touch of a card, or nothing.*)
LEMMA TappedCards ==
  ASSUME NEW g, GameOK(g), NEW m \in {0, 1}, at \in Int \X Int
  PROVE  \/ Tapped(g, m) = g /\ ModeAfter(g, m) = m
         \/ /\ m = 1
            /\ \E c \in CardsLeft(g) :
                 /\ Touched(g, Tapped(g, m), c)
                 /\ ModeAfter(g, m) = IF CardsLeft(Tapped(g, m)) = {} THEN 0 ELSE 1
<1>1. CASE GetBlockId(g, at) = NoBlock
  BY <1>1 DEF Tapped, ModeAfter, NoBlock
<1>2. CASE m = 0
  BY <1>2 DEF Tapped, ModeAfter
<1>3. CASE m = 1 /\ GetBlockId(g, at) \in Pos /\ g.block[GetBlockId(g, at)].exist
  <2> DEFINE id == GetBlockId(g, at)
             h  == Tapped(g, m)
  <2>1. id >= 0
    BY <1>3, PosFacts DEF Pos
  <2>2. h = PressBlock(g, id)
    BY <1>3, <2>1 DEF Tapped
  <2>3. g.block[id].card \in CardsLeft(g) /\ Touched(g, h, g.block[id].card)
    BY <1>3, <2>2, PressTouches
  <2>4. GameOK(h)
    BY TappedOK
  <2>5. ModeAfter(g, m) = IF h.left = 0 THEN 0 ELSE m
    BY <1>3, <2>1 DEF ModeAfter
  <2>. QED  BY <1>3, <2>3, <2>4, <2>5, NoneLeft
<1>. QED  BY <1>1, <1>2, <1>3, GetBlockIdFacts DEF GameOK

(* While cards are left after a touch that matched none, the round goes on.*)
LEMMA TouchIsTouchCard ==
  ASSUME Remaining' = CardsLeft(game'), Selected' = CardSelected(game'),
         mode = 1, NEW c \in CardsLeft(game), Touched(game, game', c),
         mode' = IF CardsLeft(game') = {} THEN 0 ELSE 1
  PROVE  Player!TouchCard
<1>1. c \in Remaining /\ CardsLeft(game) # {} /\ (mode = 1)
  BY PlayerSees
<1>2. ASSUME CardsLeft(game') = CardsLeft(game)
      PROVE  UNCHANGED <<Remaining, mode = 1>>
  BY <1>1, <1>2, PlayerSees
<1>3. CASE /\ CardSelected(game) = c /\ CardSelected(game') = NoBlock
           /\ CardsLeft(game') = CardsLeft(game)
  <2>1. Player!Unselect(c)
    BY <1>2, <1>3, PlayerSees DEF Player!Unselect
  <2>. QED  BY <1>1, <2>1 DEF Player!TouchCard
<1>4. CASE /\ CardSelected(game) = NoBlock /\ CardSelected(game') = c
           /\ CardsLeft(game') = CardsLeft(game)
  <2>1. Player!Select(c)
    BY <1>2, <1>4, PlayerSees DEF Player!Select
  <2>. QED  BY <1>1, <2>1 DEF Player!TouchCard
<1>5. CASE /\ CardSelected(game) \notin {NoBlock, c}
           /\ ~Player!Mate(c, CardSelected(game))
           /\ CardSelected(game') = c /\ CardsLeft(game') = CardsLeft(game)
  <2>1. Player!Reselect(c)
    BY <1>2, <1>5, PlayerSees DEF Player!Reselect
  <2>. QED  BY <1>1, <2>1 DEF Player!TouchCard
<1>6. CASE /\ CardSelected(game) # NoBlock /\ Player!Mate(c, CardSelected(game))
           /\ CardSelected(game') = NoBlock
           /\ CardsLeft(game') = CardsLeft(game) \ {c, CardSelected(game)}
  <2>1. (mode = 1)' = (Remaining' # {})
    OBVIOUS
  <2>2. Player!Match(c)
    BY <2>1, <1>6, PlayerSees DEF Player!Match
  <2>. QED  BY <1>1, <2>2 DEF Player!TouchCard
<1>. QED  BY <1>3, <1>4, <1>5, <1>6 DEF Touched

(* A deal of the game g, at whose end a card may be touched.               *)
LEMMA DealIsDeal ==
  ASSUME NEW g, GameOK(g), g.pressed = NoBlock, CardsLeft(g) \in {Pos, CardsLeft(game)},
         at \in Int \X Int, game' = Tapped(g, 1), mode' = ModeAfter(g, 1)
  PROVE  Player!Deal
<1>1. CardSelected(g) = NoBlock
  BY DEF CardSelected
<1>2. CASE game' = g /\ mode' = 1
  BY <1>1, <1>2, PlayerSees DEF Player!Deal, Remaining, Selected, CardsLeft, CardSelected
<1>3. CASE \E c \in CardsLeft(g) :
             /\ Touched(g, game', c)
             /\ mode' = IF CardsLeft(game') = {} THEN 0 ELSE 1
  <2>1. PICK c \in CardsLeft(g) :
             /\ Touched(g, game', c)
             /\ mode' = IF CardsLeft(game') = {} THEN 0 ELSE 1
    BY <1>3
  <2>2. c # NoBlock
    BY CardFacts DEF CardsLeft
  <2>3. CardSelected(game') = c /\ CardsLeft(game') = CardsLeft(g)
    BY <1>1, <2>1, <2>2 DEF Touched
  <2>4. mode' = 1 /\ c \in CardsLeft(game')
    BY <2>1, <2>3
  <2>. QED  BY <2>3, <2>4, PlayerSees DEF Player!Deal, Remaining, Selected, CardsLeft,
                                          CardSelected
<1>. QED  BY <1>2, <1>3, TappedCards

-----------------------------------------------------------------------------
LEMMA InitRefines == Init => Player!Init
<1> SUFFICES ASSUME Init PROVE Player!Init
  OBVIOUS
<1>1. game.block = [i \in Pos |-> [card |-> i, exist |-> TRUE]] /\ game.pressed = NoBlock
  BY DEF Init, InitMap
<1>2. Remaining = Pos
  <2>1. \A i \in Pos : game.block[i].card = i /\ game.block[i].exist
    BY ONLY <1>1
  <2>. QED  BY <2>1 DEF Remaining
<1>. QED  BY <1>1, <1>2 DEF Init, Player!Init, Selected

LEMMA ReleaseRefines ==
  ASSUME Inductive, Release
  PROVE  [Player!Next]_(Player!vars)
<1> USE DEF LiftFinger
<1>1. GameOK(game) /\ mode \in {0, 1} /\ at \in Int \X Int
  BY DEF Inductive
<1>2. Remaining' = CardsLeft(game') /\ Selected' = CardSelected(game')
  BY DEF Remaining, Selected, CardsLeft, CardSelected
<1>3. CASE ReleaseIdle
  <2>1. game' = Tapped(game, mode) /\ mode' = ModeAfter(game, mode) /\ UNCHANGED run
        /\ run = "loop"
    BY <1>3 DEF ReleaseIdle
  <2>2. CASE game' = game /\ mode' = mode
    BY <2>1, <2>2, <1>2, PlayerSees DEF Player!vars
  <2>3. CASE Player!TouchCard
    BY <2>1, <2>3 DEF Player!Next, Player!Play
  <2>. QED  BY <1>1, <1>2, <2>1, <2>2, <2>3, TappedCards, TouchIsTouchCard
<1>4. CASE ReleaseRestart
  <2>1. PICK p \in Shuffles :
          LET g == ShowMap(ChangeMap(ResetMap(RefreshScreen(game)), p))
          IN  game' = Tapped(g, 1) /\ LiftFinger(ModeAfter(g, 1))
    BY <1>4 DEF ReleaseRestart
  <2> DEFINE r == ResetMap(RefreshScreen(game))
             k == ChangeMap(r, p)
             g == ShowMap(k)
  <2>2. GameOK(r) /\ CardsLeft(r) = Pos
    BY <1>1, DrawingOK, ResetMapOK, ResetCards
  <2> HIDE DEF r
  <2>3. GameOK(k) /\ CardsLeft(k) = Pos /\ k.pressed = NoBlock
    BY <2>2, ChangeMapOK, ChangeMapCards
  <2> HIDE DEF k
  <2>4. GameOK(g) /\ CardsLeft(g) = Pos /\ g.pressed = NoBlock
    BY <2>3, DrawingOK, DrawingCards, SameCards
  <2>5. game' = Tapped(g, 1) /\ mode' = ModeAfter(g, 1)
    BY <2>1 DEF r, k
  <2> HIDE DEF g
  <2>6. Player!Deal
    BY <1>1, <2>4, <2>5, DealIsDeal
  <2>. QED  BY <1>4, <2>6 DEF ReleaseRestart, Player!Next, Player!Play
<1>5. CASE ReleaseRemap
  <2>1. PICK p \in Shuffles :
          LET g == ShowMap(ChangeMap(RefreshScreen(game), p))
          IN  game' = Tapped(g, 1) /\ LiftFinger(ModeAfter(g, 1))
    BY <1>5 DEF ReleaseRemap
  <2> DEFINE r == RefreshScreen(game)
             k == ChangeMap(r, p)
             g == ShowMap(k)
  <2>2. GameOK(r) /\ CardsLeft(r) = CardsLeft(game)
    BY <1>1, DrawingOK, DrawingCards, SameCards
  <2> HIDE DEF r
  <2>3. GameOK(k) /\ CardsLeft(k) = CardsLeft(game) /\ k.pressed = NoBlock
    BY <2>2, ChangeMapOK, ChangeMapCards
  <2> HIDE DEF k
  <2>4. GameOK(g) /\ CardsLeft(g) = CardsLeft(game) /\ g.pressed = NoBlock
    BY <2>3, DrawingOK, DrawingCards, SameCards
  <2>5. game' = Tapped(g, 1) /\ mode' = ModeAfter(g, 1)
    BY <2>1 DEF r, k
  <2> HIDE DEF g
  <2>6. Player!Deal
    BY <1>1, <2>4, <2>5, DealIsDeal
  <2>. QED  BY <1>5, <2>6 DEF ReleaseRemap, Player!Next, Player!Play
<1>6. CASE ReleaseQuit
  <2> DEFINE t == Tapped(game, mode)
  <2>1. game' = RefreshScreen(t) /\ mode' = ModeAfter(game, mode)
        /\ run = "loop" /\ run' = "quit"
    BY <1>6 DEF ReleaseQuit
  <2>2. GameOK(t)
    BY <1>1, TappedOK
  <2>3. CASE t = game /\ mode' = mode
    <3>1. game'.block = game.block /\ game'.pressed = game.pressed
      BY <2>1, <2>2, <2>3, DrawingCards
    <3>. QED  BY <3>1, <2>1, <2>3, <1>2, PlayerSees, SameCards DEF Player!Next, Player!Leave
  <2>4. CASE /\ mode = 1
             /\ \E c \in CardsLeft(game) :
                  /\ Touched(game, t, c)
                  /\ mode' = IF CardsLeft(t) = {} THEN 0 ELSE 1
    <3>1. PICK c \in CardsLeft(game) : /\ Touched(game, t, c)
                                       /\ mode' = IF CardsLeft(t) = {} THEN 0 ELSE 1
      BY <2>4
    <3> HIDE DEF t
    <3>2. CardsLeft(game') = CardsLeft(t) /\ CardSelected(game') = CardSelected(t)
      BY <2>1, <2>2, DrawingCards, SameCards
    <3>3. Touched(game, game', c)
      BY <3>1, <3>2 DEF Touched
    <3>4. Player!TouchCard
      BY <1>2, <2>4, <3>1, <3>2, <3>3, TouchIsTouchCard
    <3>. QED  BY <2>1, <3>4 DEF Player!Next, Player!Leave
  <2>. QED  BY <1>1, <2>1, <2>3, <2>4, TappedCards
<1>. QED  BY <1>3, <1>4, <1>5, <1>6 DEF Release

LEMMA NextRefines == Inductive /\ [Next]_vars => [Player!Next]_(Player!vars)
<1> SUFFICES ASSUME Inductive, [Next]_vars
             PROVE  [Player!Next]_(Player!vars)
  OBVIOUS
<1>1. CASE UNCHANGED <<game, mode, run>>
  BY <1>1 DEF Player!vars, Remaining, Selected
<1>2. CASE Release
  BY <1>2, ReleaseRefines
<1>3. CASE Die
  BY <1>3 DEF Die, Player!Next, Player!Leave, Remaining, Selected
<1>. QED  BY <1>1, <1>2, <1>3 DEF Next, Touch, vars

(***************************************************************************)
(* Whatever the size of the table, the layout, the shuffles and the        *)
(* samples: all the player can do with the cards is what PairGame allows.  *)
(***************************************************************************)
THEOREM PlayerPlaysPairGame == Spec => ImplementsPairGame
<1>. QED  BY InitRefines, NextRefines, AlwaysInductive, PTL
          DEF Spec, ImplementsPairGame, Player!Spec
=============================================================================
